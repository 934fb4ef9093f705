---------------------------- MODULE Planificador ----------------------------
(***************************************************************************)
(* The scheduler of the kernel (kernel.c) and the loop of the CPU          *)
(* processes it feeds (CPU.c): the queues, the thread of the long-term     *)
(* scheduler (planificarSistema), one thread per connected CPU             *)
(* (manejadorCPU), the semaphores of the programs and the commands of the  *)
(* consoles and the keyboard.  No lock protects any of it: a queue seen    *)
(* non-empty is popped in a later step, a semaphore that has been looked   *)
(* at changes its value in a later one.  What is one step here and not in  *)
(* the code: the search of a wait in colaEjecutando with the move to       *)
(* colaBloqueado and the answer, the walk of a signal over colaBloqueado   *)
(* with the move to colaListo, and a pop with the push that follows it.    *)
(* Two walks over one list at the same time are left out.                  *)
(***************************************************************************)
EXTENDS Integers, FiniteSets, SequencesExt

CONSTANTS
  Pids,          \* 1 .. the number of programs the consoles send (a bound)
  CPUs,
  Semaforos,     \* SEM_IDS
  SEM_INIT,      \* semaphore -> its first value
  QUANTUM,       \* lines of a turn under RR, -1 under FIFO
  GRADO_MULTIPROG,
  Lineas,        \* the kinds of lines the programs have
  Nombres,       \* the semaphore names the programs use
  Comandos,      \* the commands the operators give
  ValorMax,      \* bound on the value of a semaphore
  MaxEnCanal,    \* bound on the messages waiting in a socket
  MaxRepetidas   \* bound on the entries of a pid nobody takes out of a queue

ASSUME PidsAssumption == IsFiniteSet(Pids) /\ Pids = 1 .. Cardinality(Pids)

CRUDA == "bare PCB"   \* the PCB that PROCESO_BLOQUEADO queues, with no semaphore

ASSUME SemaforosAssumption ==
  /\ SEM_INIT \in [Semaforos -> Int]
  /\ {"", CRUDA} \cap (Semaforos \cup Nombres) = {}

ASSUME CPUsAssumption == IsFiniteSet(CPUs)

ASSUME ConfigAssumption ==
  /\ QUANTUM \in Nat \cup {-1} /\ QUANTUM # 0
  /\ GRADO_MULTIPROG \in Nat \ {0}
  /\ MaxRepetidas \in Nat \ {0}
  /\ Lineas \subseteq {"comun", "wait", "signal", "finalizar", "aborta"}
  /\ Comandos \subseteq {"finalizar", "detener", "reanudar", "grado", "SIGUSR1"}

VARIABLES
  pidActual,       \* the pid of the next program
  estado,          \* pid -> the field of its PCB in colaProcesos
  liberados,       \* pids whose PCB in colaProcesos has been freed
  colaNuevo,       \* pids
  colaListo,       \* PCBs
  colaEjecutando,  \* PCBs, also those of turns that ended
  colaBloqueado,   \* [pid, semaforo]; semaforo is CRUDA for a bare PCB
  colaFinalizado,  \* pids
  rechazados,      \* pids Memoria had no room for
  valorSemaforo,
  gradoMultiprog,
  estadoPlanificacionesSistema,
  planificador,    \* what planificarSistema is about to do, and with whom
  hilo,            \* CPU -> the state of its manejadorCPU
  cpu,             \* CPU -> the state of its process
  aCPU,            \* CPU -> messages from its thread
  aKernel,         \* CPU -> messages to its thread
  kernel           \* "vivo" or "caido"

colas == << colaNuevo, colaListo, colaEjecutando, colaBloqueado, colaFinalizado >>
procesos == << pidActual, estado, liberados, rechazados >>
config == << gradoMultiprog, estadoPlanificacionesSistema >>
canales == << aCPU, aKernel >>
vars == << colas, procesos, config, canales, valorSemaforo, planificador, hilo,
           cpu, kernel >>

-----------------------------------------------------------------------------
(* PCBs.  "original" is the one iniciarPCB created, which colaProcesos     *)
(* points to; deserializarPCB makes another one.                           *)
PCBs == [pid : Pids, original : BOOLEAN]
Original(p) == [pid |-> p, original |-> TRUE]
Copia(p) == [pid |-> p, original |-> FALSE]
SinPCB == [pid |-> 0, original |-> FALSE]

Creados == {p \in Pids : p < pidActual}

EstaEn(cola, p) == \E i \in DOMAIN cola : cola[i].pid = p

(* Nobody takes the entries of finished turns out of colaEjecutando, nor   *)
(* the bare PCBs out of colaBloqueado: the model keeps MaxRepetidas of each *)
(* pid.                                                                    *)
PonerAcotado(cola, entrada, iguales) ==
  IF Cardinality(iguales) >= MaxRepetidas THEN cola ELSE Append(cola, entrada)

PonerEjecutando(pcb) ==
  PonerAcotado(colaEjecutando, pcb,
               {i \in DOMAIN colaEjecutando : colaEjecutando[i].pid = pcb.pid})

(* The place of the first PCB of a pid, and of the first process blocked   *)
(* by a semaphore; 0 when there is none.                                   *)
LugarDePid(cola, p) == SelectInSeq(cola, LAMBDA pcb : pcb.pid = p)

LugarDeSemaforo(cola, s) == SelectInSeq(cola, LAMBDA b : b.semaforo = s)

SinLaCruda(cola, p) ==
  RemoveFirstMatch(cola, LAMBDA b : b.pid = p /\ b.semaforo = CRUDA)

-----------------------------------------------------------------------------
Init ==
  /\ pidActual = 1
  /\ estado = [p \in Pids |-> "ninguno"]
  /\ liberados = {} /\ rechazados = {} /\ colaFinalizado = {}
  /\ colaNuevo = << >> /\ colaListo = << >>
  /\ colaEjecutando = << >> /\ colaBloqueado = << >>
  /\ valorSemaforo = SEM_INIT
  /\ gradoMultiprog = GRADO_MULTIPROG
  /\ estadoPlanificacionesSistema = TRUE
  /\ planificador = [paso |-> "mirando", pid |-> 0]
  /\ hilo = [c \in CPUs |-> [paso |-> "buscando", pcb |-> SinPCB, semaforo |-> "",
                              lectura |-> "corrida"]]
  /\ cpu = [c \in CPUs |-> [modo |-> "libre", pid |-> 0, quantum |-> QUANTUM,
                            marca |-> "", sigusr1 |-> FALSE, desfasada |-> FALSE]]
  /\ aCPU = [c \in CPUs |-> << >>]
  /\ aKernel = [c \in CPUs |-> << >>]
  /\ kernel = "vivo"

(* A NULL or wild pointer is followed.                                     *)
Caer ==
  /\ kernel' = "caido"
  /\ UNCHANGED << colas, procesos, config, canales, valorSemaforo, planificador,
                  hilo, cpu >>

-----------------------------------------------------------------------------
(* Consoles and keyboard.                                                  *)

(* MENSAJE_CODIGO *)
iniciarPCB ==
  /\ pidActual \in Pids
  /\ pidActual' = pidActual + 1
  /\ estado' = [estado EXCEPT ![pidActual] = "NUEVO"]
  /\ colaNuevo' = Append(colaNuevo, pidActual)
  /\ UNCHANGED << liberados, rechazados, colaListo, colaEjecutando, colaBloqueado,
                  colaFinalizado, config, canales, valorSemaforo, planificador,
                  hilo, cpu, kernel >>

(* finalizarProceso acts on the queue that the field of the original PCB   *)
(* names.  The blocked entries of a semaphore are not PCBs: what the       *)
(* lookup by pid finds in colaBloqueado is a bare PCB.  A PCB already      *)
(* freed may no longer show its pid.                                       *)
finalizarProceso(p) ==
  \/ /\ p \in liberados
     /\ UNCHANGED << estado, liberados, colaNuevo, colaListo, colaBloqueado >>
  \/ LET esNuevo == estado[p] = "NUEVO" /\ Contains(colaNuevo, p)
         i == LugarDePid(colaListo, p)
         esListo == estado[p] = "LISTO" /\ i # 0 IN
     /\ estado' = [estado EXCEPT ![p] = "FINALIZADO"]
     /\ colaNuevo' = IF esNuevo THEN RemoveFirst(colaNuevo, p) ELSE colaNuevo
     /\ colaListo' = IF esListo THEN RemoveAt(colaListo, i) ELSE colaListo
     /\ colaBloqueado' =
          IF estado[p] = "BLOQUEADO" THEN SinLaCruda(colaBloqueado, p) ELSE colaBloqueado
     /\ liberados' = IF esNuevo \/ (esListo /\ colaListo[i].original)
                     THEN liberados \cup {p} ELSE liberados

finalizarPrograma(p) ==
  /\ "finalizar" \in Comandos
  /\ p \in Creados
  /\ finalizarProceso(p)
  /\ UNCHANGED << pidActual, rechazados, colaEjecutando, colaFinalizado, config,
                  canales, valorSemaforo, planificador, hilo, cpu, kernel >>

detenerPlanificacion ==
  /\ "detener" \in Comandos
  /\ estadoPlanificacionesSistema' = FALSE
  /\ UNCHANGED << colas, procesos, gradoMultiprog, canales, valorSemaforo,
                  planificador, hilo, cpu, kernel >>

reanudarPlanificacion ==
  /\ "reanudar" \in Comandos
  /\ estadoPlanificacionesSistema' = TRUE
  /\ UNCHANGED << colas, procesos, gradoMultiprog, canales, valorSemaforo,
                  planificador, hilo, cpu, kernel >>

modificarGradoMultiprogramacion ==
  /\ "grado" \in Comandos
  /\ gradoMultiprog' \in 0 .. GRADO_MULTIPROG
  /\ UNCHANGED << colas, procesos, estadoPlanificacionesSistema, canales,
                  valorSemaforo, planificador, hilo, cpu, kernel >>

-----------------------------------------------------------------------------
(* planificarSistema *)
MirarNuevo ==
  /\ planificador.paso = "mirando"
  /\ estadoPlanificacionesSistema
  /\ colaNuevo # << >>
  /\ planificador' = [paso |-> "vioNuevo", pid |-> 0]
  /\ UNCHANGED << colas, procesos, config, canales, valorSemaforo, hilo, cpu,
                  kernel >>

(* manejarColaNueva looks at the length of colaListo only.                 *)
HayGrado_PorUno == Len(colaListo) <= gradoMultiprog

HayGrado == Len(colaListo) < gradoMultiprog

GradoCompleto_Saca ==
  /\ planificador.paso = "vioNuevo"
  /\ ~HayGrado
  /\ colaNuevo # << >>
  /\ colaNuevo' = Tail(colaNuevo)
  /\ planificador' = [paso |-> "mirando", pid |-> 0]
  /\ UNCHANGED << colaListo, colaEjecutando, colaBloqueado, colaFinalizado, procesos,
                  config, canales, valorSemaforo, hilo, cpu, kernel >>

GradoCompleto ==
  /\ planificador.paso = "vioNuevo"
  /\ ~HayGrado
  /\ planificador' = [paso |-> "mirando", pid |-> 0]
  /\ UNCHANGED << colas, procesos, config, canales, valorSemaforo, hilo, cpu,
                  kernel >>

TomarNuevo ==
  /\ planificador.paso = "vioNuevo"
  /\ HayGrado
  /\ \/ colaNuevo = << >> /\ Caer
     \/ /\ colaNuevo # << >>
        /\ planificador' = [paso |-> "pidiendo", pid |-> Head(colaNuevo)]
        /\ colaNuevo' = Tail(colaNuevo)
        /\ UNCHANGED << colaListo, colaEjecutando, colaBloqueado, colaFinalizado,
                        procesos, config, canales, valorSemaforo, hilo, cpu, kernel >>

(* nuevoAListo, once Memoria has answered INICIAR_PROGRAMA.  The estado of *)
(* the process goes on being NUEVO.                                        *)
Admitir ==
  /\ planificador.paso = "pidiendo"
  /\ colaListo' = Append(colaListo, Original(planificador.pid))
  /\ planificador' = [paso |-> "mirando", pid |-> 0]
  /\ UNCHANGED << colaNuevo, colaEjecutando, colaBloqueado, colaFinalizado,
                  procesos, config, canales, valorSemaforo, hilo, cpu, kernel >>

Rechazar ==
  /\ planificador.paso = "pidiendo"
  /\ rechazados' = rechazados \cup {planificador.pid}
  /\ liberados' = liberados \cup {planificador.pid}
  /\ planificador' = [paso |-> "mirando", pid |-> 0]
  /\ UNCHANGED << colas, pidActual, estado, config, canales, valorSemaforo, hilo,
                  cpu, kernel >>

-----------------------------------------------------------------------------
(* manejadorCPU.                                                           *)

MirarListo(c) ==
  /\ hilo[c].paso = "buscando"
  /\ estadoPlanificacionesSistema
  /\ colaListo # << >>
  /\ hilo' = [hilo EXCEPT ![c].paso = "vioListo"]
  /\ UNCHANGED << colas, procesos, config, canales, valorSemaforo, planificador,
                  cpu, kernel >>

enviarPCB(c, p) ==
  /\ Len(aCPU[c]) < MaxEnCanal
  /\ aCPU' = [aCPU EXCEPT ![c] = Append(@, [tipo |-> "MENSAJE_PCB", pid |-> p])]
  /\ UNCHANGED aKernel

(* Another thread may have taken the process that was seen.                *)
TomarListo(c) ==
  /\ hilo[c].paso = "vioListo"
  /\ \/ colaListo = << >> /\ Caer
     \/ /\ colaListo # << >>
        /\ colaListo' = Tail(colaListo)
        /\ colaEjecutando' = PonerEjecutando(Head(colaListo))
        /\ hilo' = [hilo EXCEPT ![c].paso = "atendiendo", ![c].pcb = Head(colaListo)]
        /\ enviarPCB(c, Head(colaListo).pid)
        /\ UNCHANGED << colaNuevo, colaBloqueado, colaFinalizado, procesos, config,
                        valorSemaforo, planificador, cpu, kernel >>

(* The wait for a ready process also ends when the planning is stopped,    *)
(* and what is sent then is the PCB of the last turn; before the first     *)
(* one, a pointer never set.                                               *)
EnviarSinTomar(c) ==
  /\ hilo[c].paso = "buscando"
  /\ ~estadoPlanificacionesSistema
  /\ \/ hilo[c].pcb = SinPCB /\ Caer
     \/ /\ hilo[c].pcb # SinPCB
        /\ enviarPCB(c, hilo[c].pcb.pid)
        /\ UNCHANGED << colas, procesos, config, valorSemaforo, planificador, hilo,
                        cpu, kernel >>

-----------------------------------------------------------------------------
(* A CPU greets with two words and main reads one.  The thread takes the   *)
(* other one for a type, and the type of the first message for a length:   *)
(* that message is lost, with those that have arrived after it and fit.    *)
(* When the length ends between two messages the thread is in step from    *)
(* there on; when it does not, nothing it reads is a message any more      *)
(* (module Conexiones has the words).                                      *)
RecibirCorrido(c) ==
  /\ hilo[c].paso = "atendiendo" /\ hilo[c].lectura # "enPaso"
  /\ \E n \in DOMAIN aKernel[c] :
       aKernel' = [aKernel EXCEPT ![c] = SubSeq(@, n + 1, Len(@))]
  /\ \E lectura \in {"enPaso", "perdida"} :
       /\ hilo[c].lectura = "perdida" => lectura = "perdida"
       /\ hilo' = [hilo EXCEPT ![c].lectura = lectura]
  /\ UNCHANGED << colas, procesos, config, aCPU, valorSemaforo, planificador, cpu,
                  kernel >>

(* The messages the thread of a busy CPU serves.                           *)
Atendiendo(c, tipo) ==
  /\ hilo[c].paso = "atendiendo" /\ hilo[c].lectura = "enPaso"
  /\ aKernel[c] # << >>
  /\ Head(aKernel[c]).tipo = tipo

Recibido(c) == aKernel' = [aKernel EXCEPT ![c] = Tail(@)]

Notificar(c, notificacion) ==
  aCPU' = [aCPU EXCEPT ![c] = Append(@, [tipo |-> notificacion, pid |-> 0])]

(* A semaphore that does not exist finishes the process.  No answer to a   *)
(* wait: the CPU keeps waiting for one.                                    *)
SemaforoInexistente(c, tipo) ==
  /\ Atendiendo(c, tipo)
  /\ Head(aKernel[c]).semaforo \notin Semaforos
  /\ finalizarProceso(Head(aKernel[c]).pid)
  /\ Recibido(c)
  /\ UNCHANGED << pidActual, rechazados, colaEjecutando, colaFinalizado, config, aCPU,
                  valorSemaforo, planificador, hilo, cpu, kernel >>

EstaLibre_Cero(valor) == valor >= 0

EstaLibre(valor) == valor > 0

(* Blocks the entry of the process that has been longest in colaEjecutando *)
(* and says so to the CPU; with no entry there is no answer.               *)
BloquearProceso(c, p, s) ==
  LET i == LugarDePid(colaEjecutando, p) IN
  IF i = 0
  THEN UNCHANGED << colaBloqueado, colaEjecutando, estado, aCPU >>
  ELSE /\ colaBloqueado' = Append(colaBloqueado, [pid |-> p, semaforo |-> s])
       /\ estado' = IF colaEjecutando[i].original
                    THEN [estado EXCEPT ![p] = "BLOQUEADO"] ELSE estado
       /\ colaEjecutando' = RemoveAt(colaEjecutando, i)
       /\ Notificar(c, "BLOQUEO_POR_SEMAFORO")

(* waitSemaforo up to the answer; the value goes down afterwards.          *)
waitSemaforo(c) ==
  LET m == Head(aKernel[c]) IN
  /\ Atendiendo(c, "WAIT_SEMAFORO")
  /\ m.semaforo \in Semaforos
  /\ IF EstaLibre(valorSemaforo[m.semaforo])
     THEN /\ Notificar(c, "NO_BLOQUEO_POR_SEMAFORO")
          /\ UNCHANGED << colaBloqueado, colaEjecutando, estado >>
     ELSE BloquearProceso(c, m.pid, m.semaforo)
  /\ Recibido(c)
  /\ hilo' = [hilo EXCEPT ![c].paso = "restando", ![c].semaforo = m.semaforo]
  /\ UNCHANGED << colaNuevo, colaListo, colaFinalizado, pidActual, liberados,
                  rechazados, config, valorSemaforo, planificador, cpu, kernel >>

CambiarValor(c, paso, delta) ==
  /\ hilo[c].paso = paso
  /\ valorSemaforo' = [valorSemaforo EXCEPT ![hilo[c].semaforo] = @ + delta]
  /\ hilo' = [hilo EXCEPT ![c].paso = "atendiendo"]
  /\ UNCHANGED << colas, procesos, config, canales, planificador, cpu, kernel >>

RestarValor(c) == CambiarValor(c, "restando", -1)

SumarValor(c) == CambiarValor(c, "sumando", 1)

(* signalSemaforo: the first process blocked by the semaphore leaves       *)
(* colaBloqueado, and its PCB of colaProcesos, not the one that was        *)
(* blocked, becomes ready.                                                 *)
Despertar_SinSacar(i) ==
  /\ estado' = [estado EXCEPT ![colaBloqueado[i].pid] = "LISTO"]
  /\ colaListo' = Append(colaListo, Original(colaBloqueado[i].pid))
  /\ UNCHANGED colaBloqueado

Despertar(i) ==
  /\ estado' = [estado EXCEPT ![colaBloqueado[i].pid] = "LISTO"]
  /\ colaListo' = Append(colaListo, Original(colaBloqueado[i].pid))
  /\ colaBloqueado' = RemoveAt(colaBloqueado, i)

(* With a negative value the loop looks at every entry, also at bare PCBs, *)
(* where it takes the fields of the PCB for pointers: it dies there, or    *)
(* finds another name.                                                     *)
signalSemaforo(c) ==
  LET m == Head(aKernel[c])
      i == LugarDeSemaforo(colaBloqueado, m.semaforo) IN
  /\ Atendiendo(c, "SIGNAL_SEMAFORO")
  /\ m.semaforo \in Semaforos
  /\ \/ /\ valorSemaforo[m.semaforo] < 0
        /\ \E k \in DOMAIN colaBloqueado : colaBloqueado[k].semaforo = CRUDA
        /\ Caer
     \/ /\ IF valorSemaforo[m.semaforo] < 0 /\ i # 0
           THEN Despertar(i) ELSE UNCHANGED << estado, colaListo, colaBloqueado >>
        /\ Recibido(c)
        /\ hilo' = [hilo EXCEPT ![c].paso = "sumando", ![c].semaforo = m.semaforo]
        /\ UNCHANGED << colaNuevo, colaEjecutando, colaFinalizado, pidActual,
                        liberados, rechazados, config, aCPU, valorSemaforo,
                        planificador, cpu, kernel >>

(* The messages that end the turn: the thread looks for another process.   *)
TerminaTurno(c) ==
  /\ Recibido(c)
  /\ hilo' = [hilo EXCEPT ![c].paso = "buscando"]
  /\ UNCHANGED << colaNuevo, colaEjecutando, procesos, config, aCPU, valorSemaforo,
                  planificador, cpu, kernel >>

(* PROCESO_ABORTADO and PROCESO_FINALIZADO *)
Finaliza(c) ==
  /\ Atendiendo(c, "PROCESO_ABORTADO") \/ Atendiendo(c, "PROCESO_FINALIZADO")
  /\ colaFinalizado' = colaFinalizado \cup {Head(aKernel[c]).pid}
  /\ TerminaTurno(c)
  /\ UNCHANGED << colaListo, colaBloqueado >>

(* PROCESO_BLOQUEADO *)
QuedaBloqueado(c) ==
  /\ Atendiendo(c, "PROCESO_BLOQUEADO")
  /\ LET cruda == [pid |-> Head(aKernel[c]).pid, semaforo |-> CRUDA] IN
     colaBloqueado' = PonerAcotado(colaBloqueado, cruda,
                                   {i \in DOMAIN colaBloqueado : colaBloqueado[i] = cruda})
  /\ TerminaTurno(c)
  /\ UNCHANGED << colaListo, colaFinalizado >>

(* PROCESO_FINALIZO_RAFAGA *)
AlFinal_Adelante(pcb) == <<pcb>> \o colaListo

AlFinal(pcb) == Append(colaListo, pcb)

FinalizaRafaga(c) ==
  /\ Atendiendo(c, "PROCESO_FINALIZO_RAFAGA")
  /\ colaListo' = AlFinal(Copia(Head(aKernel[c]).pid))
  /\ TerminaTurno(c)
  /\ UNCHANGED << colaBloqueado, colaFinalizado >>

(* Something was sent to a CPU that is gone: the error of the next recv or *)
(* send ends the kernel.                                                   *)
CPUPerdida(c) ==
  /\ hilo[c].paso \in {"buscando", "atendiendo"}
  /\ cpu[c].modo = "muerta"
  /\ aCPU[c] # << >>
  /\ Caer

-----------------------------------------------------------------------------
(* The CPU process.                                                        *)
SoloCPU == << colas, procesos, config, valorSemaforo, planificador, hilo, kernel >>

(* A CPU that has lost the boundaries of the messages (RespuestaWait)      *)
(* builds a PCB out of the middle of one, and goes no further.             *)
recibirPCBDeKernel(c) ==
  /\ cpu[c].modo = "libre"
  /\ aCPU[c] # << >>
  /\ \/ /\ ~cpu[c].desfasada
        /\ cpu' = [cpu EXCEPT ![c].modo = "ejecutando", ![c].pid = Head(aCPU[c]).pid,
                              ![c].quantum = QUANTUM, ![c].marca = ""]
        /\ aCPU' = [aCPU EXCEPT ![c] = Tail(@)]
     \/ /\ cpu[c].desfasada
        /\ cpu' = [cpu EXCEPT ![c].modo = "muerta"]
        /\ UNCHANGED aCPU
  /\ UNCHANGED << SoloCPU, aKernel >>

(* modificarQuantum: only RR counts. *)
Gastado(quantum) == IF QUANTUM = -1 THEN quantum ELSE quantum - 1

SigueEjecutando(c) ==
  cpu[c].modo = "ejecutando" /\ cpu[c].marca = "" /\ cpu[c].quantum # 0

Enviar(c, mensajes) ==
  /\ Len(aKernel[c]) + Len(mensajes) <= MaxEnCanal
  /\ aKernel' = [aKernel EXCEPT ![c] = @ \o mensajes]
  /\ UNCHANGED aCPU

LineaComun(c) ==
  /\ "comun" \in Lineas
  /\ SigueEjecutando(c)
  /\ cpu' = [cpu EXCEPT ![c].quantum = Gastado(@)]
  /\ UNCHANGED << SoloCPU, canales >>

(* The last line of a program, or one that fails.                          *)
LineaFinal(c) ==
  /\ SigueEjecutando(c)
  /\ \E par \in {<<"finalizar", "PROCESO_FINALIZADO">>, <<"aborta", "PROCESO_ABORTADO">>} :
       /\ par[1] \in Lineas
       /\ cpu' = [cpu EXCEPT ![c].quantum = Gastado(@), ![c].marca = par[2]]
  /\ UNCHANGED << SoloCPU, canales >>

pedirSignal(c, s) ==
  /\ "signal" \in Lineas
  /\ SigueEjecutando(c)
  /\ s \in Semaforos => valorSemaforo[s] < ValorMax
  /\ Enviar(c, <<[tipo |-> "SIGNAL_SEMAFORO", pid |-> cpu[c].pid, semaforo |-> s]>>)
  /\ cpu' = [cpu EXCEPT ![c].quantum = Gastado(@)]
  /\ UNCHANGED SoloCPU

pedirWait(c, s) ==
  /\ "wait" \in Lineas
  /\ SigueEjecutando(c)
  /\ Enviar(c, <<[tipo |-> "WAIT_SEMAFORO", pid |-> cpu[c].pid, semaforo |-> s]>>)
  /\ cpu' = [cpu EXCEPT ![c].modo = "esperando"]
  /\ UNCHANGED SoloCPU

(* The answer to the wait is the first word of what comes next.  That of a *)
(* PCB is neither of the two answers: the line goes on as if it had not    *)
(* blocked, and what is left of the PCB will be read as messages.          *)
RespuestaWait(c) ==
  LET tipo == IF cpu[c].desfasada THEN "resto de una PCB" ELSE Head(aCPU[c]).tipo IN
  /\ cpu[c].modo = "esperando"
  /\ aCPU[c] # << >>
  /\ aCPU' = IF tipo = "resto de una PCB" THEN aCPU ELSE [aCPU EXCEPT ![c] = Tail(@)]
  /\ cpu' = [cpu EXCEPT
       ![c].modo = "ejecutando",
       ![c].quantum = Gastado(@),
       ![c].marca = IF tipo = "BLOQUEO_POR_SEMAFORO" THEN "PROCESO_BLOQUEADO" ELSE "",
       ![c].desfasada = @ \/ tipo = "MENSAJE_PCB"]
  /\ UNCHANGED << SoloCPU, aKernel >>

(* The four checks after the loop: each one sends the PCB on its own       *)
(* account, and enviarPCBAKernel destroys it.  A second one sends what is  *)
(* left of it, or dies.                                                    *)
Motivos(c) ==
  (IF cpu[c].marca = "" THEN << >> ELSE <<cpu[c].marca>>)
    \o (IF cpu[c].quantum = 0 THEN <<"PROCESO_FINALIZO_RAFAGA">> ELSE << >>)

Cierre(tipo, p) == [tipo |-> tipo, pid |-> p, semaforo |-> ""]

TerminarTurno(c) ==
  LET mensajes == [i \in DOMAIN Motivos(c) |-> Cierre(Motivos(c)[i], cpu[c].pid)] IN
  /\ cpu[c].modo = "ejecutando"
  /\ ~SigueEjecutando(c)
  /\ \/ /\ Enviar(c, mensajes)
        /\ cpu' = [cpu EXCEPT ![c].modo = IF cpu[c].sigusr1 THEN "muerta" ELSE "libre"]
     \/ /\ Len(mensajes) = 2
        /\ Enviar(c, <<mensajes[1]>>)
        /\ cpu' = [cpu EXCEPT ![c].modo = "muerta"]
  /\ UNCHANGED SoloCPU

(* chequeameLaSignal: yaMePuedoDesconectar is never set, so the CPU leaves *)
(* after one more turn.                                                    *)
SIGUSR1(c) ==
  /\ "SIGUSR1" \in Comandos
  /\ cpu' = [cpu EXCEPT ![c].sigusr1 = TRUE]
  /\ UNCHANGED << SoloCPU, canales >>

-----------------------------------------------------------------------------
Operadores ==
  \/ iniciarPCB
  \/ \E p \in Pids : finalizarPrograma(p)
  \/ detenerPlanificacion
  \/ reanudarPlanificacion
  \/ modificarGradoMultiprogramacion
  \/ \E c \in CPUs : SIGUSR1(c)

planificarSistema ==
  MirarNuevo \/ GradoCompleto \/ TomarNuevo \/ Admitir \/ Rechazar

manejadorCPU(c) ==
  \/ MirarListo(c)
  \/ TomarListo(c)
  \/ EnviarSinTomar(c)
  \/ RecibirCorrido(c)
  \/ SemaforoInexistente(c, "WAIT_SEMAFORO")
  \/ SemaforoInexistente(c, "SIGNAL_SEMAFORO")
  \/ waitSemaforo(c)
  \/ RestarValor(c)
  \/ signalSemaforo(c)
  \/ SumarValor(c)
  \/ Finaliza(c)
  \/ QuedaBloqueado(c)
  \/ FinalizaRafaga(c)
  \/ CPUPerdida(c)

CicloCPU(c) ==
  \/ recibirPCBDeKernel(c)
  \/ LineaComun(c)
  \/ LineaFinal(c)
  \/ \E s \in Nombres : pedirSignal(c, s) \/ pedirWait(c, s)
  \/ RespuestaWait(c)
  \/ TerminarTurno(c)

Next ==
  /\ kernel = "vivo"
  /\ \/ Operadores
     \/ planificarSistema
     \/ \E c \in CPUs : manejadorCPU(c) \/ CicloCPU(c)

Spec == Init /\ [][Next]_vars

(* The threads are always runnable, and so are the CPU processes; nothing  *)
(* is said of the operators.                                               *)
SpecJusta ==
  /\ Spec
  /\ WF_vars(kernel = "vivo" /\ planificarSistema)
  /\ \A c \in CPUs :
       /\ WF_vars(kernel = "vivo" /\ manejadorCPU(c))
       /\ WF_vars(kernel = "vivo" /\ CicloCPU(c))

-----------------------------------------------------------------------------
(* Properties.                                                             *)

(* How a turn ends, other than by its quantum.                             *)
Marcas == {"PROCESO_ABORTADO", "PROCESO_FINALIZADO", "PROCESO_BLOQUEADO"}

(* What a CPU sends, and what it is sent.                                  *)
Mensajes ==
  [tipo : {"WAIT_SEMAFORO", "SIGNAL_SEMAFORO"}, pid : Pids, semaforo : Nombres]
    \cup [tipo : Marcas \cup {"PROCESO_FINALIZO_RAFAGA"}, pid : Pids, semaforo : {""}]

Avisos == {"NO_BLOQUEO_POR_SEMAFORO", "BLOQUEO_POR_SEMAFORO"}

Envios == [tipo : {"MENSAJE_PCB"}, pid : Pids] \cup [tipo : Avisos, pid : {0}]

EstadosHilo ==
  [paso : {"buscando", "vioListo", "atendiendo", "restando", "sumando"},
   pcb : PCBs \cup {SinPCB}, semaforo : Semaforos \cup {""},
   lectura : {"corrida", "enPaso", "perdida"}]

EstadosCPU ==
  [modo : {"libre", "ejecutando", "esperando", "muerta"}, pid : Pids \cup {0},
   quantum : Int, sigusr1 : BOOLEAN, desfasada : BOOLEAN, marca : Marcas \cup {""}]

(* Everything keeps its type, also what travels between the threads and    *)
(* their CPUs.                                                             *)
TypeOK ==
  /\ aCPU \in [CPUs -> Seq(Envios)] /\ aKernel \in [CPUs -> Seq(Mensajes)]
  /\ pidActual \in Pids \cup {Cardinality(Pids) + 1}
  /\ estado \in [Pids -> {"ninguno", "NUEVO", "LISTO", "BLOQUEADO", "FINALIZADO"}]
  /\ liberados \subseteq Pids /\ rechazados \subseteq Pids /\ colaFinalizado \subseteq Pids
  /\ colaNuevo \in Seq(Pids) /\ colaListo \in Seq(PCBs) /\ colaEjecutando \in Seq(PCBs)
  /\ colaBloqueado \in Seq([pid : Pids, semaforo : Semaforos \cup {CRUDA}])
  /\ valorSemaforo \in [Semaforos -> Int]
  /\ gradoMultiprog \in 0 .. GRADO_MULTIPROG
  /\ estadoPlanificacionesSistema \in BOOLEAN
  /\ planificador \in
       [paso : {"mirando", "vioNuevo"}, pid : {0}] \cup [paso : {"pidiendo"}, pid : Pids]
  /\ hilo \in [CPUs -> EstadosHilo] /\ cpu \in [CPUs -> EstadosCPU]
  /\ \A c \in CPUs : cpu[c].modo \in {"ejecutando", "esperando"} => cpu[c].pid \in Pids
  /\ kernel \in {"vivo", "caido"}

BloqueadosPor(s) == {i \in DOMAIN colaBloqueado : colaBloqueado[i].semaforo = s}

EnTurno(p) ==
  \E c \in CPUs : hilo[c].paso \notin {"buscando", "vioListo"} /\ hilo[c].pcb.pid = p

VecesEn(cola, p) == Cardinality({i \in DOMAIN cola : cola[i].pid = p})

VecesBloqueado(p) ==
  Cardinality({i \in DOMAIN colaBloqueado :
                 colaBloqueado[i].pid = p /\ colaBloqueado[i].semaforo # CRUDA})

Uno(condicion) == IF condicion THEN 1 ELSE 0

(* A program somebody sent and that has neither ended, nor been finished   *)
(* by an operator, nor refused by Memoria.                                 *)
Activos ==
  {p \in Creados : estado[p] # "FINALIZADO" /\ p \notin colaFinalizado \cup rechazados}

(* With one CPU, under FIFO, a live process is in exactly one place: new,  *)
(* being admitted, ready, blocked by a semaphore or in the turn of a CPU.  *)
(* It is neither lost nor queued twice, whatever the programs do with the  *)
(* semaphores and the operators finish meanwhile.                          *)
EnUnSoloLugar ==
  \A p \in Activos :
    Uno(Contains(colaNuevo, p)) + Uno(planificador.pid = p) + VecesEn(colaListo, p)
      + VecesBloqueado(p) + Uno(EnTurno(p) /\ VecesBloqueado(p) = 0) = 1

(* The value a semaphore will have when the threads in the middle of a     *)
(* wait or a signal have changed it, and whether that many are blocked.    *)
EnMedio(c) == hilo[c].paso \in {"restando", "sumando"}

Pendientes(s, paso) == Cardinality({c \in CPUs : hilo[c].paso = paso /\ hilo[c].semaforo = s})

Debidos(valor) == IF valor < 0 THEN -valor ELSE 0

Cuadran(s) ==
  Cardinality(BloqueadosPor(s)) =
    Debidos(valorSemaforo[s] - Pendientes(s, "restando") + Pendientes(s, "sumando"))

(* A wait whose process has no entry in colaEjecutando blocks nobody.      *)
EsperaSinEntrada(c) ==
  /\ Atendiendo(c, "WAIT_SEMAFORO")
  /\ LugarDePid(colaEjecutando, Head(aKernel[c]).pid) = 0

(* A wakeup is lost, or a process blocked for nothing, only when two       *)
(* requests overlap or when the process that waits is not in               *)
(* colaEjecutando: whatever CPUs there are, no other step takes the        *)
(* processes blocked by a semaphore away from its value.                   *)
SoloDescuadraElCruce ==
  [][\A s \in Semaforos : Cuadran(s) /\ ~Cuadran(s)' =>
       \E c \in CPUs : EnMedio(c) \/ EsperaSinEntrada(c)]_vars

(* Stopping the planning sends old PCBs again and CPUs leave: even so no   *)
(* process disappears as long as no CPU takes a PCB for the answer to a    *)
(* wait.  It is in a queue, in a turn, in a CPU or in one of its sockets   *)
(* until it ends.                                                          *)
SinPerdidos ==
  (\A c \in CPUs : ~cpu[c].desfasada) => \A p \in Activos :
    \/ Contains(colaNuevo, p) \/ planificador.pid = p
    \/ EstaEn(colaListo, p) \/ EstaEn(colaBloqueado, p) \/ EnTurno(p)
    \/ \E c \in CPUs :
         \/ cpu[c].modo \in {"ejecutando", "esperando"} /\ cpu[c].pid = p
         \/ EstaEn(aCPU[c], p)
         \/ \E i \in DOMAIN aKernel[c] : aKernel[c][i] = Cierre(aKernel[c][i].tipo, p)

(* Two CPUs never execute lines of the same process at the same time, also *)
(* when one of them wakes it before the other one has handed it back.      *)
EjecutaUnaSola ==
  \A c, d \in CPUs :
    c # d /\ SigueEjecutando(c) /\ SigueEjecutando(d) => cpu[c].pid # cpu[d].pid

(* The degree is checked against colaListo alone, before the answer of     *)
(* Memoria and without a lock; without semaphores the processes ready or   *)
(* in a turn still exceed it by no more than one for each CPU.             *)
ListosAcotados ==
  Len(colaListo) + Cardinality({c \in CPUs : hilo[c].paso = "atendiendo"})
    <= GRADO_MULTIPROG + Cardinality(CPUs)

(* A thread and its CPU wait for each other, for ever.                     *)
Varada(c) ==
  /\ hilo[c].paso = "atendiendo" /\ aKernel[c] = << >>
  /\ cpu[c].modo \in {"libre", "esperando"} /\ aCPU[c] = << >>

(* Round robin: a ready process gets to a CPU, unless a CPU has been left  *)
(* waiting because the end of its first turn was lost.                     *)
ListoEjecuta ==
  \A p \in Pids :
    EstaEn(colaListo, p) ~>
      \E c \in CPUs : Varada(c) \/ (cpu[c].modo = "ejecutando" /\ cpu[c].pid = p)
=============================================================================

------------------------------- MODULE PilaCPU -------------------------------
(***************************************************************************)
(* A program in the CPU: the primitives AnSISOP calls while it analyses a  *)
(* line, which work on the stack of the PCB, and the trips of the PCB      *)
(* between the kernel and the CPU at the ends of a turn.  Algorithm RR.    *)
(*                                                                         *)
(* Of two states nothing is said of what comes after: "indefinida" is a    *)
(* CPU that used memory it had freed, and "duplicada" a process with two   *)
(* PCBs, one of which is an old one.                                       *)
(*                                                                         *)
(* Memoria is one that caches no page (CACHE_X_PROC = 0): the bytes of two *)
(* places of a page are then apart, and stay.  What a page in the cache    *)
(* gives back for an offset that is not 0 is in ContenidoMemoria.          *)
(***************************************************************************)
EXTENDS PCBSerializada, FiniteSets

CONSTANTS
  TAM_PAGINA,    \* tamPaginasMemoria
  STACK_SIZE,    \* pages of stack of a process
  QUANTUM,
  NOMBRES,       \* names of variables
  ARGUMENTOS,    \* names of arguments: the digits a program uses
  VALORES,       \* what a variable may hold
  PCB_INICIAL,   \* the PCB iniciarPCB makes
  SALTOS,        \* what metadata_buscar_etiqueta returns, -1 included
  HOLGURA,       \* bytes malloc gives for the labels, which asks for one
  MAX_VARIABLES, \* bound: variables and arguments a turn puts in the stack
  MAX_LLAMADAS,  \* bound: functions called in a turn
  MAX_RAFAGAS    \* bound: lines executed

VARIABLES
  pcb,
  cpu,       \* where the loop of main is
  banderas,  \* programaEnEjecucionAbortado, ...Bloqueado, ...Finalizado
  quantum,
  punteroAPosicionEnStack,
  puntero,   \* the position the analyser got last in this line
  memoria,   \* position -> value, for the process
  limpieza   \* history: the context of this PCB was emptied once

vars == << pcb, cpu, banderas, quantum, punteroAPosicionEnStack, puntero,
           memoria, limpieza >>

NINGUNA == -1

TamVariable == 4

Base == PCB_INICIAL.cantidadPaginasCodigo * TAM_PAGINA

Posiciones == {Base + TamVariable * k : k \in 0 .. (MAX_VARIABLES - 1)}

ASSUME PilaAssumption ==
  /\ TAM_PAGINA \in Nat \ {0}
  /\ STACK_SIZE \in Nat
  /\ QUANTUM \in Nat \ {0}
  /\ MAX_VARIABLES \in Nat
  /\ MAX_RAFAGAS \in Nat
  /\ SALTOS \subseteq Int
  /\ ARGUMENTOS \subseteq 0 .. 9
  /\ PCB_INICIAL \in
       [pid : Nat, programCounter : Int, cantidadPaginasCodigo : Nat,
        indiceCodigo : Seq(Int), indiceEtiquetas : Seq(Int), rafagas : {0},
        indiceStack : {<<[pos |-> 0, args |-> << >>, vars |-> << >>,
                          retPos |-> BASURA, retVar |-> BASURA]>>}]

obtenerDireccionDePuntero(p) ==
  [numPagina |-> p \div TAM_PAGINA, offset |-> p % TAM_PAGINA]

convertirDeDireccionAPuntero(direccion) ==
  direccion.numPagina * TAM_PAGINA + direccion.offset

Actual == POSICION_STACK_ACTUAL + 1

Contexto == pcb.indiceStack[Actual]

ConContexto(c) == [pcb EXCEPT !.indiceStack[Actual] = c]

PrimeraCon(n) ==
  {i \in DOMAIN Contexto.vars :
     /\ Contexto.vars[i].nombreVariable = n
     /\ \A j \in 1 .. (i - 1) : Contexto.vars[j].nombreVariable # n}

-----------------------------------------------------------------------------
Init ==
  /\ pcb = PCB_INICIAL
  /\ cpu = "espera"
  /\ banderas = {}
  /\ quantum = QUANTUM
  /\ punteroAPosicionEnStack = 0
  /\ puntero = NINGUNA
  /\ memoria \in [Posiciones -> VALORES]
  /\ limpieza = FALSE

(* The labels are copied over a string of one byte.                        *)
EtiquetasDesbordan == Len(pcb.indiceEtiquetas) > HOLGURA

EnPila_SinArgumentos(pila) == Len(pila[1].vars)

EnPila(pila) == Len(pila[1].args) + Len(pila[1].vars)

obtenerUltimoPunteroStack(p) ==
  p.cantidadPaginasCodigo * TAM_PAGINA + TamVariable * EnPila(p.indiceStack)

recibirPCBDeKernel ==
  /\ cpu = "espera"
  /\ pcb.rafagas + QUANTUM <= MAX_RAFAGAS
  /\ cpu' \in {"turno"} \cup (IF EtiquetasDesbordan THEN {"caida"} ELSE {})
  /\ pcb' = deserializarPCB(serializarPCBKernel(pcb))
  /\ punteroAPosicionEnStack' = obtenerUltimoPunteroStack(pcb')
  /\ banderas' = {}
  /\ UNCHANGED << quantum, puntero, memoria, limpieza >>

(* With planning stopped, manejadorCPU does not wait for a ready process:  *)
(* it sends again the PCB it sent before, or the pointer it never set, and *)
(* the PCB that came back is in a queue.                                   *)
enviarPCBAnterior ==
  /\ cpu \in {"espera", "terminado"}
  /\ cpu' = "duplicada"
  /\ UNCHANGED << pcb, banderas, quantum, punteroAPosicionEnStack, puntero, memoria, limpieza >>

(* A line Memoria does not give is a null pointer for the analyser; beyond *)
(* the index of code there may be an address that happens to be good.      *)
pedirLineaAMemoria ==
  /\ cpu = "turno"
  /\ quantum # 0
  /\ banderas = {}
  /\ cpu' \in {"linea", "caida"}
  /\ UNCHANGED << pcb, banderas, quantum, punteroAPosicionEnStack, puntero,
                  memoria, limpieza >>

(* The test of definirVariable for a full stack: cantidadDePaginasDeStack  *)
(* always says 1.                                                          *)
cantidadDePaginasDeStack == 1

StackOverflow ==
  /\ (punteroAPosicionEnStack + TamVariable) % TAM_PAGINA > TAM_PAGINA
  /\ cantidadDePaginasDeStack > STACK_SIZE

VariableNueva(id) ==
  [nombreVariable |-> id,
   direccionDeVariable |-> obtenerDireccionDePuntero(punteroAPosicionEnStack)]

agregarArgumentoAStack(id) ==
  pcb' = ConContexto([Contexto EXCEPT !.args = Append(@, VariableNueva(id))])

agregarVariableAStack(id) ==
  pcb' = ConContexto([Contexto EXCEPT !.vars = Append(@, VariableNueva(id))])

definirVariable(id) ==
  /\ cpu = "linea"
  /\ punteroAPosicionEnStack < Base + TamVariable * MAX_VARIABLES
  /\ IF StackOverflow
     THEN /\ banderas' = banderas \cup {"abortado"}
          /\ puntero' = NINGUNA
          /\ UNCHANGED << pcb, punteroAPosicionEnStack >>
     ELSE /\ IF id \in ARGUMENTOS THEN agregarArgumentoAStack(id)
                                  ELSE agregarVariableAStack(id)
          /\ punteroAPosicionEnStack' = punteroAPosicionEnStack + TamVariable
          /\ puntero' = convertirDeDireccionAPuntero(
                          VariableNueva(id).direccionDeVariable)
          /\ UNCHANGED banderas
  /\ UNCHANGED << cpu, quantum, memoria, limpieza >>

(* obtenerPosicionVariable of a variable.                                  *)
PosicionDeVariable(n) ==
  /\ cpu = "linea"
  /\ \/ \E i \in PrimeraCon(n) :
          /\ puntero' = convertirDeDireccionAPuntero(Contexto.vars[i].direccionDeVariable)
          /\ UNCHANGED banderas
     \/ /\ PrimeraCon(n) = {}
        /\ puntero' = NINGUNA
        /\ banderas' = banderas \cup {"abortado"}
  /\ UNCHANGED << pcb, cpu, quantum, punteroAPosicionEnStack, memoria, limpieza >>

(* atoi reads the digit and, for nothing ends the string there, maybe      *)
(* another one; list_get gives a null pointer for what is not in the list. *)
(* The address of the argument is freed: a later use of it may find        *)
(* anything.                                                               *)
Indices(d) == {d - 1} \cup {10 * d + e - 1 : e \in 0 .. 9}

PosicionDeArgumento(d) ==
  /\ cpu = "linea"
  /\ \E i \in Indices(d) :
       \/ /\ i + 1 \in DOMAIN Contexto.args
          /\ Contexto.args[i + 1].direccionDeVariable # BASURA
          /\ puntero' = convertirDeDireccionAPuntero(
                          Contexto.args[i + 1].direccionDeVariable)
          /\ pcb' = ConContexto(
                      [Contexto EXCEPT !.args[i + 1].direccionDeVariable = BASURA])
          /\ UNCHANGED cpu
       \/ /\ i + 1 \in DOMAIN Contexto.args
          /\ Contexto.args[i + 1].direccionDeVariable = BASURA
          /\ cpu' = "indefinida"
          /\ UNCHANGED << pcb, puntero >>
       \/ /\ i + 1 \notin DOMAIN Contexto.args
          /\ cpu' = "caida"
          /\ UNCHANGED << pcb, puntero >>
  /\ UNCHANGED << banderas, quantum, punteroAPosicionEnStack, memoria, limpieza >>

obtenerPosicionVariable(id) ==
  IF id \in ARGUMENTOS THEN PosicionDeArgumento(id) ELSE PosicionDeVariable(id)

-----------------------------------------------------------------------------
(* What Memoria says to a request for four bytes: a page after those of    *)
(* the stack is either none or one of the heap of the process.             *)
EnPaginasPropias(direccion) ==
  direccion.numPagina < PCB_INICIAL.cantidadPaginasCodigo + STACK_SIZE

espacioInsuficienteParaLaPagina(direccion) ==
  TAM_PAGINA - direccion.offset <= TamVariable

MemoriaAcepta(direccion) ==
  IF espacioInsuficienteParaLaPagina(direccion) THEN {FALSE}
  ELSE IF EnPaginasPropias(direccion) THEN {TRUE} ELSE BOOLEAN

asignar(valor) ==
  /\ cpu = "linea"
  /\ \E acepta \in (IF puntero = NINGUNA THEN {FALSE}
                    ELSE MemoriaAcepta(obtenerDireccionDePuntero(puntero))) :
       \/ /\ acepta
          /\ memoria' = [memoria EXCEPT ![puntero] = valor]
          /\ UNCHANGED banderas
       \/ /\ ~acepta
          /\ banderas' = banderas \cup {"abortado"}
          /\ UNCHANGED memoria
  /\ UNCHANGED << pcb, cpu, quantum, punteroAPosicionEnStack, puntero, limpieza >>

(* A read that fails ends the CPU.                                         *)
dereferenciar ==
  /\ cpu = "linea"
  /\ \/ puntero # NINGUNA /\ UNCHANGED cpu
     \/ /\ puntero = NINGUNA \/ ~EnPaginasPropias(obtenerDireccionDePuntero(puntero))
        /\ cpu' = "caida"
  /\ UNCHANGED << pcb, banderas, quantum, punteroAPosicionEnStack, puntero,
                  memoria, limpieza >>

-----------------------------------------------------------------------------
(* A jump is the last thing a line does.                                   *)
irAlLabel(salto) ==
  /\ cpu = "linea"
  /\ pcb' = [pcb EXCEPT !.programCounter = salto]
  /\ cpu' = "avanza"
  /\ UNCHANGED << banderas, quantum, punteroAPosicionEnStack, puntero, memoria,
                  limpieza >>

ContextoNuevo(retVar) ==
  [pos |-> pcb.indiceStack[Len(pcb.indiceStack)].pos + 1, args |-> << >>,
   vars |-> << >>, retPos |-> pcb.programCounter, retVar |-> retVar]

Llamar(salto, retVar) ==
  /\ cpu = "linea"
  /\ Len(pcb.indiceStack) <= MAX_LLAMADAS
  /\ pcb' = [pcb EXCEPT !.indiceStack = Append(@, ContextoNuevo(retVar)),
                        !.programCounter = salto]
  /\ UNCHANGED << cpu, banderas, quantum, punteroAPosicionEnStack, puntero,
                  memoria, limpieza >>

llamarSinRetorno(salto) == Llamar(salto, BASURA)

llamarConRetorno(salto) == Llamar(salto, puntero)

(* The only context is the program's; with others it is that one which is  *)
(* emptied all the same.                                                   *)
ContextoVacio == [Contexto EXCEPT !.args = << >>, !.vars = << >>]

finalizar ==
  /\ cpu = "linea"
  /\ cpu' = "avanza"
  /\ \/ /\ Len(pcb.indiceStack) = 1
        /\ banderas' = banderas \cup {"finalizado"}
        /\ UNCHANGED << pcb, limpieza >>
     \/ /\ Len(pcb.indiceStack) # 1
        /\ pcb' = [ConContexto(ContextoVacio) EXCEPT
                     !.programCounter = Contexto.retPos]
        /\ limpieza' = TRUE
        /\ UNCHANGED banderas
  /\ UNCHANGED << quantum, punteroAPosicionEnStack, puntero, memoria >>

(* The context is freed and stays in the list, after a write through the   *)
(* address of the return that nobody set.                                  *)
retornar ==
  /\ cpu = "linea"
  /\ cpu' = "indefinida"
  /\ pcb' = [ConContexto(ContextoVacio) EXCEPT
               !.programCounter = Contexto.retPos]
  /\ limpieza' = TRUE
  /\ UNCHANGED << banderas, quantum, punteroAPosicionEnStack, puntero, memoria >>

(* A wait the kernel answers with BLOQUEO_POR_SEMAFORO.                    *)
pedirWait ==
  /\ cpu = "linea"
  /\ banderas' = banderas \cup {"bloqueado"}
  /\ cpu' = "avanza"
  /\ UNCHANGED << pcb, quantum, punteroAPosicionEnStack, puntero, memoria, limpieza >>

-----------------------------------------------------------------------------
modificarQuantum == quantum' = quantum - 1

FinDeLinea ==
  /\ cpu \in {"linea", "avanza"}
  /\ modificarQuantum
  /\ pcb' = [pcb EXCEPT !.programCounter = IF @ = BASURA THEN BASURA ELSE @ + 1,
                        !.rafagas = @ + 1]
  /\ puntero' = NINGUNA
  /\ cpu' = "turno"
  /\ UNCHANGED << banderas, punteroAPosicionEnStack, memoria, limpieza >>

(* The four checks at the end of a turn send and destroy the PCB each.     *)
Motivos == banderas \cup (IF quantum = 0 THEN {"quantum"} ELSE {})

(* The PCB of the next turn.  One that comes back blocked stays in         *)
(* colaBloqueado; what signalSemaforo makes ready is that of colaProcesos, *)
(* which nobody wrote since iniciarPCB.                                    *)
PCBDespues ==
  IF "bloqueado" \in banderas THEN PCB_INICIAL
  ELSE deserializarPCBKernel(serializarPCB(pcb))

enviarPCBAKernel ==
  /\ cpu = "turno"
  /\ Motivos # {}
  /\ \/ /\ Cardinality(Motivos) = 1
        /\ pcb' = PCBDespues
        /\ limpieza' = (limpieza /\ "bloqueado" \notin banderas)
        /\ cpu' \in (IF Motivos \subseteq {"abortado", "finalizado"}
                     THEN {"terminado"} ELSE {"espera"})
                    \cup (IF EtiquetasDesbordan THEN {"caida"} ELSE {})
     \/ /\ Cardinality(Motivos) > 1
        /\ cpu' = "indefinida"
        /\ UNCHANGED << pcb, limpieza >>
  /\ quantum' = QUANTUM
  /\ UNCHANGED << banderas, punteroAPosicionEnStack, puntero, memoria >>

Primitiva ==
  \/ \E id \in NOMBRES \cup ARGUMENTOS :
       definirVariable(id) \/ obtenerPosicionVariable(id)
  \/ \E valor \in VALORES : asignar(valor)
  \/ dereferenciar
  \/ \E salto \in SALTOS :
       irAlLabel(salto) \/ llamarSinRetorno(salto) \/ llamarConRetorno(salto)
  \/ finalizar
  \/ retornar
  \/ pedirWait

Next ==
  \/ recibirPCBDeKernel
  \/ enviarPCBAnterior
  \/ pedirLineaAMemoria
  \/ Primitiva
  \/ FinDeLinea
  \/ enviarPCBAKernel

Spec == Init /\ [][Next]_vars

-----------------------------------------------------------------------------
(* Properties.                                                             *)

Direcciones == {obtenerDireccionDePuntero(p) : p \in Posiciones}

Variable(direcciones) ==
  [nombreVariable : NOMBRES \cup ARGUMENTOS, direccionDeVariable : direcciones]

Contextos ==
  [pos : Nat, args : Seq(Variable(Direcciones \cup {BASURA})),
   vars : Seq(Variable(Direcciones)),
   retPos : Int \cup {BASURA}, retVar : Posiciones \cup {NINGUNA, BASURA}]

TypeOK ==
  /\ pcb.programCounter \in Int \cup {BASURA}
  /\ pcb.cantidadPaginasCodigo = PCB_INICIAL.cantidadPaginasCodigo
  /\ pcb.indiceCodigo = PCB_INICIAL.indiceCodigo
  /\ pcb.indiceEtiquetas = PCB_INICIAL.indiceEtiquetas
  /\ pcb.rafagas \in Nat
  /\ pcb.indiceStack \in Seq(Contextos) /\ Len(pcb.indiceStack) >= 1
  /\ cpu \in {"espera", "turno", "linea", "avanza", "terminado", "caida", "indefinida",
              "duplicada"}
  /\ banderas \subseteq {"abortado", "bloqueado", "finalizado"}
  /\ quantum \in 0 .. QUANTUM
  /\ punteroAPosicionEnStack \in Nat
  /\ puntero \in Posiciones \cup {NINGUNA}
  /\ memoria \in [Posiciones -> VALORES]
  /\ limpieza \in BOOLEAN

(* The addresses of a list of the program's context.                       *)
Ocupadas(lista) ==
  {i \in DOMAIN lista : lista[i].direccionDeVariable # BASURA}

Lugar(lista, i) == convertirDeDireccionAPuntero(lista[i].direccionDeVariable)

Separados(p, q) == p + TamVariable <= q \/ q + TamVariable <= p

(* Until a function ends, no two variables or arguments of the program     *)
(* share a byte, although each turn works out again where the stack ends   *)
(* from a PCB that came over the wire (obtenerUltimoPunteroStack).         *)
SinSolapar ==
  ~limpieza =>
    /\ \A i, j \in DOMAIN Contexto.vars :
         i # j => Separados(Lugar(Contexto.vars, i), Lugar(Contexto.vars, j))
    /\ \A i, j \in Ocupadas(Contexto.args) :
         i # j => Separados(Lugar(Contexto.args, i), Lugar(Contexto.args, j))
    /\ \A i \in DOMAIN Contexto.vars, j \in Ocupadas(Contexto.args) :
         Separados(Lugar(Contexto.vars, i), Lugar(Contexto.args, j))

(* What a function declares goes to the context of the program: those that *)
(* llamarSinRetorno and llamarConRetorno add stay empty.                   *)
TodoEnElPrimero ==
  \A i \in 2 .. Len(pcb.indiceStack) :
    pcb.indiceStack[i].args = << >> /\ pcb.indiceStack[i].vars = << >>

Declaradas == {Contexto.vars[i].nombreVariable : i \in DOMAIN Contexto.vars}

Valores ==
  [n \in Declaradas |->
     memoria[Lugar(Contexto.vars, CHOOSE i \in PrimeraCon(n) : TRUE)]]

Promesa == INSTANCE VariablesFieles WITH
  valores   <- Valores,
  bloqueado <- "bloqueado" \in banderas /\ cpu \in {"avanza", "turno"},
  fiel      <- ~limpieza /\ cpu \notin {"indefinida", "duplicada"}

(* Until a function ends, a freed argument is used or an old PCB is sent,  *)
(* each variable keeps the value it was given last through every turn, and *)
(* no other step takes one away than a wait that blocks, after which the   *)
(* program starts again without any: the stack is as VariablesFieles says. *)
VariablesIntactas == Promesa!Spec
=============================================================================

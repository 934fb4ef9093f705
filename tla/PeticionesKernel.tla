-------------------------- MODULE PeticionesKernel --------------------------
(***************************************************************************)
(* What the programs ask of the kernel once their CPU has greeted it: the  *)
(* shared variables and the files, over the streams of module Conexiones.  *)
(* A thread of the kernel attends each CPU.  All of them share the table   *)
(* of variables, the tables of open files and one socket to FileSystem,    *)
(* from which whoever reads first takes the oldest answer.                 *)
(*                                                                         *)
(* The kernel does not greet FileSystem (kernel.c:1915), and what a        *)
(* FileSystem does then is FSCorta.  The answers of contestarFS are those  *)
(* of a FileSystem that was greeted.                                       *)
(*                                                                         *)
(* Out of this module: which process a CPU gets (Planificador), heap and   *)
(* Memoria's answers to the kernel (ProtocoloMemoria).                     *)
(***************************************************************************)
EXTENDS Conexiones

CONSTANTS
  SHARED_VARS,
  Nombres,     \* the names programs use for shared variables
  Valores,
  Operaciones, \* what the lines of the programs do
  Rutas,       \* what the kernel may take for the path of a file
  MaxMensajes, \* bound: packets each CPU sends after its greeting
  MaxRepiten   \* bound: CPUs that may be in modo "repite" or "destiempo"

ASSUME PeticionesAssumption ==
  /\ SHARED_VARS \subseteq Nombres
  /\ 0 \in Valores /\ Valores \subseteq Int
  /\ MaxMensajes \in Nat /\ MaxRepiten \in Nat

VARIABLES
  valor,               \* valorVariableCompartida of each variable
  tablaAdminGlobal,    \* [globalFD, file, open]
  tablaAdminArchivos,  \* [pid, FD, globalFD]
  alFS, delFS,         \* requests and answers in flight on socketFS
  ultimo,              \* the number of the last packet of each CPU attended
  vistos               \* values a variable had since it was asked for or written

tablas == << tablaAdminGlobal, tablaAdminArchivos >>
peticiones == << valor, tablas, alFS, delFS, ultimo, vistos >>
vars == << conexiones, peticiones >>

(* Types of message, and the bytes of their bodies for names of one byte.  *)
PETICION_VARIABLE_COMPARTIDA_KERNEL == 100
PETICION_CAMBIO_VALOR_KERNEL == 101
DATOS_VARIABLE_COMPARTIDA_KERNEL == 102
SIGNAL_SEMAFORO == 106
OPERACION_VARIABLE_COMPARTIDA_FALLIDA == 109
ABRIR_ARCHIVO == 300
BORRAR_ARCHIVO == 302
CERRAR_ARCHIVO == 303
MOVER_CURSOR == 304
ESCRIBIR_DATOS_ARCHIVO == 305
LEER_DATOS_ARCHIVO == 306
OPERACION_FALLIDA == 411
MENSAJE_PCB == 2000
PROCESO_ABORTADO == 2001
PROCESO_FINALIZADO == 2002
PROCESO_FINALIZO_RAFAGA == 2004
TAMANIO_PCB == 101

OperacionesDeArchivo == {"abrir", "borrar", "cerrar", "mover", "escribir", "leerArchivo"}
OperacionesDeVariable == {"leer", "asignar"}

ASSUME OperacionesAssumption ==
  Operaciones \subseteq {"signal"} \cup OperacionesDeVariable \cup OperacionesDeArchivo

Tipo(op) ==
  CASE op = "signal"      -> SIGNAL_SEMAFORO
    [] op = "leer"        -> PETICION_VARIABLE_COMPARTIDA_KERNEL
    [] op = "asignar"     -> PETICION_CAMBIO_VALOR_KERNEL
    [] op = "abrir"       -> ABRIR_ARCHIVO
    [] op = "borrar"      -> BORRAR_ARCHIVO
    [] op = "cerrar"      -> CERRAR_ARCHIVO
    [] op = "mover"       -> MOVER_CURSOR
    [] op = "escribir"    -> ESCRIBIR_DATOS_ARCHIVO
    [] op = "leerArchivo" -> LEER_DATOS_ARCHIVO

Tamanio(op) ==
  CASE op \in {"signal", "leer"}   -> 9
    [] op = "asignar"              -> 13
    [] op = "abrir"                -> 8
    [] op \in {"borrar", "cerrar"} -> 8
    [] op = "mover"                -> 12
    [] op = "escribir"             -> 13
    [] op = "leerArchivo"          -> 16

-----------------------------------------------------------------------------
InitPeticiones ==
  /\ Init
  /\ valor = [v \in SHARED_VARS |-> 0]
  /\ tablaAdminGlobal = << >> /\ tablaAdminArchivos = << >>
  /\ alFS = << >> /\ delFS = << >>
  /\ ultimo = [c \in CPUs |-> 0]
  /\ vistos = [c \in CPUs |-> {}]

-----------------------------------------------------------------------------
(* The CPUs.                                                               *)
SoloCPU == << deKernel, deMemoria, valor, tablas, alFS, delFS, ultimo >>

recibirPCBDeKernel(c) ==
  /\ cpu[c].modo = "libre"
  /\ HayPaquete(aCPU[c])
  /\ aCPU' = [aCPU EXCEPT ![c] = recvRemasterizado(@).resto]
  /\ cpu' = [cpu EXCEPT ![c].modo = "ejecutando", ![c].abortado = FALSE]
  /\ UNCHANGED << SoloCPU, aKernel, vistos >>

pedirLineaAMemoria(c) ==
  /\ cpu[c].modo = "ejecutando" /\ ~cpu[c].abortado
  /\ Modo(c, "pidiendoLinea")
  /\ UNCHANGED << SoloCPU, flujos, vistos >>

ModoDeEspera(op) ==
  CASE op = "signal" -> "ejecutando"
    [] op \in OperacionesDeVariable \cup {"abrir", "leerArchivo"} -> "esperaPaquete"
    [] op \in {"borrar", "cerrar", "mover", "escribir"} -> "esperaNotificacion"

(* A primitive sends its request and, unless it is a signal, waits.        *)
(*                                                                         *)
(* A CPU closes a turn twice when it aborts, or its program ends, on the   *)
(* last line of the quantum: the second packet is of a PCB it has freed.   *)
(* If it survives, it gets two PCBs, the second while it executes the      *)
(* first one, and its requests and what it reads no longer correspond.     *)
(* In modo "repite" the second packet is due; in modo "destiempo" it has   *)
(* gone, the CPU may send whatever a CPU sends, at any time, and what it   *)
(* reads is left out.                                                      *)
Pedir(c, op, clave, nuevo) ==
  /\ cpu[c].modo \in {"conLinea", "destiempo"}
  /\ cpu[c].nro < MaxMensajes
  /\ op \in Operaciones
  /\ (op # "asignar" => nuevo = 0)
  /\ (clave = "") <=> (op \notin OperacionesDeVariable)
  /\ aKernel' = [aKernel EXCEPT ![c] =
       sendRemasterizado(@, Tipo(op), Tamanio(op),
         [clave |-> clave, valor |-> nuevo, nro |-> cpu[c].nro + 1])]
  /\ \/ /\ cpu[c].modo = "conLinea"
        /\ cpu' = [cpu EXCEPT ![c] = [modo |-> ModoDeEspera(op), abortado |-> FALSE,
                     op |-> IF op = "signal" THEN "" ELSE op, clave |-> clave,
                     nro |-> cpu[c].nro + 1]]
        /\ vistos' = [vistos EXCEPT ![c] =
             IF op = "leer" /\ clave \in SHARED_VARS THEN {valor[clave]} ELSE {}]
     \/ /\ cpu[c].modo = "destiempo"
        /\ cpu' = [cpu EXCEPT ![c].nro = @ + 1]
        /\ UNCHANGED vistos
  /\ UNCHANGED << SoloCPU, aCPU >>

Contestada(c, modo) ==
  [cpu EXCEPT ![c].modo = modo, ![c].op = "", ![c].clave = ""]

recibirValorCompartida(c) ==
  LET recibido == recvRemasterizado(aCPU[c]) IN
  /\ cpu[c].modo = "esperaPaquete" /\ cpu[c].op \in OperacionesDeVariable
  /\ HayPaquete(aCPU[c])
  /\ aCPU' = [aCPU EXCEPT ![c] = recibido.resto]
  /\ \/ /\ recibido.tipo = DATOS_VARIABLE_COMPARTIDA_KERNEL
        /\ cpu' = Contestada(c, "ejecutando")
     \/ /\ recibido.tipo = OPERACION_VARIABLE_COMPARTIDA_FALLIDA
        /\ cpu' = Contestada(c, "muerta")
  /\ vistos' = [vistos EXCEPT ![c] = {}]
  /\ UNCHANGED << SoloCPU, aKernel >>

OPERACION_CON_ARCHIVO_EXITOSA_CPU == 1

EsError_AlReves(notificacion) == notificacion = OPERACION_CON_ARCHIVO_EXITOSA_CPU

EsError(notificacion) == notificacion # OPERACION_CON_ARCHIVO_EXITOSA_CPU

(* The end of borrameArchivo, cerrameArchivo, movemeElCursor and           *)
(* escribimeArchivo.                                                       *)
RecibirResultado(c) ==
  /\ cpu[c].modo = "esperaNotificacion"
  /\ aCPU[c] # << >>
  /\ LET recibido == recvDeNotificacion(aCPU[c]) IN
     /\ aCPU' = [aCPU EXCEPT ![c] = recibido.resto]
     /\ cpu' = [Contestada(c, "ejecutando") EXCEPT
                  ![c].abortado = EsError(recibido.notificacion)]
  /\ UNCHANGED << SoloCPU, aKernel, vistos >>

Motivos(c) ==
  IF cpu[c].abortado THEN {PROCESO_ABORTADO} ELSE {PROCESO_FINALIZADO, PROCESO_FINALIZO_RAFAGA}

PuedeRepetir ==
  Cardinality({c \in CPUs : cpu[c].modo \in {"repite", "destiempo"}}) < MaxRepiten

(* enviarPCBAKernel: the PCB goes back.                                    *)
enviarPCBAKernel(c, tipo, modo) ==
  /\ cpu[c].nro < MaxMensajes
  /\ aKernel' = [aKernel EXCEPT ![c] =
       sendRemasterizado(@, tipo, TAMANIO_PCB, [Vacio EXCEPT !.nro = cpu[c].nro + 1])]
  /\ cpu' = [cpu EXCEPT ![c].modo = modo, ![c].nro = @ + 1]
  /\ UNCHANGED << SoloCPU, aCPU, vistos >>

(* The checks after the last line.  With SIGUSR1, or when the second       *)
(* packet breaks it, the CPU leaves.                                       *)
TerminarTurno(c) ==
  \/ /\ cpu[c].modo = "ejecutando"
     /\ \E tipo \in Motivos(c), modo \in {"libre", "muerta"} : enviarPCBAKernel(c, tipo, modo)
  \/ /\ cpu[c].modo = "ejecutando" /\ PuedeRepetir
     /\ \E tipo \in Motivos(c) \ {PROCESO_FINALIZO_RAFAGA} : enviarPCBAKernel(c, tipo, "repite")
  \/ /\ cpu[c].modo = "repite"
     /\ \E modo \in {"destiempo", "muerta"} : enviarPCBAKernel(c, PROCESO_FINALIZO_RAFAGA, modo)
  \/ /\ cpu[c].modo = "destiempo"
     /\ \E tipo \in {PROCESO_ABORTADO, PROCESO_FINALIZADO, PROCESO_FINALIZO_RAFAGA},
           modo \in {"destiempo", "muerta"} : enviarPCBAKernel(c, tipo, modo)

CicloCPU(c) ==
  \/ recibirPCBDeKernel(c)
  \/ pedirLineaAMemoria(c)
  \/ \E op \in Operaciones, clave \in Nombres \cup {""}, nuevo \in Valores :
       Pedir(c, op, clave, nuevo)
  \/ recibirValorCompartida(c)
  \/ RecibirResultado(c)
  \/ TerminarTurno(c)

-----------------------------------------------------------------------------
(* The threads of the kernel.                                              *)
SoloHilo == << porAceptar, socketsCliente, cpu, deMemoria >>

Paso(c, paso, clave, dato) ==
  hilo' = [hilo EXCEPT ![c] = [paso |-> paso, clave |-> clave, valor |-> dato]]

(* enviarPCB.  Nobody receives at the other end of a CPU that has left:    *)
(* the kernel gets SIGPIPE, or the error that makes it exit.               *)
enviarPCB(c) ==
  /\ hilo[c].paso = "buscando" /\ cpu[c].modo # "muerta"
  /\ aCPU' = [aCPU EXCEPT ![c] = sendRemasterizado(@, MENSAJE_PCB, TAMANIO_PCB, Vacio)]
  /\ Paso(c, "escuchando", "", 0)
  /\ UNCHANGED << SoloHilo, kernel, aKernel, peticiones >>

EnviarACPUPerdida(c) ==
  /\ hilo[c].paso = "buscando" /\ cpu[c].modo = "muerta"
  /\ Caer
  /\ UNCHANGED << hilo, flujos, cpu, deMemoria, peticiones >>

Recibido(c) == recvRemasterizado(aKernel[c])

(* The thread out of step takes the word that main left for a type, and    *)
(* the type of the first packet for a length.  When the length ends inside *)
(* a later packet, the thread does not find the boundaries again: after    *)
(* the first type come a size, a body and packets of three pieces.         *)
TerminaDentroDeOtro(flujo) ==
  LET despues == SubSeq(flujo, 3, Len(flujo))
      tam == flujo[2].entero
      k == Recibidos(despues, tam) IN
  k < Len(despues) /\ ~(k % 3 = 2 /\ LargoHasta(despues)[k] = tam)

RecibirFueraDePaso(c) ==
  /\ hilo[c].paso = "escuchando"
  /\ HayPaquete(aKernel[c])
  /\ Recibido(c).tipo = 0
  /\ aKernel' = [aKernel EXCEPT ![c] = Recibido(c).resto]
  /\ hilo' = [hilo EXCEPT ![c].paso = IF TerminaDentroDeOtro(aKernel[c]) THEN "perdido" ELSE @]
  /\ UNCHANGED << SoloHilo, kernel, aCPU, peticiones >>

(* recv returns 0 bytes for ever, and no case knows the type.              *)
RecibirDeCPUPerdida(c) ==
  /\ hilo[c].paso = "escuchando"
  /\ cpu[c].modo = "muerta" /\ aKernel[c] = << >>
  /\ Paso(c, "perdido", "", 0)
  /\ UNCHANGED << SoloHilo, kernel, flujos, peticiones >>

(* recvRemasterizado of a whole packet of one of the types.                *)
Recibir(c, tipos) ==
  /\ hilo[c].paso = "escuchando"
  /\ HayPaquete(aKernel[c])
  /\ Recibido(c).tipo \in tipos
  /\ aKernel' = [aKernel EXCEPT ![c] = Recibido(c).resto]
  /\ ultimo' = [ultimo EXCEPT ![c] = Recibido(c).mensaje.nro]

Contestar(c, flujo) == aCPU' = [aCPU EXCEPT ![c] = flujo]

(* Its effect is in module Planificador.                                   *)
signalSemaforo(c) ==
  /\ Recibir(c, {SIGNAL_SEMAFORO})
  /\ UNCHANGED << SoloHilo, kernel, hilo, aCPU, valor, tablas, alFS, delFS, vistos >>

VuelvePCB(c) ==
  /\ Recibir(c, {PROCESO_ABORTADO, PROCESO_FINALIZADO, PROCESO_FINALIZO_RAFAGA})
  /\ Paso(c, "buscando", "", 0)
  /\ UNCHANGED << SoloHilo, kernel, aCPU, valor, tablas, alFS, delFS, vistos >>

EnviarValor(c, dato) ==
  Contestar(c, sendRemasterizado(aCPU[c], DATOS_VARIABLE_COMPARTIDA_KERNEL, 4,
                                 [Vacio EXCEPT !.valor = dato]))

obtenerValorVariableCompartida(c) ==
  LET v == Recibido(c).mensaje.clave IN
  /\ Recibir(c, {PETICION_VARIABLE_COMPARTIDA_KERNEL})
  /\ v \in SHARED_VARS
  /\ EnviarValor(c, valor[v])
  /\ UNCHANGED << SoloHilo, kernel, hilo, valor, tablas, alFS, delFS, vistos >>

(* The name is copied without its end, so the search may miss a variable   *)
(* that exists; finalizarProceso does not touch a process that executes.   *)
VariableInexistente(c) ==
  /\ Recibir(c, {PETICION_VARIABLE_COMPARTIDA_KERNEL, PETICION_CAMBIO_VALOR_KERNEL})
  /\ Contestar(c, sendRemasterizado(aCPU[c], OPERACION_VARIABLE_COMPARTIDA_FALLIDA, 0, Vacio))
  /\ UNCHANGED << SoloHilo, kernel, hilo, valor, tablas, alFS, delFS, vistos >>

asignarValorVariableCompartida(c) ==
  LET m == Recibido(c).mensaje IN
  /\ Recibir(c, {PETICION_CAMBIO_VALOR_KERNEL})
  /\ m.clave \in SHARED_VARS
  /\ valor' = [valor EXCEPT ![m.clave] = m.valor]
  /\ Paso(c, "asignando", m.clave, valor[m.clave])
  /\ vistos' = [d \in CPUs |->
       IF d = c THEN {m.valor}
       ELSE IF vistos[d] # {} /\ cpu[d].clave = m.clave THEN vistos[d] \cup {m.valor}
       ELSE vistos[d]]
  /\ UNCHANGED << SoloHilo, kernel, aCPU, tablas, alFS, delFS >>

ContestarAsignacion_Anterior(c) ==
  /\ hilo[c].paso = "asignando"
  /\ EnviarValor(c, hilo[c].valor)
  /\ Paso(c, "escuchando", "", 0)
  /\ UNCHANGED << SoloHilo, kernel, aKernel, peticiones >>

(* The value is read when it is sent.                                      *)
ContestarAsignacion(c) ==
  /\ hilo[c].paso = "asignando"
  /\ EnviarValor(c, valor[hilo[c].clave])
  /\ Paso(c, "escuchando", "", 0)
  /\ UNCHANGED << SoloHilo, kernel, aKernel, peticiones >>

-----------------------------------------------------------------------------
(* Files.                                                                  *)
VALIDAR_ARCHIVO == 407
CREAR_ARCHIVO == 405
OPERACION_FINALIZADA_CORRECTAMENTE == 410
EXISTE_ARCHIVO == 412
NO_EXISTE_ARCHIVO == 413

(* The least number from desde on that is not in use.                      *)
MenorLibre(usados, desde) ==
  CHOOSE n \in desde .. (desde + Cardinality(usados)) :
    n \notin usados /\ \A k \in desde .. (n - 1) : k \in usados

nuevoGFD == MenorLibre({e.globalFD : e \in ToSet(tablaAdminGlobal)}, 0)

(* The entries of the process are read as entries of the global table: the *)
(* field globalFD of those is the field FD of these.                       *)
nuevoFD(pid) ==
  MenorLibre({e.FD : e \in {a \in ToSet(tablaAdminArchivos) : a.pid = pid}}, 3)

buscarEnTG(path) == \E e \in ToSet(tablaAdminGlobal) : e.file = path

agregarEntradaTG_Directo(path) ==
  IF buscarEnTG(path) THEN {}
  ELSE {Append(tablaAdminGlobal, [globalFD |-> nuevoGFD, file |-> path, open |-> 1])}

(* The table with a new entry when there is one of that path; when there   *)
(* is none, the entry that is not found is NULL and is written to.         *)
agregarEntradaTG(path) ==
  IF buscarEnTG(path)
  THEN {Append(tablaAdminGlobal, [globalFD |-> nuevoGFD, file |-> path, open |-> 1])}
  ELSE {}

PID_LEIDO == 0  \* what the kernel takes for the pid: it reads one field too far

OPERACION_CON_ARCHIVO_EXITOSA == 10

(* The end of abrirArchivo for a file that FileSystem has, or has just     *)
(* created: then agregarEntradaTG is called twice, and the first call has  *)
(* ended the kernel already when there is no entry of that path.           *)
EntrarEnTablas(c, path) ==
  IF agregarEntradaTG(path) = {}
  THEN Caer /\ UNCHANGED << hilo, aCPU, tablas >>
  ELSE \E tabla \in agregarEntradaTG(path) :
         /\ tablaAdminGlobal' = tabla
         /\ tablaAdminArchivos' = Append(tablaAdminArchivos,
              [pid |-> PID_LEIDO, FD |-> nuevoFD(PID_LEIDO), globalFD |-> nuevoGFD])
         /\ Contestar(c, sendDeNotificacion(aCPU[c], OPERACION_CON_ARCHIVO_EXITOSA))
         /\ Paso(c, "escuchando", "", 0)
         /\ UNCHANGED << kernel, porAceptar, socketsCliente >>

NoSePudoAbrir_Paquete(c) ==
  /\ Contestar(c, sendRemasterizado(aCPU[c], OPERACION_FALLIDA, 0, Vacio))
  /\ Paso(c, "escuchando", "", 0)
  /\ UNCHANGED << kernel, porAceptar, socketsCliente, tablas >>

NoSePudoAbrir(c) ==
  /\ Contestar(c, sendDeNotificacion(aCPU[c], OPERACION_FALLIDA))
  /\ Paso(c, "escuchando", "", 0)
  /\ UNCHANGED << kernel, porAceptar, socketsCliente, tablas >>

(* ABRIR_ARCHIVO, up to the recv of validarArchivo.  path and flags are    *)
(* read past their place in the message: any of them may come out.         *)
abrirArchivo(c) ==
  /\ Recibir(c, {ABRIR_ARCHIVO})
  /\ \E path \in Rutas :
       /\ alFS' = Append(alFS, VALIDAR_ARCHIVO)
       /\ Paso(c, "validando", path, 0)
  /\ UNCHANGED << SoloHilo, kernel, aCPU, valor, tablas, delFS, vistos >>

RecibirDelFS(c, paso) ==
  /\ hilo[c].paso = paso
  /\ delFS # << >>
  /\ delFS' = Tail(delFS)

validarArchivo(c) ==
  /\ RecibirDelFS(c, "validando")
  /\ \/ /\ Head(delFS) = EXISTE_ARCHIVO
        /\ EntrarEnTablas(c, hilo[c].clave)
        /\ UNCHANGED alFS
     \/ /\ Head(delFS) # EXISTE_ARCHIVO
        /\ \/ /\ alFS' = Append(alFS, CREAR_ARCHIVO)     \* flags->creacion
              /\ Paso(c, "creando", hilo[c].clave, 0)
              /\ UNCHANGED << kernel, porAceptar, socketsCliente, aCPU, tablas >>
           \/ NoSePudoAbrir(c) /\ UNCHANGED alFS
  /\ UNCHANGED << aKernel, cpu, deMemoria, valor, ultimo, vistos >>

crearArchivo(c) ==
  /\ RecibirDelFS(c, "creando")
  /\ \/ Head(delFS) = OPERACION_FINALIZADA_CORRECTAMENTE /\ EntrarEnTablas(c, hilo[c].clave)
     \/ Head(delFS) # OPERACION_FINALIZADA_CORRECTAMENTE /\ NoSePudoAbrir(c)
  /\ UNCHANGED << aKernel, cpu, deMemoria, valor, alFS, ultimo, vistos >>

(* The tables have no entries: the global one is searched and none of them *)
(* is the one of the file.                                                 *)
cerrarArchivo(c) ==
  /\ Recibir(c, {CERRAR_ARCHIVO})
  /\ tablaAdminGlobal = << >>
  /\ Contestar(c, sendDeNotificacion(aCPU[c], OPERACION_FALLIDA))
  /\ UNCHANGED << SoloHilo, kernel, hilo, valor, tablas, alFS, delFS, vistos >>

(* The other four follow the entry they did not find, which is NULL.       *)
SinEntrada(c, tipo) ==
  /\ Recibir(c, {tipo})
  /\ tablaAdminArchivos = << >>
  /\ Caer
  /\ UNCHANGED << hilo, aCPU, cpu, deMemoria, valor, tablas, alFS, delFS, vistos >>

borrarArchivo(c) == SinEntrada(c, BORRAR_ARCHIVO)

escribirArchivo(c) == SinEntrada(c, ESCRIBIR_DATOS_ARCHIVO)

leerArchivo(c) == SinEntrada(c, LEER_DATOS_ARCHIVO)

moverCursor(c) == SinEntrada(c, MOVER_CURSOR)

(* A FileSystem that was greeted answers each request, in order.           *)
contestarFS ==
  /\ alFS # << >>
  /\ alFS' = Tail(alFS)
  /\ \E respuesta \in IF Head(alFS) = VALIDAR_ARCHIVO
                      THEN {EXISTE_ARCHIVO, NO_EXISTE_ARCHIVO}
                      ELSE {OPERACION_FINALIZADA_CORRECTAMENTE, OPERACION_FALLIDA} :
       delFS' = Append(delFS, respuesta)
  /\ UNCHANGED << conexiones, valor, tablas, ultimo, vistos >>

(* One that was not takes the first word for a greeting, does not know it  *)
(* and closes with the rest unread: recv fails and the kernel exits.       *)
FSCorta ==
  /\ alFS # << >>
  /\ Caer
  /\ UNCHANGED << hilo, flujos, cpu, deMemoria, peticiones >>

(* What the kernel sends to Memoria, or waits for, when it has gone.       *)
PerderMemoriaElKernel ==
  /\ memoria = "caida"
  /\ Caer
  /\ UNCHANGED << hilo, flujos, cpu, deMemoria, peticiones >>

manejadorCPU(c) ==
  \/ enviarPCB(c) \/ EnviarACPUPerdida(c)
  \/ RecibirFueraDePaso(c) \/ RecibirDeCPUPerdida(c)
  \/ signalSemaforo(c) \/ VuelvePCB(c)
  \/ obtenerValorVariableCompartida(c) \/ VariableInexistente(c)
  \/ asignarValorVariableCompartida(c) \/ ContestarAsignacion(c)
  \/ abrirArchivo(c) \/ validarArchivo(c) \/ crearArchivo(c)
  \/ cerrarArchivo(c) \/ borrarArchivo(c) \/ escribirArchivo(c)
  \/ leerArchivo(c) \/ moverCursor(c)

(* The CPUs and the kernel stop with the kernel, Memoria sees it go.       *)
Next ==
  \/ BucleMemoria /\ UNCHANGED peticiones
  \/ /\ kernel # "caido"
     /\ \/ (Conectarse \/ PrincipalKernel) /\ UNCHANGED peticiones
        \/ \E c \in CPUs : CicloCPU(c) \/ manejadorCPU(c)
        \/ contestarFS \/ FSCorta \/ PerderMemoriaElKernel

Spec == InitPeticiones /\ [][Next]_vars

-----------------------------------------------------------------------------
(* Properties.                                                             *)

Modos == {"afuera", "saludando", "conectado", "rechazado", "saludandoMemoria", "libre",
          "ejecutando", "pidiendoLinea", "conLinea", "esperaPaquete",
          "esperaNotificacion", "repite", "destiempo", "muerta"}

Pasos == {"ninguno", "buscando", "escuchando", "perdido", "asignando", "validando",
          "creando"}

Cuerpos == [clave : Nombres \cup {""}, valor : Valores, nro : 0 .. MaxMensajes]
Trozos == [largo : Nat, entero : Int, cuerpo : Cuerpos]

EstadosCPU == [modo : Modos, abortado : BOOLEAN, clave : Nombres \cup {""},
               op : Operaciones \cup {""}, nro : 0 .. MaxMensajes]
EstadosHilo == {h \in [paso : Pasos, clave : Nombres \cup Rutas \cup {""}, valor : Valores] :
                  h.paso = "asignando" => h.clave \in SHARED_VARS}

(* The sets of sockets, the streams, the processes and what they share.    *)
SocketsOK ==
  /\ kernel \in {"inicia", "saludando", "sirviendo", "caido"}
  /\ memoria \in {"viva", "caida"}
  /\ porAceptar \cup socketsCliente \subseteq Clientes
  /\ porAceptarMemoria \cup aceptarConexiones \subseteq CPUs \cup {KERNEL}
  /\ cerrados \cup pasada \subseteq aceptarConexiones

FlujosOK == aKernel \in [Clientes -> Seq(Trozos)] /\ aCPU \in [Clientes -> Seq(Trozos)]

CompartidoOK ==
  /\ valor \in [SHARED_VARS -> Valores]
  /\ alFS \in Seq({VALIDAR_ARCHIVO, CREAR_ARCHIVO}) /\ delFS \in Seq(Nat)
  /\ ultimo \in [CPUs -> 0 .. MaxMensajes]
  /\ vistos \in [CPUs -> SUBSET Valores]

TypeOK ==
  /\ SocketsOK
  /\ FlujosOK
  /\ cpu \in [Clientes -> EstadosCPU]
  /\ hilo \in [Clientes -> EstadosHilo]
  /\ CompartidoOK

(* While it lives, Memoria keeps the socket of each client that lives.     *)
(* What makes select fail is the one of a CPU that left.                   *)
LosVivosSiguenConectados ==
  /\ memoria = "viva" =>
       \A c \in CPUs : cpu[c].modo \notin {"afuera", "saludando", "muerta"} =>
         c \in porAceptarMemoria \cup (aceptarConexiones \ cerrados)
  /\ memoria = "caida" => kernel = "caido" \/ \E c \in CPUs : cpu[c].modo = "muerta"

(* As long as the kernel lives nobody has a file open: each way to open    *)
(* one leads to writing through NULL.                                      *)
TablasVacias == kernel # "caido" => tablaAdminGlobal = << >> /\ tablaAdminArchivos = << >>

(* The answer to a failed open is one word, and the CPU waits for two: it  *)
(* has nothing more to read, whatever the other threads do.  Of what a CPU *)
(* that closed a turn twice reads, this and the properties below but       *)
(* EnOrden say nothing: it is left out.                                    *)
AbrirNoVuelve ==
  \A c \in CPUs : cpu[c].op = "abrir" => ~HayPaquete(aCPU[c])

(* The thread of a CPU attends the packets of its CPU in their order and   *)
(* without leaving any out, once it is in step; the first one is lost.     *)
(* That holds of a CPU that closes a turn twice too.                       *)
EnOrden ==
  [][\A c \in CPUs :
       ultimo'[c] # ultimo[c] =>
         IF ultimo[c] = 0 THEN ultimo'[c] >= 2 ELSE ultimo'[c] = ultimo[c] + 1]_vars

(* No operation on a file ends well: the program that goes on after one,   *)
(* goes on aborted.                                                        *)
ArchivosNuncaSirven ==
  [][\A c \in CPUs :
       cpu[c].op \in OperacionesDeArchivo /\ cpu'[c].modo = "ejecutando" =>
         cpu'[c].abortado]_vars

(* The value a program gets is one the variable had after it asked, or, if *)
(* it asked to change it, one it had from its own change on, whatever the  *)
(* threads of the other CPUs wrote between the change and the answer.      *)
ValorVigente ==
  [][\A c \in CPUs :
       cpu[c].op \in OperacionesDeVariable /\ cpu'[c].modo = "ejecutando" =>
         recvRemasterizado(aCPU[c]).mensaje.valor \in vistos[c]]_vars
=============================================================================

----------------------------- MODULE Conexiones -----------------------------
(***************************************************************************)
(* How the CPUs, the consoles and the kernel get to know each other, word  *)
(* by word.  TCP keeps no boundaries between messages: a packet is a type, *)
(* a length and that many bytes, a notification is one word, and whoever   *)
(* reads has to read what the other side wrote.  A CPU greets the kernel   *)
(* with a packet, type and length; main reads a notification, the type.    *)
(* The length stays in the stream, and the thread that main creates starts *)
(* to read there.                                                          *)
(*                                                                         *)
(* Memoria attends everyone from one loop over select; its clients greet   *)
(* with packets, which its loop reads as packets.                          *)
(*                                                                         *)
(* Module PeticionesKernel adds what follows the greetings.                *)
(***************************************************************************)
EXTENDS Integers, FiniteSets, SequencesExt

CONSTANTS
  CPUs,
  Consolas,  \* clients that may greet the kernel as consoles
  Ajenos,    \* clients that may greet it with a word it does not know
  KERNEL     \* the kernel, as a client of Memoria

Clientes == CPUs \cup Consolas \cup Ajenos

ASSUME ClientesAssumption ==
  /\ CPUs \cap (Consolas \cup Ajenos) = {}
  /\ KERNEL \notin Clientes

CPU == 1003
CONSOLA == 1005
DESCONOCIDO == 1
HANDSHAKE_CPU == 1013
DATOS_CONFIG_KERNEL == 1013

VARIABLES
  kernel,            \* "inicia", "saludando", "sirviendo" or "caido"
  porAceptar,        \* connections waiting on the listening sockets of the kernel
  socketsCliente,    \* sockets main looks at with select
  hilo,              \* the thread of each client
  aKernel, aCPU,     \* the words in flight between the kernel and each client
  cpu,               \* the CPU processes
  memoria,           \* "viva" or "caida"
  porAceptarMemoria,
  aceptarConexiones, \* sockets the loop of Memoria looks at
  cerrados,          \* those of them it has closed
  pasada             \* those select found readable, not attended yet

deKernel == << kernel, porAceptar, socketsCliente, hilo >>
deMemoria == << memoria, porAceptarMemoria, aceptarConexiones, cerrados, pasada >>
flujos == << aKernel, aCPU >>
conexiones == << deKernel, flujos, cpu, deMemoria >>

-----------------------------------------------------------------------------
(* Streams: whole numbers of four bytes and the bodies of packets.         *)

Vacio == [clave |-> "", valor |-> 0, nro |-> 0]
Entero(n) == [largo |-> 4, entero |-> n, cuerpo |-> Vacio]
Bulto(tam, cuerpo) == [largo |-> tam, entero |-> 0, cuerpo |-> cuerpo]

sendRemasterizado(flujo, tipo, tam, que) ==
  flujo \o <<Entero(tipo), Entero(tam)>> \o (IF tam = 0 THEN << >> ELSE <<Bulto(tam, que)>>)

sendDeNotificacion(flujo, notificacion) == Append(flujo, Entero(notificacion))

(* The bytes of the first k pieces, for each k.                            *)
LargoHasta(flujo) ==
  LET largo[k \in 0 .. Len(flujo)] ==
        IF k = 0 THEN 0 ELSE largo[k - 1] + flujo[k].largo
  IN largo

(* recv of tam bytes returns those that have arrived, tam at most: how     *)
(* many pieces of the stream that is.                                      *)
Recibidos(flujo, tam) ==
  Cardinality({k \in DOMAIN flujo : LargoHasta(flujo)[k] <= tam})

(* A reader of packets waits for two words, and for something after them   *)
(* when the second one is not zero.                                        *)
HayPaquete(flujo) ==
  Len(flujo) >= 2 /\ (flujo[2].entero # 0 => Len(flujo) >= 3)

(* The packet and what is left behind.                                     *)
recvRemasterizado(flujo) ==
  LET tam == flujo[2].entero
      despues == SubSeq(flujo, 3, Len(flujo))
      k == Recibidos(despues, tam) IN
  [tipo    |-> flujo[1].entero,
   mensaje |-> IF k = 0 THEN Vacio ELSE despues[1].cuerpo,
   resto   |-> SubSeq(despues, k + 1, Len(despues))]

-----------------------------------------------------------------------------
SinHilo == [paso |-> "ninguno", clave |-> "", valor |-> 0]

Init ==
  /\ kernel = "inicia"
  /\ porAceptar = {} /\ socketsCliente = {}
  /\ hilo = [c \in Clientes |-> SinHilo]
  /\ aKernel = [c \in Clientes |-> << >>] /\ aCPU = [c \in Clientes |-> << >>]
  /\ cpu = [c \in Clientes |->
              [modo |-> "afuera", abortado |-> FALSE, op |-> "", clave |-> "", nro |-> 0]]
  /\ memoria = "viva"
  /\ porAceptarMemoria = {} /\ aceptarConexiones = {} /\ cerrados = {} /\ pasada = {}

Modo(c, modo) == cpu' = [cpu EXCEPT ![c].modo = modo]

Caer ==
  /\ kernel' = "caido"
  /\ UNCHANGED << porAceptar, socketsCliente >>

-----------------------------------------------------------------------------
(* The kernel.                                                             *)

realizarHandshakeMemoria ==
  /\ kernel = "inicia"
  /\ kernel' = "saludando"
  /\ porAceptarMemoria' = porAceptarMemoria \cup {KERNEL}
  /\ UNCHANGED << porAceptar, socketsCliente, hilo, flujos, cpu,
                  memoria, aceptarConexiones, cerrados, pasada >>

(* main, when select shows one of the two listening sockets.               *)
aceptarConexionDeCliente(s) ==
  /\ kernel = "sirviendo"
  /\ s \in porAceptar
  /\ porAceptar' = porAceptar \ {s}
  /\ socketsCliente' = socketsCliente \cup {s}
  /\ UNCHANGED << kernel, hilo, flujos, cpu, deMemoria >>

(* recvDeNotificacion: one word.                                           *)
recvDeNotificacion_Paquete(flujo) ==
  [notificacion |-> Head(flujo).entero,
   resto |-> IF HayPaquete(flujo) THEN SubSeq(flujo, 3, Len(flujo)) ELSE Tail(flujo)]

recvDeNotificacion(flujo) ==
  [notificacion |-> Head(flujo).entero, resto |-> Tail(flujo)]

(* FD_CLR, once the socket has a thread of its own or is closed.           *)
DejarDeMirar(s) == socketsCliente' = socketsCliente \ {s}

TAMANIO_CONFIG == 14  \* the name of the algorithm, quantum, sleep and size of the stack

(* main, when select shows a client: it is a console, a CPU or neither.    *)
AtenderSaludo(s) ==
  LET recibido == recvDeNotificacion(aKernel[s]) IN
  /\ kernel = "sirviendo"
  /\ s \in socketsCliente
  /\ aKernel[s] # << >>
  /\ aKernel' = [aKernel EXCEPT ![s] = recibido.resto]
  /\ DejarDeMirar(s)
  /\ \/ /\ recibido.notificacion = CONSOLA
        /\ hilo' = [hilo EXCEPT ![s].paso = "escuchando"]
        /\ UNCHANGED << aCPU, cpu >>
     \/ /\ recibido.notificacion = CPU
        /\ aCPU' = [aCPU EXCEPT ![s] =
                      sendRemasterizado(@, HANDSHAKE_CPU, TAMANIO_CONFIG, Vacio)]
        /\ hilo' = [hilo EXCEPT ![s].paso = "buscando"]
        /\ UNCHANGED cpu
     \/ /\ recibido.notificacion \notin {CONSOLA, CPU}
        /\ Modo(s, "rechazado")
        /\ UNCHANGED << hilo, aCPU >>
  /\ UNCHANGED << kernel, porAceptar, deMemoria >>

-----------------------------------------------------------------------------
(* The clients.                                                            *)

(* A CPU connects to both servers before it greets the kernel.             *)
ConectarCPU(c) ==
  /\ c \in CPUs /\ cpu[c].modo = "afuera"
  /\ Modo(c, "saludando")
  /\ porAceptar' = porAceptar \cup {c}
  /\ porAceptarMemoria' = porAceptarMemoria \cup {c}
  /\ aKernel' = [aKernel EXCEPT ![c] = sendRemasterizado(@, CPU, 0, Vacio)]
  /\ UNCHANGED << kernel, socketsCliente, hilo, aCPU, memoria, aceptarConexiones,
                  cerrados, pasada >>

ConectarOtro(s, saludo) ==
  /\ cpu[s].modo = "afuera"
  /\ Modo(s, "conectado")
  /\ porAceptar' = porAceptar \cup {s}
  /\ aKernel' = [aKernel EXCEPT ![s] = sendDeNotificacion(@, saludo)]
  /\ UNCHANGED << kernel, socketsCliente, hilo, aCPU, deMemoria >>

(* realizarHandshakeConKernel, from its recv on, and the greeting of       *)
(* realizarHandshakeConMemoria.                                            *)
RecibirConfiguracion(c) ==
  /\ cpu[c].modo = "saludando"
  /\ HayPaquete(aCPU[c])
  /\ LET recibido == recvRemasterizado(aCPU[c]) IN
     /\ aCPU' = [aCPU EXCEPT ![c] = recibido.resto]
     /\ Modo(c, IF recibido.tipo = DATOS_CONFIG_KERNEL THEN "saludandoMemoria" ELSE "muerta")
  /\ UNCHANGED << deKernel, aKernel, deMemoria >>

(* What a CPU sends to Memoria, or reads from it, finds nobody there.      *)
PerderMemoria(c) ==
  /\ memoria = "caida"
  /\ cpu[c].modo \in {"saludandoMemoria", "pidiendoLinea"}
  /\ Modo(c, "muerta")
  /\ UNCHANGED << deKernel, flujos, deMemoria >>

-----------------------------------------------------------------------------
(* The loop of Memoria.                                                    *)

Legible(s) ==
  \/ s = KERNEL /\ kernel \in {"saludando", "caido"}
  \/ s \in CPUs /\ cpu[s].modo \in {"saludandoMemoria", "pidiendoLinea", "muerta"}

(* select fails when the set has a closed socket.  The listening socket    *)
(* has the lowest number: a new client is accepted before the rest of the  *)
(* readable sockets are attended.                                          *)
seleccionar ==
  /\ memoria = "viva" /\ pasada = {}
  /\ \/ /\ cerrados # {}
        /\ memoria' = "caida"
        /\ UNCHANGED << porAceptarMemoria, aceptarConexiones, pasada >>
     \/ /\ cerrados = {}
        /\ \E nuevos \in SUBSET porAceptarMemoria :
             /\ Cardinality(nuevos) = IF porAceptarMemoria = {} THEN 0 ELSE 1
             /\ pasada' = {s \in aceptarConexiones : Legible(s)}
             /\ nuevos \cup pasada' # {}
             /\ porAceptarMemoria' = porAceptarMemoria \ nuevos
             /\ aceptarConexiones' = aceptarConexiones \cup nuevos
        /\ UNCHANGED memoria
  /\ UNCHANGED << deKernel, flujos, cpu, cerrados >>

Corto(s) == IF s = KERNEL THEN kernel = "caido" ELSE cpu[s].modo = "muerta"

(* Greetings and the requests for a line; the other requests of a client   *)
(* are attended the same way.                                              *)
EsDeClienteConocido_SoloKernel(s) == ~Corto(s) /\ (s # KERNEL => cpu[s].modo = "pidiendoLinea")

EsDeClienteConocido(s) == ~Corto(s)

AtenderPaquete(s) ==
  /\ s \in pasada
  /\ EsDeClienteConocido(s)
  /\ pasada' = pasada \ {s}
  /\ \/ /\ s = KERNEL
        /\ kernel' = "sirviendo"
        /\ UNCHANGED cpu
     \/ /\ s # KERNEL
        /\ Modo(s, IF cpu[s].modo = "saludandoMemoria" THEN "libre" ELSE "conLinea")
        /\ UNCHANGED kernel
  /\ UNCHANGED << porAceptar, socketsCliente, hilo, flujos, memoria,
                  porAceptarMemoria, aceptarConexiones, cerrados >>

(* recv returns 0 bytes and the type is what malloc left there: zero, and  *)
(* the socket is closed but stays in the set, or something no case knows,  *)
(* and it is also taken out.  For the kernel, zero ends Memoria.           *)
AtenderCorte(s) ==
  /\ s \in pasada
  /\ ~EsDeClienteConocido(s)
  /\ pasada' = pasada \ {s}
  /\ \/ /\ s = KERNEL
        /\ memoria' = "caida"
        /\ UNCHANGED << cerrados, aceptarConexiones >>
     \/ /\ s # KERNEL
        /\ cerrados' = cerrados \cup {s}
        /\ UNCHANGED << memoria, aceptarConexiones >>
     \/ /\ aceptarConexiones' = aceptarConexiones \ {s}
        /\ UNCHANGED << memoria, cerrados >>
  /\ UNCHANGED << deKernel, flujos, cpu, porAceptarMemoria >>

BucleMemoria ==
  \/ seleccionar
  \/ \E s \in CPUs \cup {KERNEL} : AtenderPaquete(s) \/ AtenderCorte(s)

Conectarse ==
  \/ \E c \in CPUs : ConectarCPU(c) \/ RecibirConfiguracion(c) \/ PerderMemoria(c)
  \/ \E s \in Consolas : ConectarOtro(s, CONSOLA)
  \/ \E s \in Ajenos : ConectarOtro(s, DESCONOCIDO)

PrincipalKernel ==
  \/ realizarHandshakeMemoria
  \/ \E s \in Clientes : aceptarConexionDeCliente(s) \/ AtenderSaludo(s)
=============================================================================

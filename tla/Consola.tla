------------------------------ MODULE Consola -------------------------------
(***************************************************************************)
(* The console (consola.c): the thread of the interface, the one of        *)
(* manejadorPaquetes and one for each program, that all receive from the   *)
(* socket of the kernel.  What a thread receives and is not for it goes to *)
(* listaHilosCorrectos, and a packet of a type nobody knows never leaves   *)
(* it.  The kernel answers each request once; it never sends               *)
(* IMPRIMIR_INFO.                                                          *)
(***************************************************************************)
EXTENDS Integers, FiniteSets, SequencesExt

CONSTANTS
  Pids,          \* 1 .. the number of programs the user starts (a bound)
  MaxRechazos    \* ends the kernel refuses (a bound): their packets stay for ever

ASSUME PidsAssumption == IsFiniteSet(Pids) /\ Pids = 1 .. Cardinality(Pids)

INTERFAZ == 0
Hilos == {INTERFAZ} \cup Pids
LIBRE == -1       \* of a mutex
PAQUETES == -2    \* the thread of manejadorPaquetes, as owner of a mutex

VARIABLES
  hilo,                 \* interface and programs: where they are
  programaIniciado,     \* of the interface
  paquetes,             \* manejadorPaquetes: where it is in the list
  mutexProcesos,
  mutexHilosCorrectos,
  listaProcesos,        \* pids
  listaHilosCorrectos,  \* packets somebody received for somebody else
  pedidos,              \* requests on their way to the kernel
  aConsola,             \* answers on their way to the console
  pidActual,            \* the kernel's next pid
  otorgados,            \* pids the kernel has given to this console
  consola               \* "viva", "caida" or "desfasada"

listas == << listaProcesos, listaHilosCorrectos >>
nucleo == << pidActual, otorgados >>
vars == << hilo, programaIniciado, paquetes, mutexProcesos, mutexHilosCorrectos,
           listas, pedidos, aConsola, nucleo, consola >>

Nadie == [tipo |-> "nada", pid |-> 0]
Tipos == {"MENSAJE_PID", "ESPACIO_INSUFICIENTE", "FINALIZAR_PROGRAMA",
          "FINALIZO_INCORRECTAMENTE"}
Paquetes == [tipo : Tipos, pid : Pids \cup {0}]

Init ==
  /\ hilo = [h \in Hilos |->
               [paso |-> IF h = INTERFAZ THEN "menu" ELSE "sin crear",
                pid |-> 0, todos |-> FALSE, mano |-> Nadie]]
  /\ programaIniciado = FALSE
  /\ paquetes = [paso |-> "mirando", i |-> 1, tamanio |-> 0]
  /\ mutexProcesos = LIBRE /\ mutexHilosCorrectos = LIBRE
  /\ listaProcesos = << >> /\ listaHilosCorrectos = << >>
  /\ pedidos = << >> /\ aConsola = << >>
  /\ pidActual = 1 /\ otorgados = {}
  /\ consola = "viva"

Caer ==
  /\ consola' = "caida"
  /\ UNCHANGED << hilo, programaIniciado, paquetes, mutexProcesos,
                  mutexHilosCorrectos, listas, pedidos, aConsola, nucleo >>

-----------------------------------------------------------------------------
(* The kernel (external to the console): a program admitted or refused, a  *)
(* process finished.                                                       *)
Responder(tipo, pid) ==
  /\ pedidos' = Tail(pedidos)
  /\ aConsola' = Append(aConsola, [tipo |-> tipo, pid |-> pid])
  /\ UNCHANGED << hilo, programaIniciado, paquetes, mutexProcesos,
                  mutexHilosCorrectos, listas, consola >>

nuevoAListo_SinSacar ==
  /\ pedidos # << >> /\ Head(pedidos).tipo = "MENSAJE_CODIGO"
  /\ pidActual \in Pids
  /\ pidActual' = pidActual + 1
  /\ otorgados' = otorgados \cup {pidActual}
  /\ aConsola' = Append(aConsola, [tipo |-> "MENSAJE_PID", pid |-> pidActual])
  /\ UNCHANGED << pedidos, hilo, programaIniciado, paquetes, mutexProcesos,
                  mutexHilosCorrectos, listas, consola >>

nuevoAListo ==
  /\ pedidos # << >> /\ Head(pedidos).tipo = "MENSAJE_CODIGO"
  /\ pidActual' = pidActual + 1
  /\ \/ /\ otorgados' = otorgados \cup {pidActual}
        /\ Responder("MENSAJE_PID", pidActual)
     \/ /\ Responder("ESPACIO_INSUFICIENTE", 0)
        /\ UNCHANGED otorgados

(* finalizarProceso frees PCBs that stay in colaProcesos: it may not find  *)
(* one by its pid again.  The refusal has a type that only the kernel      *)
(* knows (102, that of the console is 686) and names no pid: the one kept  *)
(* here is read by the properties alone.                                   *)
finalizarProcesoEnviadoDeConsola ==
  /\ pedidos # << >> /\ Head(pedidos).tipo = "FINALIZAR_PROGRAMA"
  /\ \/ Responder("FINALIZAR_PROGRAMA", Head(pedidos).pid)
     \/ /\ Len(listaHilosCorrectos) < MaxRechazos
        /\ Responder("FINALIZO_INCORRECTAMENTE", Head(pedidos).pid)
  /\ UNCHANGED nucleo

-----------------------------------------------------------------------------
Paso(h, paso) == hilo' = [hilo EXCEPT ![h].paso = paso]

Pedir(tipo, pid) == pedidos' = Append(pedidos, [tipo |-> tipo, pid |-> pid])

(* The commands of the interface, up to the first thing they wait for.     *)
prepararPrograma_SinEsperar ==
  /\ hilo[INTERFAZ].paso = "menu"
  /\ pidActual + Len(pedidos) \in Pids
  /\ Pedir("MENSAJE_CODIGO", 0)
  /\ programaIniciado' = (listaProcesos # << >>)
  /\ UNCHANGED << hilo, paquetes, mutexProcesos, mutexHilosCorrectos, listas,
                  aConsola, nucleo, consola >>

prepararPrograma ==
  /\ hilo[INTERFAZ].paso = "menu"
  /\ pidActual \in Pids
  /\ Pedir("MENSAJE_CODIGO", 0)
  /\ Paso(INTERFAZ, "esperaPID")
  /\ UNCHANGED << programaIniciado, paquetes, mutexProcesos, mutexHilosCorrectos,
                  listas, aConsola, nucleo, consola >>

(* "Finalizar Programa" of one pid and "Desconectar Consola", of them all. *)
pedirFin(p, todos) ==
  /\ hilo[INTERFAZ].paso = "menu"
  /\ programaIniciado
  /\ hilo' = [hilo EXCEPT ![INTERFAZ].paso = "quiereFinalizar", ![INTERFAZ].pid = p,
                          ![INTERFAZ].todos = todos]
  /\ UNCHANGED << programaIniciado, paquetes, mutexProcesos, mutexHilosCorrectos,
                  listas, pedidos, aConsola, nucleo, consola >>

(* Which program a thread that wants to finish one goes for.               *)
Elegido(h) ==
  IF hilo[h].todos /\ listaProcesos # << >> THEN Head(listaProcesos) ELSE hilo[h].pid

(* With mutexProcesos taken: nothing is asked of the kernel for a program  *)
(* that is not listed; the thread of a program that has already been told  *)
(* of its end takes it out of the list and ends.                           *)
finalizarPrograma(h) ==
  /\ hilo[h].paso \in {"quiereFinalizar", "quiereSalir"}
  /\ mutexProcesos \in {LIBRE, h}
  /\ IF hilo[h].paso = "quiereFinalizar" /\ Contains(listaProcesos, Elegido(h))
     THEN /\ hilo' = [hilo EXCEPT ![h].paso = "esperaFin", ![h].pid = Elegido(h)]
          /\ Pedir("FINALIZAR_PROGRAMA", Elegido(h))
          /\ mutexProcesos' = h
          /\ UNCHANGED << programaIniciado, listaProcesos >>
     ELSE /\ Paso(h, IF h = INTERFAZ THEN "menu" ELSE "terminado")
          /\ mutexProcesos' = LIBRE
          /\ listaProcesos' = IF h = INTERFAZ THEN listaProcesos ELSE RemoveFirst(listaProcesos, h)
          /\ programaIniciado' = IF h = INTERFAZ THEN listaProcesos # << >>
                                                 ELSE programaIniciado
          /\ UNCHANGED pedidos
  /\ UNCHANGED << paquetes, mutexHilosCorrectos, listaHilosCorrectos, aConsola,
                  nucleo, consola >>

-----------------------------------------------------------------------------
(* recvRemasterizado                                                       *)
Esperan == {h \in Hilos : hilo[h].paso \in {"recibiendo", "esperaPID", "esperaFin"}}

(* A packet is received in three calls: with two threads waiting, each may *)
(* get a part of it.  The packet is lost, and from then on nobody knows    *)
(* where one begins: what the console does next is not modelled.           *)
PartirPaquete ==
  /\ aConsola # << >>
  /\ Cardinality(Esperan) > 1
  /\ aConsola' = Tail(aConsola)
  /\ consola' = "desfasada"
  /\ UNCHANGED << hilo, programaIniciado, paquetes, mutexProcesos,
                  mutexHilosCorrectos, listas, pedidos, nucleo >>

Llega(h, paso) == hilo[h].paso = paso /\ aConsola # << >> /\ aConsola' = Tail(aConsola)

EsFin(paquete, p) == paquete.tipo = "FINALIZAR_PROGRAMA" /\ paquete.pid = p

EsPID(paquete) == paquete.tipo = "MENSAJE_PID"

EsRechazo(paquete) == paquete.tipo = "FINALIZO_INCORRECTAMENTE"

(* administrarPrograma: the answer to the end of its own program makes the *)
(* thread want mutexProcesos, to ask for that end itself.                  *)
administrarPrograma(p) ==
  LET paquete == Head(aConsola) IN
  /\ Llega(p, "recibiendo")
  /\ hilo' = IF EsFin(paquete, p)
             THEN [hilo EXCEPT ![p].paso = "quiereFinalizar", ![p].pid = p]
             ELSE [hilo EXCEPT ![p].paso = "deja", ![p].mano = paquete]
  /\ UNCHANGED << programaIniciado, paquetes, mutexProcesos, mutexHilosCorrectos,
                  listas, pedidos, nucleo, consola >>

recibirPID ==
  LET paquete == Head(aConsola) IN
  /\ Llega(INTERFAZ, "esperaPID")
  /\ hilo' = [hilo EXCEPT
       ![INTERFAZ].paso = IF EsPID(paquete) THEN "crea"
                          ELSE IF paquete.tipo = "ESPACIO_INSUFICIENTE" THEN "menu"
                          ELSE "deja",
       ![INTERFAZ].mano = paquete]
  /\ programaIniciado' = (listaProcesos # << >>)
  /\ UNCHANGED << paquetes, mutexProcesos, mutexHilosCorrectos, listas, pedidos,
                  nucleo, consola >>

(* finalizarHilo.  crearPrograma sets the field hilo of the program before *)
(* pthread_create gives it a value: what is cancelled is no thread, any    *)
(* thread of a program that waits, or the console dies.                    *)
Cancelables == {q \in Pids : hilo[q].paso = "recibiendo"}

(* finalizarPrograma, from the answer on.                                  *)
RecibirFin(h) ==
  LET paquete == Head(aConsola)
      p == hilo[h].pid
      sigue == IF hilo[h].todos /\ Len(listaProcesos) > 1 THEN "quiereFinalizar"
               ELSE IF h = INTERFAZ THEN "menu" ELSE "terminado" IN
  /\ Llega(h, "esperaFin")
  /\ IF EsFin(paquete, p)
     THEN /\ listaProcesos' = RemoveFirst(listaProcesos, p)
          /\ mutexProcesos' = IF sigue = "quiereFinalizar" THEN h ELSE LIBRE
          /\ programaIniciado' = IF h = INTERFAZ THEN listaProcesos' # << >>
                                                 ELSE programaIniciado
          /\ \/ Paso(h, sigue) /\ UNCHANGED consola
             \/ \E q \in Cancelables :
                  /\ hilo' = [hilo EXCEPT ![h].paso = sigue, ![q].paso = "terminado"]
                  /\ UNCHANGED consola
             \/ consola' = "caida" /\ UNCHANGED hilo
     ELSE /\ hilo' = [hilo EXCEPT ![h].paso = "deja", ![h].mano = paquete]
          /\ UNCHANGED << listaProcesos, mutexProcesos, programaIniciado, consola >>
  /\ UNCHANGED << paquetes, mutexHilosCorrectos, listaHilosCorrectos, pedidos, nucleo >>

-----------------------------------------------------------------------------
(* aniadirPaqueteALaLista; the interface may do it with mutexProcesos.     *)
aniadirPaqueteALaLista(h) ==
  /\ hilo[h].paso = "deja"
  /\ mutexHilosCorrectos = LIBRE
  /\ listaHilosCorrectos' = Append(listaHilosCorrectos, hilo[h].mano)
  /\ Paso(h, IF hilo[h].todos /\ mutexProcesos = h THEN "quiereFinalizar"
             ELSE IF h = INTERFAZ THEN "menu"
             ELSE IF mutexProcesos = h THEN "terminado" ELSE "mirando")
  /\ mutexProcesos' = IF mutexProcesos = h /\ ~hilo[h].todos THEN LIBRE ELSE mutexProcesos
  /\ UNCHANGED << programaIniciado, paquetes, mutexHilosCorrectos, listaProcesos,
                  pedidos, aConsola, nucleo, consola >>

(* crearPrograma, by the interface.                                        *)
crearPrograma ==
  LET p == hilo[INTERFAZ].mano.pid IN
  /\ hilo[INTERFAZ].paso = "crea"
  /\ mutexProcesos = LIBRE
  /\ listaProcesos' = Append(listaProcesos, p)
  /\ hilo' = [hilo EXCEPT ![INTERFAZ].paso = "menu", ![p].paso = "mirando"]
  /\ programaIniciado' = TRUE
  /\ UNCHANGED << paquetes, mutexProcesos, mutexHilosCorrectos, listaHilosCorrectos,
                  pedidos, aConsola, nucleo, consola >>

(* manejarHiloCorrespondiente: looks whether the list is empty without the *)
(* lock, and at its head with it.                                          *)
MirarLista(p) ==
  /\ hilo[p].paso = "mirando"
  /\ Paso(p, IF listaHilosCorrectos = << >> THEN "recibiendo" ELSE "vioLista")
  /\ UNCHANGED << programaIniciado, paquetes, mutexProcesos, mutexHilosCorrectos,
                  listas, pedidos, aConsola, nucleo, consola >>

TomarCabeza_SacaSiempre(p) ==
  /\ hilo[p].paso = "vioLista"
  /\ mutexHilosCorrectos = LIBRE
  /\ listaHilosCorrectos # << >>
  /\ listaHilosCorrectos' = Tail(listaHilosCorrectos)
  /\ Paso(p, IF EsFin(Head(listaHilosCorrectos), p) THEN "quiereSalir" ELSE "mirando")
  /\ UNCHANGED << programaIniciado, paquetes, mutexProcesos,
                  mutexHilosCorrectos, listaProcesos, pedidos, aConsola,
                  nucleo, consola >>

TomarCabeza(p) ==
  /\ hilo[p].paso = "vioLista"
  /\ mutexHilosCorrectos = LIBRE
  /\ \/ listaHilosCorrectos = << >> /\ Caer
     \/ /\ listaHilosCorrectos # << >>
        /\ IF EsFin(Head(listaHilosCorrectos), p)
           THEN /\ listaHilosCorrectos' = Tail(listaHilosCorrectos)
                /\ Paso(p, "quiereSalir")
           ELSE Paso(p, "mirando") /\ UNCHANGED listaHilosCorrectos
        /\ UNCHANGED << programaIniciado, paquetes, mutexProcesos,
                        mutexHilosCorrectos, listaProcesos, pedidos, aConsola,
                        nucleo, consola >>

-----------------------------------------------------------------------------
(* manejadorPaquetes: goes through as many packets as there were when it   *)
(* looked.                                                                 *)
MirarPaquetes ==
  /\ paquetes.paso = "mirando"
  /\ listaHilosCorrectos # << >>
  /\ mutexHilosCorrectos = LIBRE
  /\ paquetes' = [paso |-> "recorriendo", i |-> 1, tamanio |-> Len(listaHilosCorrectos)]
  /\ UNCHANGED << hilo, programaIniciado, mutexProcesos, mutexHilosCorrectos,
                  listas, pedidos, aConsola, nucleo, consola >>

SacarPaquete_Deja(i) == UNCHANGED listaHilosCorrectos

SacarPaquete(i) == listaHilosCorrectos' = RemoveAt(listaHilosCorrectos, i)

RecorrerPaquetes ==
  LET i == paquetes.i IN
  /\ paquetes.paso = "recorriendo"
  /\ mutexHilosCorrectos = LIBRE
  /\ \/ /\ i > paquetes.tamanio
        /\ paquetes' = [paquetes EXCEPT !.paso = "mirando"]
        /\ UNCHANGED << mutexHilosCorrectos, listaHilosCorrectos, consola >>
     \/ /\ i <= paquetes.tamanio
        /\ i > Len(listaHilosCorrectos)
        /\ consola' = "caida"
        /\ UNCHANGED << paquetes, mutexHilosCorrectos, listaHilosCorrectos >>
     \/ /\ i <= paquetes.tamanio
        /\ i <= Len(listaHilosCorrectos)
        /\ \/ /\ EsPID(listaHilosCorrectos[i])
              /\ mutexHilosCorrectos' = PAQUETES
              /\ paquetes' = [paquetes EXCEPT !.paso = "creando"]
              /\ UNCHANGED listaHilosCorrectos
           \/ /\ listaHilosCorrectos[i].tipo = "ESPACIO_INSUFICIENTE"
              /\ SacarPaquete(i)
              /\ paquetes' = [paquetes EXCEPT !.tamanio = Len(listaHilosCorrectos')]
              /\ UNCHANGED mutexHilosCorrectos
           \/ /\ listaHilosCorrectos[i].tipo
                   \in {"FINALIZAR_PROGRAMA", "FINALIZO_INCORRECTAMENTE"}
              /\ paquetes' = [paquetes EXCEPT !.i = i + 1]
              /\ UNCHANGED << mutexHilosCorrectos, listaHilosCorrectos >>
        /\ UNCHANGED consola
  /\ UNCHANGED << hilo, programaIniciado, mutexProcesos, listaProcesos, pedidos,
                  aConsola, nucleo >>

(* crearPrograma again, with mutexHilosCorrectos held.                     *)
CrearDePaquete ==
  LET p == listaHilosCorrectos[paquetes.i].pid IN
  /\ paquetes.paso = "creando"
  /\ mutexProcesos = LIBRE
  /\ listaProcesos' = Append(listaProcesos, p)
  /\ Paso(p, "mirando")
  /\ SacarPaquete(paquetes.i)
  /\ paquetes' = [paquetes EXCEPT !.paso = "recorriendo", !.tamanio = Len(listaHilosCorrectos')]
  /\ mutexHilosCorrectos' = LIBRE
  /\ UNCHANGED << programaIniciado, mutexProcesos, pedidos, aConsola, nucleo, consola >>

-----------------------------------------------------------------------------
manejadorInterfaz ==
  \/ prepararPrograma
  \/ \E p \in Pids : pedirFin(p, FALSE)
  \/ pedirFin(0, TRUE)

EnMarcha(h) ==
  \/ finalizarPrograma(h)
  \/ RecibirFin(h)
  \/ aniadirPaqueteALaLista(h)
  \/ h = INTERFAZ /\ (recibirPID \/ crearPrograma)
  \/ h # INTERFAZ /\ (administrarPrograma(h) \/ MirarLista(h) \/ TomarCabeza(h))

manejadorPaquetes == MirarPaquetes \/ RecorrerPaquetes \/ CrearDePaquete

kernel == nuevoAListo \/ finalizarProcesoEnviadoDeConsola

Next ==
  /\ consola = "viva"
  /\ \/ manejadorInterfaz
     \/ \E h \in Hilos : EnMarcha(h)
     \/ manejadorPaquetes
     \/ PartirPaquete
     \/ kernel

Spec == Init /\ [][Next]_vars

-----------------------------------------------------------------------------
(* Properties.                                                             *)

Pasos == {"menu", "sin crear", "mirando", "vioLista", "recibiendo", "esperaPID", "esperaFin",
          "crea", "deja", "quiereFinalizar", "quiereSalir", "terminado"}

Pedidos == [tipo : {"MENSAJE_CODIGO", "FINALIZAR_PROGRAMA"}, pid : Pids \cup {0}]

EstadosHilo == [paso : Pasos, pid : Pids \cup {0}, todos : BOOLEAN, mano : Paquetes \cup {Nadie}]

TypeOK ==
  /\ hilo \in [Hilos -> EstadosHilo]
  /\ hilo[INTERFAZ].paso \in {"menu", "esperaPID", "esperaFin", "crea", "deja", "quiereFinalizar"}
  /\ programaIniciado \in BOOLEAN
  /\ paquetes \in [paso : {"mirando", "recorriendo", "creando"}, i : Nat, tamanio : Nat]
  /\ mutexProcesos \in Hilos \cup {LIBRE}
  /\ mutexHilosCorrectos \in {LIBRE, PAQUETES}
  /\ listaProcesos \in Seq(Pids) /\ listaHilosCorrectos \in Seq(Paquetes)
  /\ pedidos \in Seq(Pedidos)
  /\ aConsola \in Seq(Paquetes)
  /\ pidActual \in Nat /\ otorgados \subseteq Pids
  /\ consola \in {"viva", "caida", "desfasada"}

(* Although any thread may take what arrives, whatever is on its way to    *)
(* the console is the one answer to the one request the interface waits    *)
(* for, so a thread is never given the answer to an older request.         *)
RespuestaPropia ==
  /\ Len(pedidos) + Len(aConsola) <= 1
  /\ \A i \in DOMAIN aConsola :
       IF EsRechazo(aConsola[i]) \/ aConsola[i].tipo = "FINALIZAR_PROGRAMA"
       THEN hilo[INTERFAZ].paso = "esperaFin" /\ hilo[INTERFAZ].pid = aConsola[i].pid
       ELSE hilo[INTERFAZ].paso = "esperaPID"

(* crearPrograma takes mutexProcesos with mutexHilosCorrectos held, and    *)
(* finalizarPrograma the other way round: when the first one waits, nobody *)
(* holds what it waits for, so the two never wait for each other.          *)
NoSeAbrazan == paquetes.paso = "creando" => mutexProcesos = LIBRE

PaquetesDePID(p) ==
  LET es(paquete) == EsPID(paquete) /\ paquete.pid = p
      en(lista) == Cardinality({i \in DOMAIN lista : es(lista[i])}) IN
  en(aConsola) + en(listaHilosCorrectos)
    + Cardinality({h \in Hilos : hilo[h].paso \in {"crea", "deja"} /\ es(hilo[h].mano)})

(* As long as no packet is split between two threads, a pid the kernel     *)
(* gave has one thread or is in one packet that will make one, whoever     *)
(* received it.  A packet split loses its pid for ever: the program runs   *)
(* in the kernel and the console has no thread for it.                     *)
UnHiloPorPid ==
  consola # "desfasada" =>
    \A p \in otorgados :
      (IF hilo[p].paso = "sin crear" THEN 0 ELSE 1) + PaquetesDePID(p) = 1

EsRespuesta(paquete, p) == EsFin(paquete, p) \/ (EsRechazo(paquete) /\ paquete.pid = p)

FinTomado(p) ==
  \/ hilo[p].paso \in {"quiereFinalizar", "quiereSalir"}
  \/ \E h \in Pids : hilo[h].paso = "deja" /\ EsRespuesta(hilo[h].mano, p)
  \/ \E i \in DOMAIN listaHilosCorrectos : EsRespuesta(listaHilosCorrectos[i], p)

(* When the interface waits for the end of a program and nothing is on its *)
(* way, the answer came and another thread took it: it has it still, it    *)
(* left it in the list, or it is the thread of that program, which wants   *)
(* the mutex that the interface holds.  The menu does not come back then,  *)
(* and nothing else keeps it from coming back.  A refusal is an answer     *)
(* too, that the interface itself leaves in the list.                      *)
FinEnOtrasManos ==
  consola = "viva" /\ hilo[INTERFAZ].paso = "esperaFin" /\ pedidos = << >> /\ aConsola = << >> =>
    mutexProcesos = INTERFAZ /\ FinTomado(hilo[INTERFAZ].pid)
=============================================================================

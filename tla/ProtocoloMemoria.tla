--------------------------- MODULE ProtocoloMemoria ---------------------------
(***************************************************************************)
(* The kernel as a client of Memoria (kernel.c): the thread of the         *)
(* long-term scheduler and the threads of the CPUs share socketMemoria.    *)
(* A thread sends its request and later takes the first word that comes    *)
(* back, whoever asked for it; the answers to ESCRIBIR_DATOS and           *)
(* FINALIZAR_PROCESO are taken by nobody.  The heap of the processes       *)
(* (alocarMemoria, liberarDatosDeProceso) is what the CPU threads ask for, *)
(* and the CPU is modelled by what it reads of each answer.                *)
(*                                                                         *)
(* The order of queues and turns is in Planificador: here a thread takes   *)
(* a process in one step, the operators may stop and resume the planning   *)
(* at any time, and there are no semaphores.  What matters is that the     *)
(* same process may be in two CPUs: an old PCB is sent again when the      *)
(* planning is stopped, and a turn may end with two messages.  Memoria     *)
(* serves one request after another and grants or refuses pages            *)
(* (TablaInvertida says when); a search that does not come back ends the   *)
(* model.  Two threads that use the lists of the same page do it one after *)
(* the other.                                                              *)
(***************************************************************************)
EXTENDS Integers, FiniteSets, SequencesExt

CONSTANTS
  Pids,            \* 1 .. the number of programs (a bound)
  CPUs,
  GRADO_MULTIPROG,
  PaginasDeCodigo, \* pages of code of a program
  TAM_PAGINA,      \* tamanioPagina
  ANCHO,           \* 2^32: a t_puntero and the size of a block are modulo ANCHO
  Tamanios,        \* what the programs reserve
  MaxPedidos,      \* pid -> bound on its heap requests
  MaxDeMas         \* bound on the PCBs sent beside the one of each turn

SizeofHeapMetadata == 5   \* a packed uint32_t and a bool

ASSUME TamaniosAssumption ==
  /\ TAM_PAGINA \in Nat /\ TAM_PAGINA > 2 * SizeofHeapMetadata
  /\ ANCHO \in Nat /\ ANCHO % TAM_PAGINA = 0 /\ ANCHO > 2 * TAM_PAGINA
  /\ Tamanios \subseteq Nat /\ MaxPedidos \in [Pids -> Nat] /\ PaginasDeCodigo \in Nat /\ GRADO_MULTIPROG \in Nat
  /\ MaxDeMas \in Nat

ASSUME PidsAssumption == IsFiniteSet(Pids) /\ Pids = 1 .. Cardinality(Pids)

VARIABLES
  pidActual,
  colaNuevo, colaListo, \* pids
  planificador,   \* planificarSistema: [paso, pid]
  hilo,           \* CPU -> its manejadorCPU: [paso, proceso, pid, tamanio, numero]
  paginas,        \* pid -> tablaHeap->pagina
  alMemoria,      \* requests in socketMemoria
  deMemoria,      \* answers in socketMemoria, true for OPERACION_EXITOSA
  asignadas,      \* pid -> pages Memoria has given it, those of the stack left out
  cpu,            \* CPU -> [modo, pid]
  aKernel,        \* CPU -> messages to its thread
  aCPU,           \* CPU -> words from its thread
  deMas,          \* PCBs sent beside the one of each turn
  pedidos,        \* pid -> heap requests so far
  punteros,       \* pid -> pointers it has been given
  sistema         \* "anda", or who stopped it

procesos == << pidActual, colaNuevo, colaListo >>
memoria == << alMemoria, deMemoria, asignadas >>
programas == << cpu, deMas, pedidos, punteros >>
vars == << procesos, memoria, programas, planificador, hilo, paginas, aKernel,
           aCPU, sistema >>

-----------------------------------------------------------------------------
SinPid == 0

Pedido(tipo, pid, pagina) == [tipo |-> tipo, pid |-> pid, pagina |-> pagina]
Pedir(tipo, pid) == alMemoria' = Append(alMemoria, Pedido(tipo, pid, 0))

Mensaje(tipo, pid, valor) == [tipo |-> tipo, pid |-> pid, valor |-> valor]

(* What a CPU reads is a stream of words.  A packet has a type, a size and *)
(* a content; a notification is a word.                                    *)
Palabra(w, v) == [w |-> w, v |-> v]
Paquete(tipo, contenido) ==
  <<Palabra(tipo, 0), Palabra("tamanio", 0), Palabra("contenido", contenido)>>
sendRemasterizado(c, tipo, contenido) ==
  aCPU' = [aCPU EXCEPT ![c] = @ \o Paquete(tipo, contenido)]
sendDeNotificacion(c, tipo) ==
  aCPU' = [aCPU EXCEPT ![c] = Append(@, Palabra(tipo, 0))]

Ocioso == [paso |-> "mirando", pid |-> SinPid]

(* proceso is procesoParaCPU, never set before the first turn; pid, tamanio *)
(* and numero are those of the request being served.                       *)
Hilo(paso, proceso) ==
  [paso |-> paso, proceso |-> proceso, pid |-> SinPid, tamanio |-> 0, numero |-> 0]
CPULibre == [modo |-> "libre", pid |-> SinPid]

Init ==
  /\ pidActual = 1
  /\ colaNuevo = << >> /\ colaListo = << >>
  /\ planificador = Ocioso
  /\ hilo = [c \in CPUs |-> Hilo("libre", SinPid)]
  /\ paginas = [p \in Pids |-> << >>]
  /\ alMemoria = << >> /\ deMemoria = << >> /\ asignadas = [p \in Pids |-> 0]
  /\ cpu = [c \in CPUs |-> CPULibre]
  /\ aKernel = [c \in CPUs |-> << >>]
  /\ aCPU = [c \in CPUs |-> << >>]
  /\ deMas = 0
  /\ pedidos = [p \in Pids |-> 0]
  /\ punteros = [p \in Pids |-> {}]
  /\ sistema = "anda"

(* A NULL or wild pointer is followed, or a search does not come back.     *)
Parar(quien) ==
  /\ sistema' = quien
  /\ UNCHANGED << procesos, memoria, programas, planificador, hilo, paginas,
                  aKernel, aCPU >>

-----------------------------------------------------------------------------
(* Memoria: the requests of the kernel in the order they come.  A process  *)
(* it refused stays in its list (eliminarPaginaPorProceso takes nobody off *)
(* it), so that pages can be granted to it afterwards.                     *)
Responder_SoloExito(exito) ==
  /\ alMemoria' = Tail(alMemoria)
  /\ deMemoria' = IF exito THEN Append(deMemoria, exito) ELSE deMemoria
  /\ UNCHANGED << procesos, programas, planificador, hilo, paginas, aKernel, aCPU,
                  sistema >>

Responder(exito) ==
  /\ alMemoria' = Tail(alMemoria)
  /\ deMemoria' = Append(deMemoria, exito)
  /\ UNCHANGED << procesos, programas, planificador, hilo, paginas, aKernel, aCPU,
                  sistema >>

Atiende(tipo) == alMemoria # << >> /\ Head(alMemoria).tipo = tipo

MemoriaInicia(exito) ==
  /\ Atiende("INICIAR_PROGRAMA")
  /\ asignadas' = [asignadas EXCEPT ![Head(alMemoria).pid] =
                     IF exito THEN PaginasDeCodigo ELSE 0]
  /\ Responder(exito)

MemoriaAsigna(exito) ==
  /\ Atiende("ASIGNAR_PAGINAS")
  /\ asignadas' = [asignadas EXCEPT ![Head(alMemoria).pid] =
                     IF exito THEN @ + 1 ELSE @]
  /\ Responder(exito)

MemoriaUsaPagina ==
  LET m == Head(alMemoria)
      esta == m.pagina \in 0 .. (asignadas[m.pid] - 1) IN
  /\ Atiende("ESCRIBIR_DATOS") \/ Atiende("LIBERAR_PAGINA")
  /\ asignadas' = [asignadas EXCEPT ![m.pid] =
                     IF esta /\ m.tipo = "LIBERAR_PAGINA" THEN @ - 1 ELSE @]
  /\ Responder(esta)

MemoriaFinaliza ==
  /\ Atiende("FINALIZAR_PROCESO")
  /\ asignadas' = [asignadas EXCEPT ![Head(alMemoria).pid] = 0]
  /\ Responder(TRUE)

MemoriaCuelga ==
  /\ alMemoria # << >>
  /\ Parar("memoria colgada")

Memoria ==
  \/ \E exito \in BOOLEAN : MemoriaInicia(exito) \/ MemoriaAsigna(exito)
  \/ MemoriaUsaPagina
  \/ MemoriaFinaliza

-----------------------------------------------------------------------------
(* recvDeNotificacion(socketMemoria)                                       *)
recvDeMemoria_HastaVaciar == deMemoria # << >> /\ deMemoria' = << >>

recvDeMemoria == deMemoria # << >> /\ deMemoria' = Tail(deMemoria)

Respuesta == Head(deMemoria)

(* Programs and the scheduler.                                             *)
iniciarPCB ==
  /\ pidActual \in Pids
  /\ pidActual' = pidActual + 1
  /\ colaNuevo' = Append(colaNuevo, pidActual)
  /\ UNCHANGED << colaListo, memoria, programas, planificador, hilo, paginas, aKernel,
                  aCPU, sistema >>

SoloPlanificador == << pidActual, programas, hilo, paginas, aKernel, aCPU, sistema,
                       asignadas >>

(* manejarColaNueva, nuevoAListo and the send of mandarInicioAMemoria      *)
MandarInicio ==
  /\ planificador.paso = "mirando"
  /\ colaNuevo # << >>
  /\ Len(colaListo) < GRADO_MULTIPROG
  /\ colaNuevo' = Tail(colaNuevo)
  /\ Pedir("INICIAR_PROGRAMA", Head(colaNuevo))
  /\ planificador' = [paso |-> "esperando", pid |-> Head(colaNuevo)]
  /\ UNCHANGED << SoloPlanificador, colaListo, deMemoria >>

(* enviarCodigoDeProgramaAMemoria *)
EscriturasDeCodigo(p) ==
  [i \in 1 .. PaginasDeCodigo |-> Pedido("ESCRIBIR_DATOS", p, i - 1)]

(* The rest of nuevoAListo: the code is written, or the PCB freed.         *)
RecibirInicio ==
  /\ planificador.paso = "esperando"
  /\ recvDeMemoria
  /\ IF Respuesta
     THEN /\ alMemoria' = alMemoria \o EscriturasDeCodigo(planificador.pid)
          /\ colaListo' = Append(colaListo, planificador.pid)
     ELSE UNCHANGED << alMemoria, colaListo >>
  /\ planificador' = Ocioso
  /\ UNCHANGED << SoloPlanificador, colaNuevo >>

planificarSistema == MandarInicio \/ RecibirInicio

-----------------------------------------------------------------------------
(* The heap of a process.  No block is ever marked as taken, so that field *)
(* is left out.  Offsets are ints and sizes uint32_t.                      *)
Bloque(size, offset) == [size |-> size % ANCHO, offset |-> offset]

TamanioUtil == TAM_PAGINA - 2 * SizeofHeapMetadata

PaginaHeap(numero) ==
  [pagina |-> numero, tamanioDisponible |-> TamanioUtil,
   bloques |-> <<Bloque(TamanioUtil, numero * TAM_PAGINA + SizeofHeapMetadata),
                 Bloque(0, TAM_PAGINA - SizeofHeapMetadata)>>]

(* pedirPaginaHeap numbers the page before it is in the list.              *)
numeroPagina(tabla) == Len(tabla) - 1

ConPagina(tabla, pagina) == Append(tabla, pagina)

(* tamanioDisponible is an int.                                            *)
ConSigno(n) == LET w == n % ANCHO IN IF w >= ANCHO \div 2 THEN w - ANCHO ELSE w

noTienePaginasHeap(tabla, t) ==
  \A i \in DOMAIN tabla : tabla[i].tamanioDisponible < t

obtenerBloqueUtil(pagina, t) == SelectInSeq(pagina.bloques, LAMBDA b : b.size > t)

buscarPaginaHeapConSuficienteTamanio(tabla, t) ==
  SelectInSeq(tabla, LAMBDA pagina : obtenerBloqueUtil(pagina, t) # 0)

BloqueNuevo(b, t) ==
  Bloque(b.size - t - SizeofHeapMetadata, b.offset + t + SizeofHeapMetadata)

ConBloque(pagina, b, t) == [pagina EXCEPT !.bloques = Append(@, BloqueNuevo(b, t))]

Puntero(pagina, b) == (pagina.pagina * TAM_PAGINA + b.offset) % ANCHO

Escritura(p, pagina) == Pedido("ESCRIBIR_DATOS", p, pagina.pagina)

-----------------------------------------------------------------------------
(* manejadorCPU: the requests of a turn.                                   *)
Atendiendo(c, tipo) ==
  /\ hilo[c].paso = "atendiendo"
  /\ aKernel[c] # << >>
  /\ Head(aKernel[c]).tipo = tipo

Esperas == {"esperando", "esperandoLiberacion"}

Recibido(c) == aKernel' = [aKernel EXCEPT ![c] = Tail(@)]

SoloHilo == << pidActual, colaNuevo, planificador, asignadas, cpu, pedidos >>

SoloEnvio == << SoloHilo, paginas, alMemoria, deMemoria, aKernel, punteros, sistema >>

TomarListo(c) ==
  /\ hilo[c].paso = "libre"
  /\ colaListo # << >>
  /\ colaListo' = Tail(colaListo)
  /\ hilo' = [hilo EXCEPT ![c] = Hilo("atendiendo", Head(colaListo))]
  /\ sendRemasterizado(c, "MENSAJE_PCB", Head(colaListo))
  /\ UNCHANGED << SoloEnvio, deMas >>

(* With the planning stopped an idle thread does not wait for a process    *)
(* and sends the PCB of its last turn; before the first one, what a        *)
(* pointer never set leads to.                                             *)
EnviarSinTomar(c) ==
  /\ hilo[c].paso = "libre"
  /\ \/ hilo[c].proceso = SinPid /\ Parar("kernel caido")
     \/ /\ hilo[c].proceso # SinPid
        /\ deMas < MaxDeMas
        /\ deMas' = deMas + 1
        /\ sendRemasterizado(c, "MENSAJE_PCB", hilo[c].proceso)
        /\ UNCHANGED << SoloEnvio, colaListo, hilo >>

SoloHeap == << SoloHilo, colaListo, deMas >>

Atendido(c) == hilo' = [hilo EXCEPT ![c] = Hilo("atendiendo", @.proceso)]

(* The end of alocarMemoria, with a page that was found or granted.  With  *)
(* a size of TamanioUtil a new page has no block for it.                   *)
OcuparBloque(c, p, t, tabla, i, antes) ==
  LET j == obtenerBloqueUtil(tabla[i], t)
      b == tabla[i].bloques[j]
      puntero == Puntero(tabla[i], BloqueNuevo(b, t)) IN
  /\ j # 0
  /\ paginas' = [paginas EXCEPT ![p] = [tabla EXCEPT ![i] = ConBloque(@, b, t)]]
  /\ alMemoria' = alMemoria \o antes \o <<Escritura(p, tabla[i])>>
  /\ sendRemasterizado(c, "OPERACION_EXITOSA", puntero)
  /\ punteros' = [punteros EXCEPT ![p] = @ \cup {puntero}]
  /\ Atendido(c)
  /\ UNCHANGED << SoloHeap, sistema >>

(* heapDeBloque of the new block is whatever malloc left there: to write   *)
(* through it ends the kernel or goes unnoticed.                           *)
OcuparBloqueMal == Parar("kernel caido")

FallaReserva_Calla(c) ==
  /\ Atendido(c)
  /\ UNCHANGED << SoloHeap, paginas, alMemoria, aCPU, punteros, sistema >>

FallaReserva(c) ==
  /\ sendDeNotificacion(c, "OPERACION_CON_CPU_FALLIDA")
  /\ Atendido(c)
  /\ UNCHANGED << SoloHeap, paginas, alMemoria, punteros, sistema >>

(* alocarMemoria up to the request of a page, if it needs one.             *)
alocarMemoria(c) ==
  LET m == Head(aKernel[c])
      tabla == paginas[m.pid]
      i == buscarPaginaHeapConSuficienteTamanio(tabla, m.valor) IN
  /\ Atendiendo(c, "RESERVAR_HEAP")
  /\ \/ /\ m.valor > TamanioUtil
        /\ FallaReserva(c)
     \/ /\ m.valor <= TamanioUtil
        /\ noTienePaginasHeap(tabla, m.valor)
        /\ Pedir("ASIGNAR_PAGINAS", m.pid)
        /\ hilo' = [hilo EXCEPT ![c].paso = "esperando", ![c].pid = m.pid,
                                ![c].tamanio = m.valor]
        /\ UNCHANGED << SoloHeap, paginas, aCPU, punteros, sistema >>
     \/ /\ m.valor <= TamanioUtil
        /\ ~noTienePaginasHeap(tabla, m.valor)
        /\ IF i = 0 THEN FallaReserva(c)
                    ELSE OcuparBloque(c, m.pid, m.valor, tabla, i, << >>)
  /\ Recibido(c)
  /\ UNCHANGED deMemoria

(* The answer to ASIGNAR_PAGINAS: a page granted gets its number.  That to *)
(* LIBERAR_PAGINA is only awaited.                                         *)
RecibirPagina(c) ==
  /\ hilo[c].paso \in Esperas
  /\ recvDeMemoria
  /\ IF hilo[c].paso = "esperando" /\ ~Respuesta
     THEN FallaReserva(c)
     ELSE /\ hilo' = [hilo EXCEPT ![c] =
                        IF @.paso = "esperandoLiberacion"
                        THEN Hilo("atendiendo", @.proceso)
                        ELSE [@ EXCEPT !.paso = "agregando",
                                       !.numero = numeroPagina(paginas[hilo[c].pid])]]
          /\ UNCHANGED << SoloHeap, paginas, alMemoria, aCPU, punteros, sistema >>
  /\ UNCHANGED aKernel

(* The page with its two blocks is written, and goes at the end of a list  *)
(* that another thread may have made longer; the block is of that page.    *)
AgregarPagina(c) ==
  LET p == hilo[c].pid
      nueva == PaginaHeap(hilo[c].numero)
      tabla == ConPagina(paginas[p], nueva) IN
  /\ hilo[c].paso = "agregando"
  /\ OcuparBloque(c, p, hilo[c].tamanio, tabla, Len(tabla),
                  <<Escritura(p, nueva), Escritura(p, nueva)>>)
  /\ UNCHANGED << deMemoria, aKernel >>

(* The two ways in which OcuparBloque ends the kernel.                     *)
OcuparSinBloque(c) ==
  \/ /\ hilo[c].paso = "agregando"
     /\ OcuparBloqueMal
  \/ /\ Atendiendo(c, "RESERVAR_HEAP")
     /\ LET m == Head(aKernel[c]) IN
        /\ m.valor <= TamanioUtil
        /\ ~noTienePaginasHeap(paginas[m.pid], m.valor)
        /\ buscarPaginaHeapConSuficienteTamanio(paginas[m.pid], m.valor) # 0
     /\ OcuparBloqueMal

(* liberarDatosDeProceso.  Every block is free, so chequearHeapMetadata    *)
(* gives back the page of a block it finds.  One that is not in the page   *)
(* it looks in is a NULL.                                                  *)
liberarDatosDeProceso(c) ==
  LET m == Head(aKernel[c])
      offset == m.valor % TAM_PAGINA
      tabla == paginas[m.pid]
      i == SelectInSeq(tabla, LAMBDA pg : pg.pagina = m.valor \div TAM_PAGINA)
      j == SelectInSeq(tabla[i].bloques, LAMBDA b : b.offset = offset) IN
  /\ Atendiendo(c, "LIBERAR_HEAP")
  /\ Recibido(c)
  /\ IF offset >= TAM_PAGINA - SizeofHeapMetadata
     THEN sendDeNotificacion(c, "OPERACION_CON_CPU_FALLIDA")
     ELSE UNCHANGED aCPU
  /\ IF offset >= TAM_PAGINA - SizeofHeapMetadata \/ i = 0
     THEN UNCHANGED << paginas, alMemoria, hilo, sistema >>
     ELSE IF j = 0
     THEN /\ sistema' = "kernel caido"
          /\ UNCHANGED << paginas, alMemoria, hilo >>
     ELSE /\ paginas' = [paginas EXCEPT ![m.pid][i].tamanioDisponible =
                           ConSigno(@ + tabla[i].bloques[j].size)]
          /\ alMemoria' = Append(alMemoria, Pedido("LIBERAR_PAGINA", m.pid,
                                                   tabla[i].pagina))
          /\ hilo' = [hilo EXCEPT ![c].paso = "esperandoLiberacion"]
          /\ UNCHANGED sistema
  /\ UNCHANGED << SoloHeap, deMemoria, punteros >>

SoloTurno == << SoloHilo, deMas, paginas, deMemoria, aCPU, punteros, sistema >>

(* PROCESO_ABORTADO, PROCESO_FINALIZADO and PROCESO_FINALIZO_RAFAGA, about *)
(* whatever process they bring.  Only the first one tells Memoria, and     *)
(* does not wait; nobody looks at what is in colaFinalizado.               *)
TerminaTurno(c) ==
  LET p == Head(aKernel[c]).pid IN
  /\ \/ /\ Atendiendo(c, "PROCESO_ABORTADO")
        /\ Pedir("FINALIZAR_PROCESO", p)
        /\ UNCHANGED colaListo
     \/ /\ Atendiendo(c, "PROCESO_FINALIZADO")
        /\ UNCHANGED << colaListo, alMemoria >>
     \/ /\ Atendiendo(c, "PROCESO_FINALIZO_RAFAGA")
        /\ colaListo' = Append(colaListo, p)
        /\ UNCHANGED alMemoria
  /\ Recibido(c)
  /\ hilo' = [hilo EXCEPT ![c].paso = "libre"]
  /\ UNCHANGED SoloTurno

(* The two loops of manejadorCPU.                                          *)
BuscarListo(c) == TomarListo(c) \/ EnviarSinTomar(c)

AtenderCPU(c) ==
  \/ alocarMemoria(c)
  \/ RecibirPagina(c)
  \/ AgregarPagina(c)
  \/ OcuparSinBloque(c)
  \/ liberarDatosDeProceso(c)
  \/ TerminaTurno(c)

manejadorCPU(c) == BuscarListo(c) \/ AtenderCPU(c)

-----------------------------------------------------------------------------
(* The CPU.                                                                *)
SoloCPU == << procesos, memoria, planificador, hilo, paginas, punteros, sistema >>

SegundaPalabra(c) == aCPU[c][2].w

(* recvRemasterizado takes a type and a size, and as much as the size      *)
(* says.  If a notification nobody read comes first, what it takes for the *)
(* size is the word after it: another notification is a negative size, and *)
(* ends the CPU; the type of a packet leaves it out of step.               *)
recvRemasterizado(c, bien) ==
  /\ Len(aCPU[c]) >= 2
  /\ IF SegundaPalabra(c) = "tamanio"
     THEN /\ aCPU' = [aCPU EXCEPT ![c] = SubSeq(@, 4, Len(@))]
          /\ cpu' = [cpu EXCEPT ![c] = bien]
     ELSE /\ aCPU' = [aCPU EXCEPT ![c] = << >>]
          /\ cpu' = [cpu EXCEPT ![c].modo =
                       IF SegundaPalabra(c) = "OPERACION_CON_CPU_FALLIDA"
                       THEN "muerta" ELSE "desfasada"]

(* Nobody looks at the type: a late answer is read as if it were a PCB,    *)
(* past its end, and nothing more is said of that CPU.                     *)
recibirPCBDeKernel(c) ==
  /\ cpu[c].modo = "libre"
  /\ recvRemasterizado(c, IF aCPU[c][1].w = "MENSAJE_PCB"
                          THEN [modo |-> "ejecutando", pid |-> aCPU[c][3].v]
                          ELSE [modo |-> "desfasada", pid |-> SinPid])
  /\ UNCHANGED << SoloCPU, aKernel, deMas, pedidos >>

Enviar(c, tipo, valor) ==
  aKernel' = [aKernel EXCEPT ![c] = Append(@, Mensaje(tipo, cpu[c].pid, valor))]

Ejecuta(c) == cpu[c].modo = "ejecutando"

(* reservarMemoria up to the wait for the answer, and from it on.          *)
reservarMemoria(c, t) ==
  /\ Ejecuta(c)
  /\ pedidos[cpu[c].pid] < MaxPedidos[cpu[c].pid]
  /\ Enviar(c, "RESERVAR_HEAP", t)
  /\ pedidos' = [pedidos EXCEPT ![cpu[c].pid] = @ + 1]
  /\ cpu' = [cpu EXCEPT ![c].modo = "esperando"]
  /\ UNCHANGED << SoloCPU, aCPU, deMas >>

(* A packet that is not the answer aborts the program.                     *)
RespuestaReserva(c) ==
  /\ cpu[c].modo = "esperando"
  /\ recvRemasterizado(c, [cpu[c] EXCEPT !.modo =
                             IF aCPU[c][1].w = "OPERACION_EXITOSA"
                             THEN "ejecutando" ELSE "abortado"])
  /\ UNCHANGED << SoloCPU, aKernel, deMas, pedidos >>

(* A program frees what it was given.                                      *)
liberarMemoria(c, puntero) ==
  /\ Ejecuta(c)
  /\ pedidos[cpu[c].pid] < MaxPedidos[cpu[c].pid]
  /\ puntero \in punteros[cpu[c].pid]
  /\ Enviar(c, "LIBERAR_HEAP", puntero)
  /\ pedidos' = [pedidos EXCEPT ![cpu[c].pid] = @ + 1]
  /\ UNCHANGED << SoloCPU, cpu, aCPU, deMas >>

(* The checks at the end of a turn are independent.  The first one that    *)
(* holds sends the PCB and destroys it, and one more, on the last line of  *)
(* a quantum, sends what was freed or ends the CPU.                        *)
Motivos(c) == IF Ejecuta(c)
              THEN {"PROCESO_ABORTADO", "PROCESO_FINALIZADO", "PROCESO_FINALIZO_RAFAGA"}
              ELSE {"PROCESO_ABORTADO"}

SoloFin == << SoloCPU, aCPU, pedidos >>

TerminarTurno(c, motivo) ==
  /\ cpu[c].modo \in {"ejecutando", "abortado"}
  /\ motivo \in Motivos(c)
  /\ Enviar(c, motivo, 0)
  /\ cpu' = [cpu EXCEPT ![c] = CPULibre]
  /\ UNCHANGED << SoloFin, deMas >>

TerminarDosVeces(c, motivo) ==
  /\ cpu[c].modo \in {"ejecutando", "abortado"}
  /\ motivo \in Motivos(c) \ {"PROCESO_FINALIZO_RAFAGA"}
  /\ \/ /\ deMas < MaxDeMas
        /\ deMas' = deMas + 1
        /\ aKernel' = [aKernel EXCEPT ![c] =
                         @ \o <<Mensaje(motivo, cpu[c].pid, 0),
                                Mensaje("PROCESO_FINALIZO_RAFAGA", cpu[c].pid, 0)>>]
        /\ cpu' = [cpu EXCEPT ![c] = CPULibre]
     \/ /\ Enviar(c, motivo, 0)
        /\ cpu' = [cpu EXCEPT ![c].modo = "muerta"]
        /\ UNCHANGED deMas
  /\ UNCHANGED SoloFin

CicloCPU(c) ==
  \/ recibirPCBDeKernel(c)
  \/ \E t \in Tamanios : reservarMemoria(c, t)
  \/ RespuestaReserva(c)
  \/ \E p \in Pids : \E puntero \in punteros[p] : liberarMemoria(c, puntero)
  \/ \E motivo \in {"PROCESO_ABORTADO", "PROCESO_FINALIZADO",
                   "PROCESO_FINALIZO_RAFAGA"} :
       TerminarTurno(c, motivo) \/ TerminarDosVeces(c, motivo)

-----------------------------------------------------------------------------
Next ==
  /\ sistema = "anda"
  /\ \/ iniciarPCB
     \/ planificarSistema
     \/ Memoria
     \/ MemoriaCuelga
     \/ \E c \in CPUs : manejadorCPU(c) \/ CicloCPU(c)

Spec == Init /\ [][Next]_vars

(* The threads of the kernel and Memoria are endless loops.  Nothing is    *)
(* said of the programs but that a CPU reads what it waits for, nor of a   *)
(* thread that looks for a process, since the planning may stay stopped.   *)
SpecJusta ==
  /\ Spec
  /\ WF_vars(sistema = "anda" /\ Memoria)
  /\ WF_vars(sistema = "anda" /\ planificarSistema)
  /\ \A c \in CPUs :
       /\ WF_vars(sistema = "anda" /\ AtenderCPU(c))
       /\ WF_vars(sistema = "anda" /\ (recibirPCBDeKernel(c) \/ RespuestaReserva(c)))

-----------------------------------------------------------------------------
(* Properties.                                                             *)

TypeOK ==
  /\ pidActual \in Pids \cup {Cardinality(Pids) + 1}
  /\ colaNuevo \in Seq(Pids) /\ colaListo \in Seq(Pids)
  /\ asignadas \in [Pids -> Nat]
  /\ planificador \in [paso : {"mirando", "esperando"}, pid : Pids \cup {SinPid}]
  /\ hilo \in [CPUs -> [paso : {"libre", "atendiendo", "agregando"} \cup Esperas,
                        proceso : Pids \cup {SinPid}, pid : Pids \cup {SinPid},
                        tamanio : Tamanios \cup {0}, numero : Int]]
  /\ paginas \in [Pids -> Seq([pagina : Int, tamanioDisponible : Int,
                              bloques : Seq([size : 0 .. ANCHO - 1, offset : Int])])]
  /\ alMemoria \in Seq([pid : Pids, pagina : Int,
                        tipo : {"INICIAR_PROGRAMA", "ASIGNAR_PAGINAS", "ESCRIBIR_DATOS",
                                "LIBERAR_PAGINA", "FINALIZAR_PROCESO"}])
  /\ deMemoria \in Seq(BOOLEAN)
  /\ cpu \in [CPUs -> [modo : {"libre", "ejecutando", "abortado", "esperando",
                               "muerta", "desfasada"},
                       pid : Pids \cup {SinPid}]]
  /\ deMas \in 0 .. MaxDeMas
  /\ \A p \in Pids : pedidos[p] \in 0 .. MaxPedidos[p]
  /\ punteros \in [Pids -> SUBSET (0 .. ANCHO - 1)]
  /\ sistema \in {"anda", "kernel caido", "memoria colgada"}

HilosEsperando == {c \in CPUs : hilo[c].paso \in Esperas}

Esperan ==
  Cardinality(HilosEsperando) + (IF planificador.paso = "esperando" THEN 1 ELSE 0)

(* Each thread that waits for Memoria has a word coming, though not its    *)
(* own: threads that take the answers of each other never use up more      *)
(* than there are, since every request is answered.                        *)
NadieEsperaDeMas == Esperan <= Len(alMemoria) + Len(deMemoria)

(* Whatever a program reserves and frees, the kernel gives a page back     *)
(* only for a process that has two: nothing lowers tamanioDisponible, so   *)
(* it takes two CPUs that ask for the same process at once, and the number *)
(* of the first page puts all its pointers in a page that is not found.    *)
SoloDevuelveConDos ==
  \A i \in DOMAIN alMemoria :
    alMemoria[i].tipo = "LIBERAR_PAGINA" => Len(paginas[alMemoria[i].pid]) >= 2

(* A thread that waits for Memoria goes on, as long as Memoria's searches  *)
(* come back and no pointer is wild.                                       *)
EsperaTermina ==
  /\ \A c \in CPUs :
       hilo[c].paso \in Esperas ~> (hilo[c].paso \notin Esperas \/ sistema # "anda")
  /\ planificador.paso = "esperando"
       ~> (planificador.paso # "esperando" \/ sistema # "anda")

(* A CPU that reserves is answered, loses its step, dies, keeps the single *)
(* word of a refusal, for whose second word it waits, or is left with a    *)
(* thread that looks for another process, since it ran an old PCB or the   *)
(* thread took the second message of an older turn for its end.            *)
ReservaContestada ==
  \A c \in CPUs :
    cpu[c].modo = "esperando" ~>
      \/ cpu[c].modo # "esperando" \/ sistema # "anda" \/ hilo[c].paso = "libre"
      \/ aCPU[c] = <<Palabra("OPERACION_CON_CPU_FALLIDA", 0)>>
=============================================================================

--------------------------- MODULE TablaInvertida ---------------------------
(***************************************************************************)
(* The inverted page table of the Memoria process: the frame search of     *)
(* funcionHash.c, the page counters of every process and the four requests *)
(* of the kernel that change them (Memoria.c).  The select loop of main    *)
(* serves one request at a time, so each request is one action.            *)
(***************************************************************************)
EXTENDS FuncionHash, FiniteSets

CONSTANTS
  MARCOS_SIZE,   \* bytes of a frame (memoria.config)
  Pids,          \* the pids the kernel will ever use
  Pedidos        \* the page counts a request may ask for

TamEntradaTabla == 12   \* sizeof(entradaTabla): three packed ints

(* Frames taken by the table itself: the size of the table rounded up.     *)
calcularTamanioDeTabla ==
  (MARCOS * TamEntradaTabla + MARCOS_SIZE - 1) \div MARCOS_SIZE

ASSUME TablaAssumption ==
  calcularTamanioDeTabla \in 1 .. (MARCOS - 1)

ASSUME PidsAssumption == Pids \subseteq Nat \ {0}

ASSUME PedidosAssumption == Pedidos \subseteq Nat \ {0}

VARIABLES
  entradasDeTabla,       \* frame -> [pid, pagina]
  paginasPorProcesos,    \* pid -> its entry in the list of page counters
  cantidadPaginasLibres, \* the counter the reservations are checked against
  mutexTablaInvertida,   \* "libre" or "tomado"
  servidor,              \* what became of the thread that serves requests
  respuesta              \* the last notification sent back

varsTabla == << entradasDeTabla, paginasPorProcesos, cantidadPaginasLibres,
                mutexTablaInvertida, servidor, respuesta >>

-----------------------------------------------------------------------------
(* esPaginaLibre and esElFrameCorrecto as the sets of frames they accept.  *)
FramesLibres == {f \in Frames : entradasDeTabla[f].pagina = -1}

FramesDePagina_SinPid(pid, pagina) ==
  {f \in Frames : entradasDeTabla[f].pagina = pagina /\ entradasDeTabla[f].pid # -1}

FramesDePagina(pid, pagina) ==
  {f \in Frames : entradasDeTabla[f] = [pid |-> pid, pagina |-> pagina]}

FramesDe(pid) == {f \in Frames : entradasDeTabla[f].pid = pid}

BuscarPagina(pid, pagina) ==
  buscarFrameProceso(calcularPosicion(pid, pagina), FramesDePagina(pid, pagina))

-----------------------------------------------------------------------------
(* DATOS_DE_PAGINA answers the reads of module CacheMemoria.               *)
Respuestas ==
  {"ninguna", "OPERACION_EXITOSA_FINALIZADA", "OPERACION_FALLIDA", "DATOS_DE_PAGINA"}

(* Besides serving: in a search without end, past the end of the table, or *)
(* dead, on a counter looked for and not listed or on the free of a pointer *)
(* never set (leerDatos, CacheMemoria).                                    *)
Servidores == {"atendiendo", "cuelga", "fueraDeTabla", "abortado"}

SinEntrada == [enLista |-> FALSE, usado |-> FALSE, pedidas |-> 0, asignadas |-> 0]

Libre == [pid |-> -1, pagina |-> -1]

(* A frame given back: liberarPagina and borrarEntradasDeProceso reset the *)
(* two fields one by one.                                                  *)
Liberada(entrada) == Libre

(* Only cantidadDePaginasAsignadas goes down when a page is given back.    *)
liberarPaginaDeProceso_Nada(contador) == contador

liberarPaginaDeProceso(contador) == [contador EXCEPT !.asignadas = @ - 1]

(* Requests come about any pid the kernel has started, refused and ended   *)
(* ones included: a refused process is made ready all the same, and an     *)
(* ended one runs again when its CPU sends its PCB a second time.          *)
Iniciado(pid) == paginasPorProcesos[pid].usado

EnLista(pid) == paginasPorProcesos[pid].enLista

(* What becomes of the serving thread when a search ends like this.        *)
ServidorTras(resultado) ==
  IF resultado = CUELGA THEN "cuelga"
  ELSE IF resultado = FUERA THEN "fueraDeTabla" ELSE "atendiendo"

(* crearEstructuraAdministrativa: the frames left for data. *)
PaginasDeDatos == MARCOS - calcularTamanioDeTabla

Init ==
  /\ entradasDeTabla =
       [f \in Frames |->
          IF f < calcularTamanioDeTabla THEN [pid |-> -1, pagina |-> f] ELSE Libre]
  /\ paginasPorProcesos = [pid \in Pids |-> SinEntrada]
  /\ cantidadPaginasLibres = PaginasDeDatos
  /\ mutexTablaInvertida = "libre"
  /\ servidor = "atendiendo"
  /\ respuesta = "ninguna"

(* The check of reservarPaginasParaProceso, made before the lock.          *)
HayLugarPara_SinContador(n) == n < PaginasDeDatos

HayLugarPara(n) == n < PaginasDeDatos /\ n < cantidadPaginasLibres

(* The frames found for the first i pages of a reservation are not free    *)
(* for page primera + i.                                                   *)
Tomados(tomados, i) == {tomados[j] : j \in 0 .. (i - 1)}

FrameParaPagina(tomados, pid, primera, i) ==
  buscarFrameProceso(calcularPosicion(pid, primera + i),
                     FramesLibres \ Tomados(tomados, i))

EsReserva(tomados, pid, primera) ==
  \A i \in DOMAIN tomados : tomados[i] = FrameParaPagina(tomados, pid, primera, i)

(* Page primera + i goes to frame tomados[i].                              *)
TablaOcupada(tomados, pid, primera) ==
  [f \in Frames |->
     IF \E i \in DOMAIN tomados : tomados[i] = f
     THEN [pid |-> pid,
           pagina |-> primera + (CHOOSE i \in DOMAIN tomados : tomados[i] = f)]
     ELSE entradasDeTabla[f]]

Ocupar(tomados, pid, primera) ==
  LET k == Cardinality(DOMAIN tomados) IN
  /\ entradasDeTabla' = TablaOcupada(tomados, pid, primera)
  /\ paginasPorProcesos' =
       [paginasPorProcesos EXCEPT
          ![pid] = [enLista |-> TRUE, usado |-> TRUE,
                    pedidas |-> @.pedidas + k, asignadas |-> @.asignadas + k]]
  /\ cantidadPaginasLibres' = cantidadPaginasLibres - k

(* All n pages get a frame.                                                *)
ReservaCompleta(pid, n, primera) ==
  \E tomados \in [0 .. (n - 1) -> Frames] :
    /\ EsReserva(tomados, pid, primera)
    /\ Ocupar(tomados, pid, primera)
    /\ respuesta' = "OPERACION_EXITOSA_FINALIZADA"
    /\ UNCHANGED << mutexTablaInvertida, servidor >>

(* No frame for page primera + k: the search does not come back, or the    *)
(* code returns at once; the lock stays taken in every case.               *)
ReservaCortada(pid, n, primera) ==
  \E k \in 0 .. (n - 1) : \E tomados \in [0 .. (k - 1) -> Frames] :
    LET fallo == FrameParaPagina(tomados, pid, primera, k) IN
    /\ EsReserva(tomados, pid, primera)
    /\ fallo \notin Frames
    /\ Ocupar(tomados, pid, primera)
    /\ mutexTablaInvertida' = "tomado"
    /\ servidor' = ServidorTras(fallo)
    /\ respuesta' = IF NoVuelve(fallo) THEN respuesta ELSE "OPERACION_FALLIDA"

(* Page numbers start at cantidadDePaginasAsignadas.  The lock is free     *)
(* whenever a request is served: see MutexSuelto.                          *)
reservarPaginasParaProceso(pid, n) ==
  /\ HayLugarPara(n)
  /\ mutexTablaInvertida = "libre"
  /\ \/ ReservaCompleta(pid, n, paginasPorProcesos[pid].asignadas)
     \/ ReservaCortada(pid, n, paginasPorProcesos[pid].asignadas)

-----------------------------------------------------------------------------
(* INICIALIZAR_PROGRAMA.  The kernel numbers its processes, so a pid comes *)
(* here once.  On refusal eliminarPaginaPorProceso hands list_remove a     *)
(* lookup by pid instead of a predicate on entries: the entry stays.       *)
inicializarProceso(pid, n) ==
  /\ servidor = "atendiendo"
  /\ ~paginasPorProcesos[pid].usado
  /\ \/ reservarPaginasParaProceso(pid, n)
     \/ /\ ~HayLugarPara(n)
        /\ paginasPorProcesos' =
             [paginasPorProcesos EXCEPT ![pid].enLista = TRUE, ![pid].usado = TRUE]
        /\ respuesta' = "OPERACION_FALLIDA"
        /\ UNCHANGED << entradasDeTabla, cantidadPaginasLibres,
                        mutexTablaInvertida, servidor >>

(* ASIGNAR_PAGINAS, sent for the heap pages of a running process.  The     *)
(* counter of a pid that is not listed is read through a null pointer.     *)
asignarPaginasAProceso(pid, n) ==
  /\ servidor = "atendiendo"
  /\ Iniciado(pid)
  /\ \/ EnLista(pid) /\ reservarPaginasParaProceso(pid, n)
     \/ /\ ~EnLista(pid) /\ HayLugarPara(n)
        /\ servidor' = "abortado"
        /\ UNCHANGED << entradasDeTabla, paginasPorProcesos, cantidadPaginasLibres,
                        mutexTablaInvertida, respuesta >>
     \/ /\ ~HayLugarPara(n)
        /\ respuesta' = "OPERACION_FALLIDA"
        /\ UNCHANGED << entradasDeTabla, paginasPorProcesos, cantidadPaginasLibres,
                        mutexTablaInvertida, servidor >>

puedeSerLiberada(f) == calcularTamanioDeTabla < f /\ f < MARCOS

(* LIBERAR_PAGINA: the frame becomes free, the counter of free pages that  *)
(* reservations are checked against does not change.  A page left over by  *)
(* a process no longer listed kills the server: its counter is not there.  *)
liberarPagina(pid, pagina) ==
  LET frame == BuscarPagina(pid, pagina) IN
  /\ servidor = "atendiendo"
  /\ Iniciado(pid)
  /\ \/ /\ frame \in Frames /\ puedeSerLiberada(frame) /\ EnLista(pid)
        /\ entradasDeTabla' = [entradasDeTabla EXCEPT ![frame] = Liberada(@)]
        /\ paginasPorProcesos' = 
             [paginasPorProcesos EXCEPT ![pid] = liberarPaginaDeProceso(@)]
        /\ respuesta' = "OPERACION_EXITOSA_FINALIZADA"
        /\ UNCHANGED servidor
     \/ /\ frame \in Frames /\ puedeSerLiberada(frame) /\ ~EnLista(pid)
        /\ servidor' = "abortado"
        /\ UNCHANGED << entradasDeTabla, paginasPorProcesos, respuesta >>
     \/ /\ ~(frame \in Frames /\ puedeSerLiberada(frame))
        /\ servidor' = ServidorTras(frame)
        /\ respuesta' = IF NoVuelve(frame) THEN respuesta ELSE "OPERACION_FALLIDA"
        /\ UNCHANGED << entradasDeTabla, paginasPorProcesos >>
  /\ UNCHANGED << cantidadPaginasLibres, mutexTablaInvertida >>

(* borrarEntradasDeProceso looks for the pages pedidas-1, ..., 0 once each *)
(* and frees what it finds; a search that does not return ends it there.   *)
PaginasBuscadas_SinLaPrimera(pid) == 1 .. (paginasPorProcesos[pid].pedidas - 1)

PaginasBuscadas(pid) == 0 .. (paginasPorProcesos[pid].pedidas - 1)

BusquedasSinFin(pid) ==
  {p \in PaginasBuscadas(pid) : NoVuelve(BuscarPagina(pid, p))}

PaginasBorradas(pid) ==
  {p \in PaginasBuscadas(pid) : \A q \in BusquedasSinFin(pid) : q < p}

FramesBorrados(pid) ==
  {f \in Frames : \E p \in PaginasBorradas(pid) : f = BuscarPagina(pid, p)}

borrarEntradasDeProceso(pid) ==
  /\ entradasDeTabla' =
       [f \in Frames |-> IF f \in FramesBorrados(pid)
                         THEN Liberada(entradasDeTabla[f]) ELSE entradasDeTabla[f]]
  /\ paginasPorProcesos' = [paginasPorProcesos EXCEPT ![pid].enLista = FALSE]

(* FINALIZAR_PROGRAMA, the part that concerns the table.  The end of a pid *)
(* that is no longer listed is answered as well, and leaves the table as   *)
(* it is.                                                                  *)
finalizarProceso(pid) ==
  /\ servidor = "atendiendo"
  /\ mutexTablaInvertida = "libre"
  /\ Iniciado(pid)
  /\ UNCHANGED cantidadPaginasLibres
  /\ \/ /\ ~EnLista(pid)
        /\ respuesta' = "OPERACION_EXITOSA_FINALIZADA"
        /\ UNCHANGED << entradasDeTabla, paginasPorProcesos, mutexTablaInvertida, servidor >>
     \/ /\ EnLista(pid)
        /\ BusquedasSinFin(pid) = {}
        /\ borrarEntradasDeProceso(pid)
        /\ respuesta' = "OPERACION_EXITOSA_FINALIZADA"
        /\ UNCHANGED << mutexTablaInvertida, servidor >>
     \/ /\ EnLista(pid)
        /\ borrarEntradasDeProceso(pid)
        /\ mutexTablaInvertida' = "tomado"
        /\ \E p \in BusquedasSinFin(pid) :
             /\ \A q \in BusquedasSinFin(pid) : q <= p
             /\ servidor' = ServidorTras(BuscarPagina(pid, p))
        /\ UNCHANGED respuesta

(* LIBERAR_PAGINA is for heap pages: the kernel numbers the n-th one of a  *)
(* process n - 2, so no number reaches the pages the process asked for.    *)
PaginasDelHeap(pid) == 0 .. (paginasPorProcesos[pid].pedidas - 2)

Next ==
  \E pid \in Pids :
    \/ \E n \in Pedidos : inicializarProceso(pid, n)
    \/ \E n \in Pedidos : asignarPaginasAProceso(pid, n)
    \/ \E pagina \in PaginasDelHeap(pid) : liberarPagina(pid, pagina)
    \/ finalizarProceso(pid)

Spec == Init /\ [][Next]_varsTabla

-----------------------------------------------------------------------------
(* Properties.                                                             *)

(* Every field of the table, the counters and the lock keeps its type.     *)
TypeOK ==
  /\ entradasDeTabla \in [Frames -> [pid : Pids \cup {-1}, pagina : Nat \cup {-1}]]
  /\ paginasPorProcesos \in
       [Pids -> [enLista : BOOLEAN, usado : BOOLEAN, pedidas : Nat, asignadas : Int]]
  /\ cantidadPaginasLibres \in Int
  /\ mutexTablaInvertida \in {"libre", "tomado"}
  /\ servidor \in Servidores
  /\ respuesta \in Respuestas

(* The frames of the table itself stay as crearEstructuraAdministrativa    *)
(* left them: no search ever hands one of them to a process.               *)
TablaProtegida ==
  \A f \in Frames :
    f < calcularTamanioDeTabla => entradasDeTabla[f] = [pid |-> -1, pagina |-> f]

(* A data frame has an owner exactly when it holds a page: what            *)
(* esPaginaLibre calls free is free for esElFrameCorrecto and dump too.    *)
PidYPaginaJuntos ==
  \A f \in Frames :
    f >= calcularTamanioDeTabla =>
      (entradasDeTabla[f].pid = -1 <=> entradasDeTabla[f].pagina = -1)

(* The counter that reservarPaginasParaProceso trusts never promises more  *)
(* frames than there are.                                                  *)
LibresAcotado == cantidadPaginasLibres <= Cardinality(FramesLibres)

(* A server that goes on serving does not hold mutexTablaInvertida: the    *)
(* early return of reservarPaginasParaProceso, which forgets to unlock, is *)
(* never taken.                                                            *)
MutexSuelto == servidor = "atendiendo" => mutexTablaInvertida = "libre"

(* Every page a listed process holds has a number below its                *)
(* contadorDePaginasPedidas, so borrarEntradasDeProceso looks for it.      *)
PaginasPedidas ==
  \A f \in Frames : \A pid \in Pids :
    entradasDeTabla[f].pid = pid /\ paginasPorProcesos[pid].enLista =>
      entradasDeTabla[f].pagina < paginasPorProcesos[pid].pedidas

(* cantidadDePaginasAsignadas, which size prints and which numbers the     *)
(* next page, is the number of frames the process holds.                   *)
AsignadasCuentaFrames ==
  \A pid \in Pids :
    paginasPorProcesos[pid].enLista =>
      paginasPorProcesos[pid].asignadas = Cardinality(FramesDe(pid))

(* A pid not used yet has no entry and no frame.                           *)
NuevoSinFrames ==
  \A pid \in Pids :
    ~paginasPorProcesos[pid].usado =>
      paginasPorProcesos[pid] = SinEntrada /\ FramesDe(pid) = {}

(* A process never holds more pages than it has asked for.                 *)
AsignadasHastaPedidas ==
  \A pid \in Pids :
    paginasPorProcesos[pid].enLista =>
      paginasPorProcesos[pid].asignadas <= paginasPorProcesos[pid].pedidas

(* The inductive invariant behind all of the above.                        *)
IInv ==
  /\ TypeOK
  /\ TablaProtegida
  /\ PidYPaginaJuntos
  /\ LibresAcotado
  /\ MutexSuelto
  /\ PaginasPedidas
  /\ AsignadasCuentaFrames
  /\ NuevoSinFrames
  /\ AsignadasHastaPedidas

(* A frame in use changes only by becoming free, and only in a request for *)
(* its owner, that is one that changes the owner's counters.               *)
SoloElDuenioSuelta ==
  [][\A f \in Frames : \A pid \in Pids :
       entradasDeTabla[f].pid = pid /\ entradasDeTabla'[f] # entradasDeTabla[f] =>
         /\ entradasDeTabla'[f] = Libre
         /\ paginasPorProcesos'[pid] # paginasPorProcesos[pid]]_varsTabla

(* The end of a process leaves it no frame, if each page it holds is in    *)
(* one frame: the numbers that borrarEntradasDeProceso looks for are those *)
(* of its pages, and the search finds each from where it was put.          *)
UnFramePorPagina(pid) ==
  \A f, g \in FramesDe(pid) :
    entradasDeTabla[f].pagina = entradasDeTabla[g].pagina => f = g

FinalizarBorraTodo ==
  [][\A pid \in Pids :
       /\ paginasPorProcesos[pid].enLista /\ ~paginasPorProcesos'[pid].enLista
       /\ UnFramePorPagina(pid)
       /\ servidor' = "atendiendo"
       => FramesDe(pid)' = {}]_varsTabla
=============================================================================

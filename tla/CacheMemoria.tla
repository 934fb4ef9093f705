---------------------------- MODULE CacheMemoria ----------------------------
(***************************************************************************)
(* The Memoria process as its clients see it: the inverted table of module *)
(* TablaInvertida together with the page cache in front of it, and the two *)
(* requests that go through the cache, reads and writes.  The contents of  *)
(* the pages are module ContenidoMemoria.                                  *)
(***************************************************************************)
EXTENDS TablaInvertida, SequencesExt

CONSTANTS
  ENTRADAS_CACHE,   \* entries of the cache (memoria.config)
  CACHE_X_PROC,     \* entries one process may have (memoria.config)
  Accesos           \* the [offset, tamanio] a write may carry

ASSUME CacheAssumption ==
  /\ ENTRADAS_CACHE \in Nat \ {0}
  /\ CACHE_X_PROC \in Nat

ASSUME AccesosAssumption == Accesos \subseteq [offset : Nat, tamanio : Nat]

VARIABLE cacheDeMemoria   \* the entries, most recently used first

varsMemoria == << entradasDeTabla, paginasPorProcesos, cantidadPaginasLibres,
                  mutexTablaInvertida, servidor, respuesta, cacheDeMemoria >>

Clave(pid, pagina) == [pid |-> pid, numPagina |-> pagina]

EntradasDeProceso(cache, pid) == {i \in DOMAIN cache : cache[i].pid = pid}

estaCargadoEnCache(pid, pagina) ==
  \E i \in DOMAIN cacheDeMemoria : cacheDeMemoria[i] = Clave(pid, pagina)

estaLlenaLaCache_PorUno == Len(cacheDeMemoria) > ENTRADAS_CACHE

estaLlenaLaCache == Len(cacheDeMemoria) >= ENTRADAS_CACHE

noSuperoLaCantidadMaxDeEntradas_PorUno(pid) ==
  Cardinality(EntradasDeProceso(cacheDeMemoria, pid)) <= CACHE_X_PROC

noSuperoLaCantidadMaxDeEntradas(pid) ==
  Cardinality(EntradasDeProceso(cacheDeMemoria, pid)) < CACHE_X_PROC

(* obtenerEntrada takes the entry out, its callers put it back at the top. *)
AlFrente_SinSacar(pid, pagina) == <<Clave(pid, pagina)>> \o cacheDeMemoria

AlFrente(pid, pagina) ==
  <<Clave(pid, pagina)>> \o RemoveFirst(cacheDeMemoria, Clave(pid, pagina))

sacarLRU_Frente(cache) == RemoveAt(cache, 1)

sacarLRU(cache) == RemoveAt(cache, ENTRADAS_CACHE)

(* A process with all its entries taken gets no other one: none of its own *)
(* is replaced.                                                            *)
agregarACache(pid, pagina) ==
  IF noSuperoLaCantidadMaxDeEntradas(pid)
  THEN <<Clave(pid, pagina)>> \o
         (IF estaLlenaLaCache THEN sacarLRU(cacheDeMemoria) ELSE cacheDeMemoria)
  ELSE cacheDeMemoria

(* list_remove_and_destroy_by_condition removes one entry, the first.      *)
limpiarProcesoDeCache(pid) ==
  RemoveFirstMatch(cacheDeMemoria, LAMBDA entrada : entrada.pid = pid)

espacioInsuficienteParaLaPagina(acceso) ==
  MARCOS_SIZE - acceso.offset <= acceso.tamanio

-----------------------------------------------------------------------------
InitMemoria == Init /\ cacheDeMemoria = << >>

(* The requests that do not look at the cache; a page given back stays in  *)
(* it.                                                                     *)
inicializarProcesoM(pid, n) == inicializarProceso(pid, n) /\ UNCHANGED cacheDeMemoria

asignarPaginasAProcesoM(pid, n) ==
  asignarPaginasAProceso(pid, n) /\ UNCHANGED cacheDeMemoria

liberarPaginaM(pid, pagina) == liberarPagina(pid, pagina) /\ UNCHANGED cacheDeMemoria

(* FINALIZAR_PROGRAMA: the cache first, then the table; an entry of the    *)
(* process leaves the cache also when its pid is no longer listed.         *)
finalizarProcesoM(pid) ==
  /\ finalizarProceso(pid)
  /\ cacheDeMemoria' = limpiarProcesoDeCache(pid)

(* ESCRIBIR_DATOS.  The frame is looked for before the cache, and every    *)
(* write loads its page.                                                   *)
escribirDatos(pid, pagina, acceso) ==
  LET frame == BuscarPagina(pid, pagina) IN
  /\ servidor = "atendiendo"
  /\ Iniciado(pid)
  /\ UNCHANGED << entradasDeTabla, paginasPorProcesos, cantidadPaginasLibres,
                  mutexTablaInvertida >>
  /\ \/ /\ espacioInsuficienteParaLaPagina(acceso)
        /\ respuesta' = "OPERACION_FALLIDA"
        /\ UNCHANGED << servidor, cacheDeMemoria >>
     \/ /\ ~espacioInsuficienteParaLaPagina(acceso)
        /\ frame \notin Frames
        /\ servidor' = ServidorTras(frame)
        /\ respuesta' = IF NoVuelve(frame) THEN respuesta ELSE "OPERACION_FALLIDA"
        /\ UNCHANGED cacheDeMemoria
     \/ /\ ~espacioInsuficienteParaLaPagina(acceso)
        /\ frame \in Frames
        /\ cacheDeMemoria' = IF estaCargadoEnCache(pid, pagina)
                             THEN AlFrente(pid, pagina) ELSE agregarACache(pid, pagina)
        /\ respuesta' = "OPERACION_EXITOSA_FINALIZADA"
        /\ UNCHANGED servidor

(* LEER_DATOS.  A cached page is answered without the table; a page read   *)
(* from the table is not loaded.  After a failed search datosLeidos is     *)
(* freed without ever having been set.                                     *)
leerDatos(pid, pagina) ==
  LET frame == BuscarPagina(pid, pagina) IN
  /\ servidor = "atendiendo"
  /\ Iniciado(pid)
  /\ UNCHANGED << entradasDeTabla, paginasPorProcesos, cantidadPaginasLibres,
                  mutexTablaInvertida >>
  /\ \/ /\ estaCargadoEnCache(pid, pagina)
        /\ cacheDeMemoria' = AlFrente(pid, pagina)
        /\ respuesta' = "DATOS_DE_PAGINA"
        /\ UNCHANGED servidor
     \/ /\ ~estaCargadoEnCache(pid, pagina)
        /\ UNCHANGED cacheDeMemoria
        /\ \/ /\ frame \in Frames
              /\ respuesta' = "DATOS_DE_PAGINA"
              /\ UNCHANGED servidor
           \/ /\ frame = NO_ENCONTRADO
              /\ respuesta' = "OPERACION_FALLIDA"
              /\ servidor' \in {"atendiendo", "abortado"}
           \/ /\ NoVuelve(frame)
              /\ servidor' = ServidorTras(frame)
              /\ UNCHANGED respuesta

(* The flush command, taken between two requests: the thread that serves   *)
(* the keyboard takes no lock, see the hazards of the README.              *)
flushCache ==
  /\ cacheDeMemoria' = << >>
  /\ UNCHANGED varsTabla

(* A running process may reach one page past its own: the stack of the CPU *)
(* is not checked against its limit.                                       *)
PaginasAccedidas(pid) == 0 .. paginasPorProcesos[pid].pedidas

NextMemoria ==
  \/ \E pid \in Pids :
       \/ \E n \in Pedidos : inicializarProcesoM(pid, n)
       \/ \E n \in Pedidos : asignarPaginasAProcesoM(pid, n)
       \/ \E pagina \in PaginasDelHeap(pid) : liberarPaginaM(pid, pagina)
       \/ finalizarProcesoM(pid)
       \/ \E pagina \in PaginasAccedidas(pid) :
            \/ \E acceso \in Accesos : escribirDatos(pid, pagina, acceso)
            \/ leerDatos(pid, pagina)
  \/ flushCache

SpecMemoria == InitMemoria /\ [][NextMemoria]_varsMemoria

-----------------------------------------------------------------------------
(* Properties.                                                             *)

(* The cache is a list of keys of pages of the processes served.           *)
TypeOKMemoria ==
  TypeOK /\ cacheDeMemoria \in Seq([pid : Pids, numPagina : Nat])

(* Neither limit of the configuration is ever exceeded, however the        *)
(* requests of several processes, their ends and flushes follow on one     *)
(* another.                                                                *)
CacheAcotada ==
  /\ Len(cacheDeMemoria) <= ENTRADAS_CACHE
  /\ \A pid \in Pids :
       Cardinality(EntradasDeProceso(cacheDeMemoria, pid)) <= CACHE_X_PROC

(* A page has one entry: what a write updates is what a read returns.      *)
SinRepetidas ==
  \A i, j \in DOMAIN cacheDeMemoria : cacheDeMemoria[i] = cacheDeMemoria[j] => i = j

(* An entry that leaves the cache, when no flush empties it, either was    *)
(* the least recently used one of a full cache and made room for a page    *)
(* that was not there, or was the most recently used one of a process that *)
(* Memoria does not list any more, and left alone.                         *)
SoloCaeElMenosUsado ==
  [][\A i \in DOMAIN cacheDeMemoria :
       /\ cacheDeMemoria[i] \notin ToSet(cacheDeMemoria')
       /\ cacheDeMemoria' # << >>
       => \/ /\ i = ENTRADAS_CACHE
             /\ Len(cacheDeMemoria') = ENTRADAS_CACHE
             /\ cacheDeMemoria'[1] \notin ToSet(cacheDeMemoria)
          \/ /\ ~paginasPorProcesos'[cacheDeMemoria[i].pid].enLista
             /\ \A j \in EntradasDeProceso(cacheDeMemoria, cacheDeMemoria[i].pid) : i <= j
             /\ cacheDeMemoria' = RemoveAt(cacheDeMemoria, i)]_varsMemoria
=============================================================================

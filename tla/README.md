# ESTheR in TLA+

ESTheR is a small distributed operating system of five programs in C: a
**kernel** that schedules processes, a **Memoria** that gives them pages,
**CPU** processes that execute their AnSISOP code, a **FileSystem** and
**consolas** from which a user starts and ends programs. They talk over TCP
sockets with length-prefixed packets. This directory models them in TLA+,
checks the models on small instances with TLC and proves the properties that
matter most with TLAPS. Paths below are relative to the root of the repository.

## 1. Inventory

| Part | State | Operations | What is hard | What makes it right |
|---|---|---|---|---|
| Memoria, page table (`src/Memoria/src/Memoria.c`) | `entradasDeTabla`, `paginasPorProcesos`, `cantidadPaginasLibres`, `mutexTablaInvertida` | `inicializarProceso`, `asignarPaginasAProceso`, `liberarPagina`, `finalizarProceso` | a counter that only goes down, numbers of pages that are reused, a search that may not come back, an early return with the mutex held | no frame is lost, shared or taken from the table |
| Memoria, search (`src/Memoria/src/funcionHash.c`) | local | `buscarFrameProceso` | hash at the last frame and at frame 0 | finds the frame whenever there is one |
| Memoria, cache | `cacheDeMemoria` | reads, writes, LRU, flush, end of a process | two limits at once, entries that outlive their page | limits, no page twice, only the least used falls |
| Memoria, contents | frames and copies in the cache | `escribirDatos`, `leerDatos` | two ways to address a byte | a read returns what was written |
| Kernel, scheduler (`src/kernel/src/kernel.c`) | five queues, `colaProcesos`, degree, planning on or off | thread of `planificarSistema`, one `manejadorCPU` per CPU, commands | no locks at all; look-then-pop; messages that cross | a process is in one place and in one CPU |
| Kernel, semaphores | `listaSemaforos`, `colaBloqueado` | `waitSemaforo`, `signalSemaforo` | the answer goes out before the value goes down | a wakeup is lost only where two requests overlap |
| CPU, cycle (`src/CPU/src/CPU.c`) | the PCB, `quantum`, flags | `main`, `recibirPCBDeKernel`, four checks at the end of a turn, SIGUSR1 | several reasons to end one turn, so that it may be closed twice | a process that goes back goes back once; one that does not, is not lost |
| Consola (`src/consola/src/consola.c`) | `listaProcesos`, `listaHilosCorrectos`, two mutexes, one socket | interface, `manejadorPaquetes`, a thread per program | every thread receives from the same socket; two lock orders | answers reach who asked; no pid is lost but in a packet that two threads split |
| Kernel, requests to Memoria | `socketMemoria` | start, write, heap pages, end | threads share one socket, some answers are never read | an answer is taken by who asked |
| Kernel, heap | `tablaHeap` of a PCB | `alocarMemoria`, `liberarDatosDeProceso` | numbering of pages, splitting and joining blocks | blocks do not overlap |
| Connections (`socket.c` of each program, `main` of kernel, CPU and Memoria) | the set of each `select`, the bytes in each socket | greetings, packets, notifications, hang-ups | a packet read as a notification; a closed socket left in the set | one reader per socket; packets attended in order; those who live stay connected |
| Kernel, shared variables | `listaVariablesCompartidas` | get, set | the value is read again when it is answered | who asks gets a value the variable had since |
| Kernel, open files | `tablaAdminGlobal`, `tablaAdminArchivos`, `socketFS` | open, close, delete, move, read, write | an inverted condition, entries not found, answers shared between threads, codes that differ | what an operation answers, and what the tables hold |
| PCB on the wire (`kernel.c`, `src/CPU/src/funcionesCpu.c`) | – | two serialisers, two deserialisers | offsets that differ between them | what arrives is what left |
| CPU, primitives (`src/CPU/src/primitivas.c`, `ansiSop.c`) | stack of the PCB, `punteroAPosicionEnStack` | variables, arguments, jumps, calls | positions worked out again at each turn; calls that stay in the first context; freed addresses | variables do not overlap and keep their values |
| FileSystem (`src/FileSystem/src/FileSystem.c`) | files, blocks and the mapped bitmap on disk; open descriptors | start, validate, create, delete, obtain, keep | block 0, blocks past the last whole byte, dying half way | a block has one file, and none is lost unseen |
| Configuration, sample programs, harnesses | – | – | – | – |

How they interact: a consola sends code to the kernel, which makes a PCB and
puts it in `colaNuevo`; `planificarSistema` asks Memoria for its pages and makes
it ready; a `manejadorCPU` sends it to its CPU, serves what the CPU asks while
the turn lasts (semaphores, shared variables, heap, files) and queues the PCB
that comes back. Memoria serves the kernel and the CPUs from one `select` loop,
a request at a time, beside a thread for its keyboard. The consola is told the
pid when the process is admitted, and asks for the end of a process and waits
for the answer.

The list of hazards, each at its line with the properties that watch it, is in
`PROJECT.json`.

## 2. Modules

| Module | What it is | Code |
|---|---|---|
| `FuncionHash` | `calcularPosicion` and what `buscarFrameProceso` answers, as functions | `funcionHash.c` |
| `BuscarFrameLazo` | the loop of that search, one step per iteration | `funcionHash.c` |
| `TablaInvertida` | the inverted page table and the requests that change it; uses `FuncionHash` | `Memoria.c` |
| `CacheMemoria` | extends `TablaInvertida` with the cache, reads, writes and flushes | `Memoria.c` |
| `PaginasFieles` | abstract: pages that keep what is written in them | what `escribirDatos` and `leerDatos` promise |
| `ContenidoMemoria` | bytes in the frames and in the copies of the cache; implements `PaginasFieles` | `Memoria.c` |
| `Planificador` | kernel scheduler, semaphores and the cycle of the CPUs, with the messages between them | `kernel.c`, `CPU.c`, `primitivas.c` |
| `Consola` | the threads of a console, and the kernel as it answers them | `consola.c` |
| `ProtocoloMemoria` | the kernel as a client of Memoria: requests, answers and the heap of the processes | `kernel.c`, `primitivas.c`, `Memoria.c` |
| `PCBSerializada` | the PCB over the wire, each of the four functions as an operator | `kernel.c`, `funcionesCpu.c` |
| `VariablesFieles` | abstract: variables that keep what they were given | what `definirVariable` and `asignar` promise |
| `PilaCPU` | extends `PCBSerializada` with the primitives on the stack and the turns; implements `VariablesFieles` | `primitivas.c`, `ansiSop.c`, `CPU.c` |
| `Conexiones` | streams of words, greetings, the loops of `select` of the kernel and of Memoria | `socket.c`, `kernel.c`, `CPU.c`, `Memoria.c` |
| `PeticionesKernel` | extends `Conexiones` with shared variables, files and their tables | `kernel.c`, `primitivas.c`, `ansiSop.c` |
| `FileSystem` | the server of files, across deaths of its process | `FileSystem.c` |
| `MemoriaProofs`, `ContenidoMemoriaProofs`, `ConsolaProofs`, `ProtocoloMemoriaProofs`, `PilaCPUProofs`, `PeticionesKernelProofs`, `FileSystemProofs`, `PlanificadorProofs` | theorems | |
| `MC*` | instances for TLC | |

### Memoria

`TablaInvertida` keeps the state of `Memoria.c` under its own names. A request
is one action, since the whole reservation runs with `mutexTablaInvertida` held
and Memoria's other requests have the same effect before or after it. The
search is not abstracted: `BuscarPagina` and `FrameParaPagina` go through
`buscarFrameProceso`, so a request whose search does not come back leaves
`servidor` in a state from which nothing else is served: `CUELGA` (it goes round
for ever: it began at frame 0 and found nothing) or `FUERA` (it began at the
last frame and reads past the table). That search is justified by
`BuscarFrameLazo`: the loop of the code, step by step, whose result is proved to
be the one of `FuncionHash` for every table, hash and set of acceptable frames.
A pid is started at most once, as the kernel numbers them, but an end, a page, a
free, a read or a write may come for one that was refused or has ended already
(`kernel.c:1721` may send an end twice). To such an end Memoria frees no frame,
and still takes the most recent entry of that pid out of the cache.

`CacheMemoria` adds what each request does to the cache. `ContenidoMemoria`
forgets the table and looks at bytes: `entradasDeTabla + comienzo + offset` is
arithmetic on a pointer to entries of twelve bytes, so a byte is stored at
twelve times its address, whereas the copy of a page has consecutive bytes.

### Scheduler and CPUs

There is no lock in the kernel. A thread that sees `colaListo` non-empty pops it
in a later step, and `waitSemaforo` and `signalSemaforo` change the value of a
semaphore in a step of their own, after the one that looks at it and moves
entries. The rest is coarser than the calls of the code: the search in
`colaEjecutando`, the move to `colaBloqueado` and the answer of a wait are one
step (`kernel.c:396-419`), so is the walk of a signal over `colaBloqueado` with
the move to `colaListo` (`469-495`), and a pop goes with the push that follows
it. Two threads walking over one list at once, which is undefined for its links,
are left out. The queues hold what the code puts there: the original PCB or a
deserialised copy, entries of blocked processes or the bare PCBs that
`PROCESO_BLOQUEADO` pushes to the same queue. Following a null or wild pointer
sets `kernel` to `"caido"`. A CPU is where it is in the loop of `main`: waiting
for a PCB, executing lines, waiting for the answer to a wait, or gone. A line is
one of a few kinds; what it computes is left out. `TerminarTurno` sends one
message for each of the four checks that holds, or dies after the first one,
because the PCB has been freed. The thread of each CPU starts out of step
(`lectura` is `"enPaso"`, `"corrida"` or `"perdida"`): it reads the second word
of the greeting as a type, and loses the first packet (`RecibirCorrido`). If
that packet closed the turn, the CPU is stranded; if not, later ones are
attended, as `PeticionesKernel` shows word by word.

### The kernel and Memoria

`ProtocoloMemoria` is about one socket. The planner and the threads of the CPUs
send their requests through it; each thread that expects an answer takes the
first word that comes, and nobody takes the answers to `ESCRIBIR_DATOS` and
`FINALIZAR_PROCESO`. Memoria serves the requests in order and grants or refuses
pages as it likes (`TablaInvertida` says when); a search that does not come back
ends the model (`MemoriaCuelga`). The heap is modelled block by block with the
arithmetic of the code: the first page is number -1, sizes are modulo `ANCHO`
(2^32), nothing lowers `tamanioDisponible`. `heapDeBloque` of a new block is never
set, so writing through it either goes unnoticed or ends the kernel
(`OcuparSinBloque`). A CPU is what it reads: a packet is three words, a
notification one, and a notification that nobody took leaves `recvRemasterizado`
out of step. A turn may be closed by two messages (`TerminarDosVeces`), and with
the planning stopped a thread sends an old PCB again (`EnviarSinTomar`), so that
several CPUs run one process: `MaxDeMas` bounds how many PCBs too many there are. The
number of a new page is taken before the request, and the page is put in
`tablaHeap` after the answer (`numero`, `AgregarPagina`), so two threads may give
two pages the same number. The queues of the scheduler are reduced to the ones
the admission of a program looks at; a turn is taken in one step.

### Consola

Each thread is a record with the place where it is; `mutexProcesos` and
`mutexHilosCorrectos` have an owner. The kernel is modelled by how it answers:
a pid or a refusal for each code, a confirmation or a refusal for each end. The
refusal of an end is of type 102 (`FINALIZO_INCORRECTAMENTE`), which the console
does not know, for its own is 686: its packet stays in `listaHilosCorrectos` for
ever, and `MaxRechazos` bounds how many do. The kernel never sends
`IMPRIMIR_INFO`, so the branches of the console for it are not modelled. A packet is
received in three calls of `recv`: with two threads waiting, either one gets it
whole or each gets a part: then nobody gets what it said, and the console is out
of step (`"desfasada"`, the end of the model). `finalizarHilo`
cancels the thread that the field `hilo` names, which `crearPrograma` sets
before `pthread_create`: it is no thread, any program's thread that waits, or the
console dies.

### The stack of a program

`PCBSerializada` writes a PCB as a sequence of cells (an int, an entry of the
index of code, a byte of the labels, a variable) and reads it back by offsets,
as the code does: a reader that looks one cell too early finds the wrong one.
What C leaves without a value is the constant `BASURA`. `PilaCPU` has one
program: `recibirPCBDeKernel` and `enviarPCBAKernel` take its PCB through those
operators, and between them each primitive of a line is an action.
`posicionStackActual` is never changed, so `Contexto` is always the one of the
program; `finalizar` with calls pending empties it, and from then on the promise
of `VariablesFieles` is not claimed (`limpieza`). Where the code uses memory it
has freed (`retornar`, an argument looked up twice, a PCB sent twice) `cpu`
becomes `"indefinida"` and nothing more happens. A program that a semaphore
blocked does not go on from where it was: `signalSemaforo` makes ready the PCB
of `colaProcesos`, the one it began with, and the one the CPU sent back stays in
`colaBloqueado` (`PCBDespues`). It starts again at its first line with an empty
stack, which `VariablesFieles` states (`Bloquear`, `Reiniciar`). With the
planning stopped the thread sends the PCB before the last one
(`enviarPCBAnterior`): the process is then twice in the system (`duplicada`),
and the promise is not claimed either. Memoria is one that caches no page of a
process (`CACHE_X_PROC` 0): the bytes of two places are then apart, twelve times
their offsets, and stay; what a cached page gives back at an offset that is not
0 is in `ContenidoMemoria`.

### Connections and requests

In `Conexiones` a socket is a sequence of pieces: integers of four bytes and the
bodies of packets. A CPU greets with a packet of two integers (`CPU.c:81`) and
`main` reads one (`kernel.c:1938`); the second one, a zero, is the first thing
the thread of that CPU reads, so it takes the type of the first packet for a
length and as many bytes of what follows as have arrived (`RecibirFueraDePaso`).
When that ends inside a piece the thread never finds the boundaries again
(`"perdido"`). `Planificador` keeps of this that the first packet is lost;
`ProtocoloMemoria` is about CPUs that are in step. The body of a packet arrives
whole: the code calls `recv` once for it, and a PCB that TCP delivers in two
pieces, with what follows from it, is not modelled. Memoria reads the greetings
as packets. The client that hangs up makes its `recv` return nothing, with the
type that `malloc` left: if it is 0, the socket is closed and stays in the set,
and `select` fails from then on (`seleccionar`).

`PeticionesKernel` adds the requests of programs. A CPU may close a turn twice and
be sent a PCB it does not expect (`"repite"`, `"destiempo"`); `MaxRepiten` bounds how
many times. The threads of the kernel share
the variables, the tables and `socketFS`, from which whoever reads first gets the
oldest answer. `asignarValorVariableCompartida` is two steps, because it reads
the variable again to answer. The kernel does not greet FileSystem
(`kernel.c:1915`): one that waits to be greeted closes (`FSCorta`). `contestarFS`
is one that was greeted; both are possible, since the line is a comment away.
Paths and flags are read one field too far (`kernel.c:1744`), so any may come out.
A thread that follows an entry that is not there ends the kernel (`Caer`).

### FileSystem

What lasts is the state of the mount point and of the bitmap; `Matar` may end the
process at any step and it starts again over what it left. The start is in
steps: `crearBitmap` leaves an empty file, which the rest of it fills
(`limpiarBitarray`), and `inicializarMmap` maps the file that is there. One that
is empty, because the process that created it died, cannot be mapped, nobody
looks at that, and the server goes on until something touches the bitmap
(`mapa`). The bitmap is at a path of its own (`FileSystem.c:67`, `76`), not in
`PUNTO_MONTAJE`, so that a disk without it has no files with blocks is an
assumption on how the disk starts (`MontajesAssumption`). `archivos` says what
there is at each path: nothing, a directory, an empty file or a file with its
blocks. A removal deletes the file in one step and releases a block per step.
`perdidos` records the marked blocks that no file has, and only the two steps that
lose them write to it: `CuentasClaras` says that there are no others. A `remove`
that fails is answered with `OPERACION_FALLIDA`. The paths are built on memory
nobody cleaned, so any path may come out as one where there is nothing
(`Vistas`), and copied to the one byte of `string_new()`: one that is longer may
end the process there (`Paths`).

## 3. Runs

| Run | Instance | Shows |
|---|---|---|
| `lazo` | 7 frames, every start, every set of candidates | the loop answers as `FuncionHash` says, and ends except when it says it does not |
| `memoria` | 7 frames (1 of the table), 2 processes of up to 4 pages, cache of 3 with 2 per process | the inductive invariant of the table (`IInv`, every conjunct of which is a theorem too), the mutex, the limits of the cache; only its owner lets a frame go, and the end of a process whose pages are each in one frame leaves none |
| `contenido` | 3 pages of 4 bytes, cache of 2, accesses at the first byte | refinement of `PaginasFieles`; no write reaches the bytes of another page |
| `planificador` | 3 programs, 1 CPU, FIFO, one semaphore and an unknown name, ends from outside, degree 0..1, the first packet of the CPU lost | a process is in one place |
| `planificador_dos_cpu` | 2 programs, 2 CPUs, FIFO, one semaphore, the first packet of each CPU lost | no process is executed by two CPUs; only requests that overlap, or a wait of a process that is not in `colaEjecutando`, take the blocked processes away from the value of the semaphore |
| `planificador_detenido` | 2 programs, 1 CPU, RR of 2 lines, planning stopped and resumed, SIGUSR1 | no process disappears, but where a CPU takes a PCB for the answer to a wait |
| `planificador_turnos` | 4 programs without end, 1 CPU, RR, degree 2, fair threads | every ready process executes, unless its CPU is stranded by the packet it lost; the degree is exceeded by one at most |
| `consola` | 3 programs, 2 refused ends | what arrives is what the interface asked for; the two lock orders never meet; each pid gets one thread until a packet is split; an interface whose answer another thread took waits with `mutexProcesos` held |
| `protocolo` | 2 programs, of 1 and 2 requests, 1 CPU, pages of 20 bytes, sizes 6 (leaves a block of negative size) and 11 (too large for a page), one PCB too many | whoever waits for Memoria has a word coming and goes on; a CPU that reserves is answered |
| `pila` | 1 program, names `a` and `b`, argument 0, page of 8 bytes, one page of stack, quantum of 2 lines, 4 lines, 3 places, 1 call per turn, blocks | refinement of `VariablesFieles`, with programs that start again; no two variables share a byte; what the PCB does not change comes back through the wire as it left |
| `peticiones` | 2 CPUs (symmetric), a client that is a console or a stranger, one variable and a name that is none, one path, 3 packets per CPU, one turn closed twice | while Memoria lives it keeps those who live, and only a CPU that left takes it down; no file is ever open; a failed open does not return; packets in order once in step; no operation on a file ends well; values that are current |
| `filesystem` | 2 names, 9 blocks, 4 mount points, 2 descriptors, deaths at any step, the start included | blocks have one file and are accounted for; no file is made; a creation ends the server when it has a block to give or no map; each request is answered or ends the server |

Bounds. Seven frames are the fewest for which the table has a frame of its own,
the hashes of the two processes fall on the last frame, on frame 0 and between
them, and a process can free a page and ask for another one with the memory full
or not. A cache of three with two per process reaches both limits independently.
Two processes are enough for every property of the scheduler that relates two
entries, three for one that waits while one executes and one is blocked. Each
model names its bounds: `MaxPedidos` (requests of heap of a program: one program
with two sees a second reservation and a free after a reservation, the other's
start crosses with them), `MaxDeMas` (PCBs too many: one is a process that runs
twice), `MaxRepiten` (turns closed twice: one leaves a CPU that may read
anything for anything), `MaxRechazos` (refused ends, whose packets no one takes
out of the list: two are one before and one behind a packet somebody looks for),
`Pedidos` (pages per request), `ValorMax` (value of a semaphore; a signal that
would exceed it is not given), `MaxEnCanal` (messages in a socket),
`MaxRepetidas` (entries nobody takes out of a queue, which the code lets grow),
`Pids` (programs). For `pila`, two places fit in the page of stack and the third
one is the last of the page, which Memoria refuses; the labels are one byte
longer than what `malloc` gives; four lines and a quantum of two make up to
three turns, since a turn may end before its quantum (`MAX_VARIABLES`,
`MAX_LLAMADAS` and `MAX_RAFAGAS` are bounds of the model). For `peticiones`,
three packets let a CPU lose the first one, have one attended and wait for an
answer while the other one is somewhere else; bodies are those of names of one
letter (`MaxMensajes`). For `filesystem`, nine blocks are one more than the
bitmap sees, and the mount points are a new one, one with room, one whose block
0 is free, and one whose only room is the block the bitmap does not see. The
accesses of `contenido` begin at the first byte, because the refinement holds of
no others; that no write reaches another page is a theorem for all of them.

Each module states the types of its state as `TypeOK`. All are theorems;
the run of the stack checks its own as well, because there it says that the PCB
comes back with the same code and labels. The runs spend their time on the
properties of the table above.

Deadlock is not checked where the system really stops: a search that returned,
a server that does not come back, a kernel or a console that died. `contenido`
checks it. In `peticiones` CPUs also stop at the bound and wait for ever, and in
`pila` at the bound and at the end of the program. `filesystem` checks it.

Fairness. `SpecJusta` of `Planificador` has weak fairness of
`planificarSistema`, of each `manejadorCPU` and of each CPU process: they are
threads in endless loops that the operating system schedules, and none of them
needs the others to leave an action enabled. Nothing is assumed of the
operators. `Spec` of `FileSystem` has weak fairness of the loop of requests and
of nothing else: no client has to come, and `Matar` may come at any time.
`SpecJusta` of `ProtocoloMemoria` has weak fairness of Memoria, of the planner,
of what the thread of each CPU does once it has a process, and of the two places
where a CPU receives; nothing is assumed of what programs ask, nor of a thread
that looks for a process, for the planning may stay stopped. `BuscarFrameLazo`
is a loop: weak fairness of its step.

## 4. Proofs

All of them hold for every value of the constants under the assumptions the
modules state (`MARCOS` at least 2, pages larger than an entry, natural sizes
and pids).

`MemoriaProofs`, the search. `NadaAtras` is inductive: every frame between the start
and the place of the search has been refused, and a search that begins at the
last frame is still there. With the distance round the table from the start as
measure (`DistanciaInyectiva`: two frames have different distances; `ElPrimero`:
so the first candidate is unique) it gives `LazoExacto`: the loop returns what
`FuncionHash` says.

`MemoriaProofs`, the table. The invariant is `IInv`. None of the properties is
inductive on its own: that `cantidadPaginasLibres` never promises more than there
is (`LibresAcotado`) needs the count of free frames before and after a
reservation, which needs that the frames it takes are free and different; that
`mutexTablaInvertida` is never forgotten (`MutexSuelto`) needs `LibresAcotado`,
for the early return is taken only when the search says there is no frame, and
`NoDiceQueNoHay` shows that it says so, with a candidate left outside frame 0,
only for a start at the last frame, where it does not say it but reads past the
table; that a page of a process has a number below `contadorDePaginasPedidas`
(`PaginasPedidas`) needs that `cantidadDePaginasAsignadas` never exceeds it, which
needs it to be the number of frames of the process (`AsignadasCuentaFrames`). One
lemma per request shows that it keeps `IInv`; the theorems follow, and
`NadieTocaLoAjeno` uses `IInv` for the action property. `FinalizarNoDejaNada` says
that an ended process leaves no frame when each of its pages is in one: each has
a number that is looked for (`PaginasPedidas`), and with one candidate outside
frame 0 the search returns it or does not come back (`NoDiceQueNoHay`).

`MemoriaProofs`, the cache. Every step of the memory is, on the table, a step of
`TablaInvertida` or none: `MemoriaGuardaLaTabla`. The limits of the cache, no page
twice and the types are inductive together (`CacheInv`): an entry is added only
when its page was not found, after one of the same process, or the last of all,
has gone; that the count of the entries of a process follows, entry by entry, is
what most of its lemmas are about. `SoloSeReemplazaLaUltima` needs it to say that
whoever fell was the last one of a full cache, or the most recent one of a
process that Memoria does not list, which an end that comes again takes out.

`ContenidoMemoriaProofs`. `LoAjenoNoSeToca` is arithmetic, for every offset: the
starts of two frames are at least twelve times `MARCOS_SIZE` apart, as addresses
go, and twelve times an offset plus the bytes that Memoria accepts after it is
less than that (`NoSeTocan`). Also for every offset, the types hold and no page
has two entries in the cache (`CacheUnica`), for a write brings only one up to
date. The refinement (`LasPaginasSonFieles`) supposes `DesdeElPrincipio`, that
requests begin at the first byte, because with any other offset the frame and
the copy in the cache put it in different places and the promise is broken
(section 5). Its invariant (`Fiel`) says that each page is in its frame as its
clients left it (`MarcosAlDia`), and in its entry of the cache, if it has one
(`AlDia`): a read that finds it and one that does not send the same bytes.

`PilaCPUProofs`, the wire. `IdaYVuelta`: whatever PCB leaves, the other side reads
the same pid, counter, code, labels, bursts and variables; of its stack only the
first context, without where its value would return (`retVar`). The proof follows
the offsets: each list goes after its length, and what a reader takes is where
the writer put it.

`PilaCPUProofs`, the stack. The invariant says that the variables and arguments in use have
different positions, all below the end of the stack, and that this end is what
`obtenerUltimoPunteroStack` works out from the PCB. That is what makes `SinSolapar`
survive a turn: the PCB arrives as it left (`IdaYVuelta`), so the new end is the
old one. A program that a block starts again has an empty stack and its end
where it began, so the invariant starts again too. While a function has ended
(`limpieza`) only the types are kept.
`TodoEnElPrimero` is part of it, for otherwise the count would miss something.
`PilaImplementaVariables` shows from it that each step is one of `VariablesFieles`:
`asignar` at the position of a variable changes that variable only, because no
other one is there; the variables go away only at the turn after a block
(`Reiniciar`). `Valores` reads each variable at the first entry of its name
in the list; that there is a first one is `HayMinimo`.

`FileSystemProofs`. The invariant is the conjunction of the types,
`BloquesPropios`, `CuentasClaras` and three facts they need: the blocks of a file
and those to be released are each in their list once, so that releasing one
leaves the others marked; a block that an end of the process lost is in no list;
and without a whole bitmap nothing is marked and no process has one mapped, so
that clearing a new one (`limpiarBitarray`) loses nothing, also when the process
died between creating the file and writing it. `CrearFallaOTermina` needs that
bit 0 is free or not as `obtenerBloque` sees it, for every number of blocks, and
that the server has no map only when the file of the bitmap is empty.

`ConsolaProofs`. None of its four properties is inductive: what is on its way
depends on who may have taken the last one. What makes them so is `Ficha`: what
the interface asked for is one thing and in one place, the request, the answer on
its way, the answer in the hands of a thread, in the list, or in the thread of the
program it is about; nothing else is anywhere, unless a packet is split, which ends the
claim of `UnHiloPorPid` but not the other three. An end that was refused leaves
its packet in the list, where it is nobody's. With `Ficha` go who may hold each mutex
and in which steps (`MutexInv`), that the head `crearPrograma` saw is still there
while it waits (`PaquetesInv`), and that pids grow (`PidsInv`). Each action moves
the one thing, and the four properties are read off the place where it is.

`ProtocoloMemoriaProofs`. `EsperaInv` counts: each thread that starts to wait
puts a request, each word taken is taken by one that stops, so there is a word
for each one that waits (`TodosTienenRespuesta`). The number of CPUs may be
infinite, the number of those that wait is not. Nothing keeps a process from
running in two CPUs, and two threads may then number two pages alike; what holds
is that a page has a number at least two below its place in the list
(`PaginasInv`), for the number was the length of the list, less one, when the list
was no longer than now. A pointer names a page by a number that is not negative,
so only a second page can have it, and the kernel gives a page back only for a
process that has two (`DevuelveConDos`). With one CPU no run reaches a second page
number 0, and an instance with two is too large to check, so this property is a
theorem and in no run.

`PeticionesKernelProofs`. The types and `TablasVacias` need that what is in a
socket is what its other end writes; `LosVivosSiguenConectados` that a socket is
closed only for a client that left (`VidaInv`). The others need the conversation
of each CPU with its thread (`ConversacionInv`): what is in the two sockets between
them, piece by piece, and where each is (`EnCompas`). Of a CPU that has closed a
turn twice, and so may read a PCB for the answer to something, only the order of
its packets is known (`Descompasada`); the invariant is per CPU, so the others lose
nothing. A CPU that asked to open a file finds at
most one integer (`AbrirNoVuelve`); the numbers of the packets in the socket
follow one another (`Camino`), up to the last one sent, and so a thread in step
attends the next one (`EnOrden`), while one that ended inside a packet attends none;
the answer on its way to a CPU that asked for a variable is in `vistos`
(`ValorVigente`). How many bytes arrive when a thread starts in the middle is a
function of the stream (`LargoHasta`), about which the first lemmas are.

`PlanificadorProofs`. `NadieSePierde` has no hypothesis: whatever is stopped,
resumed, ended, killed or sent twice. Each action takes an entry from one place
and puts it in another before the next step, except the one that loses the
process: a CPU that reads a PCB where it expects the answer to a wait
(`desfasada`). `GuardadosInv` says so, with what it needs of the sockets: at most
one wait or answer is on its way between a thread and its CPU (`UnAviso`), and what
the first turn of each CPU looks like (`Primeros`). A turn whose closing message
the thread lost keeps its process for ever (`Extraviado`).

`LosListosNoDesbordan` supposes that programs ask for no wait, as the property
says; its invariant counts, beside the ready processes and the turns, the
program the planner is about to admit, and needs that only bare PCBs are ever
blocked, so that a signal makes nobody ready.

`UnaSolaCPU` supposes FIFO and that nobody stops the planning. Each turn is in
one of five phases (the PCB on its way, executing, waiting for the answer to a
wait, ended with its last message on its way, or with that message lost), and a
phase says what the two sockets hold and what the thread may do (`EnFase`). From
them, a process is in one queue or one turn (`UnLugar`), and a turn whose wait has
blocked the process no longer has it (`Tiene`), so that a signal may give it to
another CPU. New pids are in no place (`Conocidos`). Under round robin the last line
of a quantum sends the PCB twice, and with the planning stopped a thread sends
an old one, so neither hypothesis can go. `CadaUnoEnUnLugar` supposes one CPU as
well. It adds that each live process has a place (`Lugares`), which holds for any
number of CPUs, and that a turn whose wait has blocked its process asks for
nothing more before it ends (`Entregado`): a second CPU could make that process
ready meanwhile, and then it would be ready and in the turn that has not ended.

`SoloElCruceDescuadra` has no hypothesis either. While no thread is between the
queue and the value of a semaphore (`Quietas`), the processes it has blocked are
as many as its value owes (`Cuadran`), or they were not before: each action that is
not a request keeps both, a wait or a signal reckons its own change before it is
made, and the only request that keeps the queue and not the value is the wait
of a process with no entry in `colaEjecutando` (`EsperaSinEntrada`). Two threads that
look at one value and both take the semaphore are what the property leaves
out, and with two CPUs they do.

The proofs take no property of the data from outside: `PilaAssumption` and
`MontajesAssumption` say what a PCB of `iniciarPCB` and a mount point are,
`OperacionesAssumption` which operations a line of a program may do,
`ClientesAssumption` that a CPU is no other client, `TamaniosAssumption` that
sizes are naturals (`AccesosAssumption`, the same of Memoria's offsets), that a
page holds two metadata and more and that the width of a pointer is a multiple
of the page, `PidsAssumption` that the kernel numbers programs from 1, and TLC
evaluates them.

Every safety property of the runs, the two refinements among them, is a theorem.
Only model-checked: liveness (`TerminaSiNoCuelga`, `ListoEjecuta`,
`EsperaTermina`, `ReservaContestada`, `ContestaOTermina`), which is out of the
reach of the prover.

## 5. What the models show of the code

Each has a run or a state of a model to look at. Some properties record such a
defect and hold of the code because of it (`TablasVacias`, `AbrirNoVuelve`,
`NingunArchivoNace`): whoever mends it will see them fail, and should.

* A search of a frame that begins at frame 0 and finds nothing never ends; one
  that begins at the last frame reads past the table (`funcionHash.c:49`). With
  legal requests: `servidor` in `TablaInvertida`.
* `LIBERAR_PAGINA` lowers the number the next page takes, so two frames may hold
  the same page and the end gives back one of them: `FinalizarBorraTodo` holds
  only of processes whose pages are each in one frame. The kernel of today
  sends that request only for a process with two pages of heap
  (`SoloDevuelveConDos`), which takes two threads that reserve for it at once.
* `cantidadPaginasLibres` never grows, so a Memoria that has served enough pages
  refuses with every frame free.
* Nobody reads the answers to `ESCRIBIR_DATOS` (`kernel.c:870`): a program Memoria
  refused is made ready, for the answer taken is that of an earlier write.
* A reservation that is refused leaves its CPU waiting (`ReservaContestada`); a free
  that is refused puts the CPU out of step (`recvRemasterizado`).
* `limpiarProcesoDeCache` removes one entry of the process, not all.
* An end may come twice (`kernel.c:1721`); the second one of a pid Memoria no longer
  lists still takes an entry of it out of the cache (`SoloCaeElMenosUsado`).
* Bytes at an offset other than 0 are stored at twelve times it, and the copy in
  the cache has them at it: with accesses at other offsets `ContenidoMemoria` does
  not implement `PaginasFieles`.
* `estado` stays `NUEVO` while a process is ready (`kernel.c:307`): one that was
  ended, with the answer sent to its console, is later sent to a CPU.
* A process woken by a signal before its CPU hands it back is queued as blocked
  as well (`QuedaBloqueado`), as a bare PCB over which `signalSemaforo` walks.
* A program that ends, fails or blocks with the last line of its quantum is
  sent twice (`TerminarTurno`), and with the planning stopped a thread sends an old
  PCB (`kernel.c:1675`): one process may be in two CPUs, reserve in both, and get two
  pages with one number (`TerminarDosVeces`, `EnviarSinTomar`).
* Two requests that overlap on one semaphore lose a wakeup, or block a process
  for nothing (`SoloDescuadraElCruce` says that only they do, and the wait of a
  process that is not in `colaEjecutando`).
* A program that a semaphore blocked starts again at its first line with no
  variables: the PCB made ready is the one of `colaProcesos` (`Reiniciar` in
  `VariablesFieles`).
* The degree of multiprogramming counts `colaListo` only (`ListosAcotados` says by
  how much it is exceeded).
* Two CPU threads that see one ready process: the second pop of an empty queue
  ends the kernel (`TomarListo`).
* A CPU that gets a PCB where it expected the answer to a wait (`RespuestaWait`).
* The console hangs on the end of a program: its thread took the answer and wants
  the mutex of who expects it (`FinEnOtrasManos`).
* Two threads of the console in `recv` at once split a packet; the pid in it is
  lost (`PartirPaquete`), which is why `UnHiloPorPid` is claimed until then.
* The refusal of an end is of a type the console does not know: whoever takes it
  puts it in `listaHilosCorrectos`, where it stays, and the user is told nothing
  (`RecibirFin`).
* The first packet of each CPU is lost, and with it the CPU whose program starts
  by asking, or ends a turn with it (`Varada` in `Planificador`); later ones are
  attended in order (`EnOrden`).
* A CPU that leaves may take Memoria with it, and with Memoria the kernel
  (`LosVivosSiguenConectados` says that only that does).
* No operation on a file works: an entry is made only when there is one
  (`agregarEntradaTG`), the other requests follow entries that are not there, a
  failed open leaves the CPU waiting for a second word, and the success of the
  kernel, 10, is an error for the CPU, whose success is 1 (`TablasVacias`,
  `AbrirNoVuelve`, `ArchivosNuncaSirven`).
* The check for a full stack is never true, and Memoria refuses the last four bytes
  of each page: a variable there can be read and not written (`MemoriaAcepta`).
* Functions share the context of the program, `finalizar` empties it, and
  `retornar` writes through an address nobody set (`TodoEnElPrimero`).
* FileSystem makes no files. With a block to give, a creation ends the process
  (`CrearSoloSinBloques`); over a file, after emptying it. Without one, it leaves
  a directory at the path. Block 0 counts as none, and so do the last
  `cantidad_bloque` modulo 8.
* A FileSystem that dies while it creates the bitmap leaves an empty file that
  can never be mapped: each later process serves until something touches the
  bitmap, and ends there (`mapa`).
* A removal cut short leaves its blocks marked for ever (`perdidos`).

## 6. Not modelled

* `leerBloques`, `guardarBloques` and `crearPathBloque` of FileSystem and what the
  kernel and the CPU do with the data of a file (`mandarALeer`, `guardarArchivo`,
  `mandarAGuardarDatosDeArchivo`): no state of the models reaches them.
  `obtenerDatosDelArchivo` takes the length of the path from the wrong offset and
  copies at least half a gigabyte before, and the tables of the kernel never have
  the entry the others start from.
* What `recvDeNotificacion` returns when the other side has gone (whatever its
  variable held), and a number of socket that the system gives again after
  `close`: both would need the values of memory nobody wrote.
* The race between the keyboard of Memoria and a read (`Memoria.c:745`): `flush`
  frees an entry the loop is about to use, which is undefined.
* The dumps, `size` and `retardo` of Memoria, and the listings of the kernel's
  keyboard: they print, or sleep. Configuration files give the constants.
* The sample programs, the two harnesses for packets and the unused copies of
  `socket.c` under `src/Socket` and `src/pruebaEnvioPaquetes`.

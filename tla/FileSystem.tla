----------------------------- MODULE FileSystem -----------------------------
(***************************************************************************)
(* The server of files: one client, one request at a time.  What lasts of  *)
(* it is on disk: in the mount point the files and the blocks, and at a    *)
(* path of its own (Debug/mnt/SADICA_FS/Metadata, wherever PUNTO_MONTAJE   *)
(* is) the bitmap, which is mapped and shared.  A process that dies leaves *)
(* them as they were at that step, and the next one finds them so.         *)
(*                                                                         *)
(* Paths are put together on memory nobody cleaned (concatenarPath,        *)
(* armarNombreArchivo), so any of them may come out as one where there is  *)
(* nothing; and they are copied to a string_new of one byte, so a long one *)
(* writes over what is next to it.                                         *)
(*                                                                         *)
(* The client is one that greets, and writes its requests as the kernel    *)
(* does.  The kernel itself does not greet (kernel.c:1915).                *)
(***************************************************************************)
EXTENDS Integers, Sequences, FiniteSets

CONSTANTS
  Nombres,
  cantidad_bloque,
  Montajes,      \* the mount points it may start from
  MaxAbiertos    \* files the process can have open

Bloques == 0 .. (cantidad_bloque - 1)

Nada == [tipo |-> "nada", bloques |-> << >>]
Directorio == [tipo |-> "directorio", bloques |-> << >>]
Truncado == [tipo |-> "vacio", bloques |-> << >>]
Entradas == {Nada, Directorio, Truncado} \cup [tipo : {"archivo"}, bloques : Seq(Bloques)]

BloquesDe(entrada) == {entrada.bloques[i] : i \in DOMAIN entrada.bloques}

(* How the disk is taken to start; nothing in the code looks at it.  Each  *)
(* block of a file is in its list once, marked, and of no other file, and  *)
(* nothing else is marked.  As the bitmap is not in the mount point, that  *)
(* files with blocks come with a bitmap is an assumption too.              *)
ASSUME MontajesAssumption ==
  /\ cantidad_bloque \in Nat /\ MaxAbiertos \in Nat
  /\ \A m \in Montajes :
       /\ m.archivos \in [Nombres -> Entradas]
       /\ m.bitmap \in {"falta", "entero"}
       /\ m.marcados = UNION {BloquesDe(m.archivos[n]) : n \in Nombres}
       /\ m.bitmap = "falta" => m.marcados = {}
       /\ \A n \in Nombres :
            LET b == m.archivos[n].bloques IN
            /\ \A i, j \in DOMAIN b : b[i] = b[j] => i = j
            /\ \A o \in Nombres \ {n} : BloquesDe(m.archivos[n]) \cap BloquesDe(m.archivos[o]) = {}

VARIABLES
  archivos,    \* what there is at the path of each name
  bitmap,      \* its file: "falta", "vacio" (no byte in it) or "entero"
  mapa,        \* whether the process has it mapped
  marcados,    \* blocks whose bit is set
  bines,       \* blocks whose file is there
  servidor,    \* "apagado", "creando", "aceptando", "sirviendo", "liberando", "gira", "caido"
  abiertos,    \* files validarArchivo left open
  porLiberar,  \* blocks of the file removed, not released yet
  cliente,     \* "afuera", "conectado", "espera" or "cortado"
  pedido,
  perdidos     \* marked blocks no file has: truncated away, or not released in time

disco == << archivos, bitmap, marcados, bines, perdidos >>
conexion == << cliente, pedido >>
vars == << disco, servidor, mapa, abiertos, porLiberar, conexion >>

Operaciones == {"validar", "crear", "borrar", "obtenerDatos", "guardarDatos", "corto"}
Paths == {"corto", "sin barra", "largo"}
SinPedido == [op |-> "", nombre |-> "", path |-> "corto", respuesta |-> 0]

EXISTE_ARCHIVO == 412
NO_EXISTE_ARCHIVO == 413
OPERACION_FINALIZADA_CORRECTAMENTE == 410
OPERACION_FALLIDA == 411

Init ==
  /\ \E m \in Montajes :
       /\ archivos = m.archivos /\ bitmap = m.bitmap
       /\ marcados = m.marcados /\ bines = m.marcados
  /\ servidor = "apagado" /\ mapa = FALSE /\ abiertos = 0 /\ porLiberar = << >>
  /\ cliente = "afuera" /\ pedido = SinPedido /\ perdidos = {}

-----------------------------------------------------------------------------
(* Start and end of the process.                                           *)

Arrancar(como) ==
  /\ servidor' = como
  /\ abiertos' = 0
  /\ UNCHANGED << archivos, bines, perdidos, porLiberar, conexion >>

(* crearBitmap, up to creat: an empty file.                                *)
crearBitmap ==
  /\ servidor \in {"apagado", "caido"} /\ bitmap = "falta"
  /\ Arrancar("creando")
  /\ bitmap' = "vacio"
  /\ UNCHANGED << mapa, marcados >>

(* The rest of it, and inicializarBitmap with what was written.            *)
limpiarBitarray ==
  /\ servidor = "creando"
  /\ Arrancar("aceptando")
  /\ bitmap' = "entero" /\ mapa' = TRUE /\ marcados' = {}

Mapeado_Limpio == {}

Mapeado == marcados

(* inicializarMmap with the file that is there.  An empty one cannot be    *)
(* mapped, and the process goes on without it.                             *)
inicializarMmap ==
  /\ servidor \in {"apagado", "caido"} /\ bitmap # "falta"
  /\ Arrancar("aceptando")
  /\ mapa' = (bitmap = "entero") /\ marcados' = Mapeado
  /\ UNCHANGED bitmap

(* What was being released stays marked.                                   *)
Terminar(como) ==
  /\ servidor' = como
  /\ cliente' = "afuera" /\ pedido' = SinPedido
  /\ porLiberar' = << >>
  /\ UNCHANGED << bitmap, mapa, marcados, bines, abiertos >>

PorLiberar == {porLiberar[i] : i \in DOMAIN porLiberar}

Matar ==
  /\ servidor \notin {"apagado", "caido"}
  /\ Terminar("apagado")
  /\ perdidos' = perdidos \cup PorLiberar
  /\ UNCHANGED archivos

-----------------------------------------------------------------------------
(* The client.                                                             *)

(* accept and recibirHandshakeDeKernel: one that says another thing is     *)
(* closed, and the next one is waited for.  That step changes nothing.     *)
recibirHandshakeDeKernel ==
  /\ servidor = "aceptando"
  /\ servidor' = "sirviendo"
  /\ cliente' = "conectado"
  /\ UNCHANGED << disco, mapa, abiertos, porLiberar, pedido >>

(* The path has a bar in front and fits in what malloc gives for a byte,   *)
(* or it has no bar, or does not fit.                                      *)
Pedir(op, n, path) ==
  /\ cliente = "conectado"
  /\ cliente' = "espera"
  /\ pedido' = [op |-> op, nombre |-> n, path |-> path, respuesta |-> 0]
  /\ UNCHANGED << disco, servidor, mapa, abiertos, porLiberar >>

Cortar ==
  /\ cliente \in {"conectado", "espera"}
  /\ cliente' = "cortado"
  /\ UNCHANGED << disco, servidor, mapa, abiertos, porLiberar, pedido >>

-----------------------------------------------------------------------------
(* The requests.                                                           *)

Atiende(op) == servidor = "sirviendo" /\ pedido.op = op

(* A client that has left makes the send fail, or the next recv return     *)
(* nothing.                                                                *)
Responder(respuesta) ==
  /\ pedido' = [SinPedido EXCEPT !.respuesta = respuesta]
  /\ \/ /\ cliente = "espera"
        /\ cliente' = "conectado" /\ servidor' = "sirviendo"
     \/ /\ cliente = "cortado"
        /\ cliente' = cliente /\ servidor' \in {"gira", "caido"}

Vistas(n) == {archivos[n], Nada}

PuedeAbrir == abiertos < MaxAbiertos

(* A directory opens as well as a file does, and nothing closes it.        *)
validarArchivo ==
  /\ Atiende("validar")
  /\ \E entrada \in Vistas(pedido.nombre) :
       \/ /\ entrada # Nada /\ PuedeAbrir
          /\ abiertos' = abiertos + 1
          /\ Responder(EXISTE_ARCHIVO)
       \/ /\ entrada = Nada \/ ~PuedeAbrir
          /\ abiertos' = abiertos
          /\ Responder(NO_EXISTE_ARCHIVO)
  /\ UNCHANGED << disco, mapa, porLiberar >>

(* The array of bits has whole bytes only.                                 *)
Bits == 0 .. (8 * (cantidad_bloque \div 8) - 1)

Primero(libres) ==
  IF libres = {} THEN 0 ELSE CHOOSE b \in libres : \A d \in libres : b <= d

obtenerBloque_Todos == Primero(Bloques \ marcados)

(* The first one free, and 0 also when there is none.                      *)
obtenerBloque == Primero(Bits \ marcados)

asignarBloqueArchivo_ConCopia(n, entrada, conDirectorio) ==
  /\ entrada.tipo = "archivo"
  /\ archivos' = [archivos EXCEPT ![n].bloques = Append(@, obtenerBloque)]
  /\ marcados' = marcados \cup {obtenerBloque}
  /\ bines' = bines \cup {obtenerBloque}
  /\ Responder(OPERACION_FINALIZADA_CORRECTAMENTE)
  /\ UNCHANGED << bitmap, mapa, abiertos, porLiberar, perdidos >>

(* A directory, an empty file or nothing have no TAMANIO: reading it ends  *)
(* the process.  A file is opened to be written, which empties it, and     *)
(* the process ends when it appends to a literal.  When no more files can  *)
(* be opened it ends before.                                               *)
asignarBloqueArchivo(n, entrada, conDirectorio) ==
  /\ Terminar("caido")
  /\ \/ /\ entrada.tipo = "archivo" /\ PuedeAbrir
        /\ archivos' = [archivos EXCEPT ![n] = Truncado]
        /\ perdidos' = perdidos \cup BloquesDe(entrada)
     \/ /\ entrada.tipo # "archivo" \/ ~PuedeAbrir
        /\ archivos' = conDirectorio
        /\ perdidos' = perdidos

(* The files after mkdir, which does nothing when the path has no parent.  *)
TrasMkdir(n, entrada) ==
  {archivos} \cup (IF entrada = Nada /\ archivos[n] = Nada
                   THEN {[archivos EXCEPT ![n] = Directorio]} ELSE {})

(* With eight blocks or more there is a bit to read.                       *)
SinMapaQueLeer == ~mapa /\ Bits # {}

crearArchivo ==
  /\ Atiende("crear")
  /\ \E entrada \in Vistas(pedido.nombre) : \E hechos \in TrasMkdir(pedido.nombre, entrada) :
       \/ /\ SinMapaQueLeer
          /\ archivos' = hechos
          /\ Terminar("caido")
          /\ UNCHANGED perdidos
       \/ /\ ~SinMapaQueLeer /\ obtenerBloque = 0
          /\ archivos' = hechos
          /\ Responder(OPERACION_FALLIDA)
          /\ UNCHANGED << bitmap, mapa, marcados, bines, abiertos, porLiberar, perdidos >>
       \/ /\ ~SinMapaQueLeer /\ obtenerBloque # 0
          /\ asignarBloqueArchivo(pedido.nombre, entrada, hechos)

(* seBorroArchivoDeFS, up to remove, which may fail.  The path goes right  *)
(* after "/Archivos": without a bar in front there is nothing there.       *)
VistasSinBarra(n, path) == IF path = "sin barra" THEN {Nada} ELSE Vistas(n)

seBorroArchivoDeFS ==
  /\ Atiende("borrar")
  /\ \E entrada \in VistasSinBarra(pedido.nombre, pedido.path) :
       \/ /\ entrada.tipo = "archivo" /\ PuedeAbrir
          /\ archivos' = [archivos EXCEPT ![pedido.nombre] = Nada]
          /\ servidor' = "liberando"
          /\ porLiberar' = entrada.bloques
          /\ UNCHANGED << bitmap, mapa, marcados, bines, perdidos, abiertos, conexion >>
       \/ /\ entrada.tipo = "archivo" /\ PuedeAbrir
          /\ Responder(OPERACION_FALLIDA)
          /\ UNCHANGED << disco, mapa, abiertos, porLiberar >>
       \/ /\ entrada.tipo # "archivo" \/ ~PuedeAbrir
          /\ Terminar("caido")
          /\ UNCHANGED << archivos, perdidos >>

Liberados_SinElUltimo(b) == IF Len(porLiberar) = 1 THEN {} ELSE {b}

(* bitarray_clean_bit.                                                     *)
Liberados(b) == {b}

Siguientes_LosMismos == porLiberar

Siguientes == Tail(porLiberar)

(* One turn of liberarBloques: the block may be left without being removed.*)
(* There is a map: where there is none no file has blocks.                 *)
liberarBloques ==
  /\ servidor = "liberando" /\ porLiberar # << >>
  /\ bines' \in {bines, bines \ {Head(porLiberar)}}
  /\ marcados' = marcados \ Liberados(Head(porLiberar))
  /\ porLiberar' = Siguientes
  /\ UNCHANGED << archivos, bitmap, mapa, perdidos, servidor, abiertos, conexion >>

ArchivoBorrado ==
  /\ servidor = "liberando" /\ porLiberar = << >>
  /\ Responder(OPERACION_FINALIZADA_CORRECTAMENTE)
  /\ UNCHANGED << disco, mapa, abiertos, porLiberar >>

(* obtenerDatosDelArchivo and guardarDatosArchivo take the first letter of *)
(* the path for a part of its length, and copy that much.  The others copy *)
(* the path: a long one may end the process.                               *)
CopiarDeMas ==
  /\ \/ Atiende("obtenerDatos") \/ Atiende("guardarDatos")
     \/ pedido.path = "largo" /\ (Atiende("validar") \/ Atiende("crear") \/ Atiende("borrar"))
  /\ Terminar("caido")
  /\ UNCHANGED << archivos, perdidos >>

(* CORTO_KERNEL closes the sockets and goes on reading one of them.        *)
CortoKernel ==
  /\ Atiende("corto")
  /\ Terminar("caido")
  /\ UNCHANGED << archivos, perdidos >>

(* The client left with nothing asked: recv returns 0 bytes for ever.      *)
Girar ==
  /\ servidor = "sirviendo" /\ cliente = "cortado" /\ pedido.op = ""
  /\ servidor' = "gira"
  /\ UNCHANGED << disco, mapa, abiertos, porLiberar, conexion >>

Bucle ==
  \/ validarArchivo \/ crearArchivo \/ seBorroArchivoDeFS
  \/ liberarBloques \/ ArchivoBorrado
  \/ CopiarDeMas \/ CortoKernel \/ Girar

Next ==
  \/ crearBitmap \/ limpiarBitarray \/ inicializarMmap \/ Matar
  \/ recibirHandshakeDeKernel
  \/ \E op \in Operaciones, n \in Nombres, path \in Paths : Pedir(op, n, path)
  \/ Cortar
  \/ Bucle

Spec == Init /\ [][Next]_vars /\ WF_vars(Bucle)

-----------------------------------------------------------------------------
(* Properties.                                                             *)

TypeOK ==
  /\ archivos \in [Nombres -> Entradas]
  /\ bitmap \in {"falta", "vacio", "entero"} /\ mapa \in BOOLEAN
  /\ marcados \subseteq Bloques /\ bines \subseteq Bloques /\ perdidos \subseteq Bloques
  /\ servidor \in {"apagado", "creando", "aceptando", "sirviendo", "liberando", "gira", "caido"}
  /\ abiertos \in 0 .. MaxAbiertos
  /\ porLiberar \in Seq(Bloques) /\ (porLiberar # << >> => servidor = "liberando")
  /\ cliente \in {"afuera", "conectado", "espera", "cortado"}
  /\ pedido.op \in Operaciones \cup {""}
  /\ pedido.op # "" => pedido.nombre \in Nombres /\ pedido.path \in Paths
  /\ cliente = "conectado" => servidor = "sirviendo" /\ pedido.op = ""
  /\ pedido.op # "" => servidor \in {"sirviendo", "liberando"}
  /\ servidor = "liberando" => pedido.op = "borrar"

(* Whatever dies and starts again, the blocks of a file are marked, and    *)
(* none of them is of another file or about to be released.                *)
BloquesPropios ==
  \A n \in Nombres :
    /\ BloquesDe(archivos[n]) \subseteq marcados
    /\ BloquesDe(archivos[n]) \cap PorLiberar = {}
    /\ \A o \in Nombres \ {n} : BloquesDe(archivos[n]) \cap BloquesDe(archivos[o]) = {}

Ocupados == UNION {BloquesDe(archivos[n]) : n \in Nombres}

(* A marked block is of a file, or about to be released, or was lost: the  *)
(* file was emptied by a creation, or the process ended while releasing.   *)
(* A removal that ends leaves none behind.                                 *)
CuentasClaras == marcados = Ocupados \cup PorLiberar \cup perdidos

(* The server makes no file and gives none a block.  What there is at a    *)
(* path only becomes a directory, when there was nothing; an empty file,   *)
(* or nothing, when it was a file.  What is not a file stays for ever.     *)
NingunArchivoNace ==
  [][\A n \in Nombres :
       archivos'[n] # archivos[n] =>
         \/ archivos[n] = Nada /\ archivos'[n] = Directorio
         \/ archivos[n].tipo = "archivo" /\ archivos'[n] \in {Truncado, Nada}]_vars

HayParaDar ==
  0 \in marcados /\ \E b \in Bloques : b \notin marcados /\ 8 * ((b \div 8) + 1) <= cantidad_bloque

BitmapSinBits == bitmap = "vacio" /\ cantidad_bloque >= 8

(* A creation whose path fits ends the server exactly when it has a block  *)
(* to give (block 0 is in use and another one, of a whole byte of the      *)
(* bitmap, is free), or when the process has no map to look in, because    *)
(* one before it died with the bitmap created and not written, whatever    *)
(* has ended and started since.  Otherwise it fails and the server goes on.*)
CrearSoloSinBloques ==
  [][Atiende("crear") /\ pedido.path # "largo" /\ cliente = "espera" /\ pedido'.op = ""
       /\ servidor' # "apagado" =>
       IF BitmapSinBits \/ HayParaDar THEN servidor' = "caido"
       ELSE servidor' = "sirviendo" /\ pedido'.respuesta = OPERACION_FALLIDA]_vars

(* A request is answered or the server ends, however many blocks it has to *)
(* release.                                                                *)
ContestaOTermina == (servidor \in {"sirviendo", "liberando"} /\ pedido.op # "") ~> (pedido.op = "")
=============================================================================

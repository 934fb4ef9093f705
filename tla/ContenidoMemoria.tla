-------------------------- MODULE ContenidoMemoria --------------------------
(***************************************************************************)
(* What the pages of Memoria contain, in the frames and in the cache.      *)
(* almacenarBytesEnMemoria and leerDatos reach a byte of a frame as        *)
(* entradasDeTabla + comienzo + offset, and entradasDeTabla points to      *)
(* entries of twelve bytes: the address is twelve times that offset.  A    *)
(* page enters the cache as the MARCOS_SIZE bytes that follow the address  *)
(* of its first one.  Where each page is, module TablaInvertida decides:   *)
(* here it is given, and the frames are those whose address is still       *)
(* inside the memory (with 500 frames of 256 bytes the frames 24 to 40;    *)
(* the others are past the end of what malloc returned).                   *)
(***************************************************************************)
EXTENDS Integers, FiniteSets, SequencesExt

CONSTANTS
  MARCOS_SIZE, ENTRADAS_CACHE, CACHE_X_PROC,
  Claves,      \* the pages, as [pid, numPagina]
  Marco,       \* page -> its frame
  Bytes,       \* the byte values a write may carry
  Accesos,     \* the [offset, tamanio] of a request
  ByteInicial  \* what the memory holds before

TamEntradaTabla == 12

ASSUME ContenidoAssumption ==
  /\ MARCOS_SIZE \in Nat \ {0}
  /\ ENTRADAS_CACHE \in Nat \ {0}
  /\ CACHE_X_PROC \in Nat
  /\ Marco \in [Claves -> Nat]
  /\ \A c, d \in Claves : Marco[c] = Marco[d] => c = d

ASSUME AccesosAssumption == Accesos \subseteq [offset : Nat, tamanio : Nat]

VARIABLES
  memoriaSistema,  \* address -> byte, the addresses written so far
  cacheDeMemoria,  \* entries [clave, contenido], most recently used first
  contenidoLogico, \* what the clients were told their pages hold
  leido            \* the bytes the last read sent

vars == << memoriaSistema, cacheDeMemoria, contenidoLogico, leido >>

Offsets == 0 .. (MARCOS_SIZE - 1)

(* entradasDeTabla + k, as a byte address. *)
EnTabla(k) == TamEntradaTabla * k

Comienzo_SinTamanio(clave) == Marco[clave]

Comienzo(clave) == Marco[clave] * MARCOS_SIZE

ByteEn(memoria, dir) == IF dir \in DOMAIN memoria THEN memoria[dir] ELSE ByteInicial

(* memcpy of tamanio equal bytes to an address.                            *)
Copiar(memoria, dir, tamanio, byte) ==
  [d \in (dir .. (dir + tamanio - 1)) \cup DOMAIN memoria |->
     IF d \in dir .. (dir + tamanio - 1) THEN byte ELSE memoria[d]]

espacioInsuficienteParaLaPagina(acceso) ==
  MARCOS_SIZE - acceso.offset <= acceso.tamanio

EnCache(clave) == {i \in DOMAIN cacheDeMemoria : cacheDeMemoria[i].clave = clave}

DelProceso(pid) == {i \in DOMAIN cacheDeMemoria : cacheDeMemoria[i].clave.pid = pid}

ConByte(contenido, acceso, byte) ==
  [o \in Offsets |-> IF o \in acceso.offset .. (acceso.offset + acceso.tamanio - 1)
                     THEN byte ELSE contenido[o]]

(* The page as agregarACache copies it.                                    *)
CopiaDeMarco(memoria, clave) ==
  [o \in Offsets |-> ByteEn(memoria, EnTabla(Comienzo(clave)) + o)]

-----------------------------------------------------------------------------
Init ==
  /\ memoriaSistema = << >>
  /\ cacheDeMemoria = << >>
  /\ contenidoLogico = [c \in Claves |-> [o \in Offsets |-> ByteInicial]]
  /\ leido = << >>

actualizarDatosDeCache_SoloOrden(i, acceso, byte) ==
  <<cacheDeMemoria[i]>> \o RemoveAt(cacheDeMemoria, i)

actualizarDatosDeCache(i, acceso, byte) ==
  <<[cacheDeMemoria[i] EXCEPT !.contenido = ConByte(@, acceso, byte)]>>
    \o RemoveAt(cacheDeMemoria, i)

agregarACache(clave, contenido) ==
  IF Cardinality(DelProceso(clave.pid)) >= CACHE_X_PROC
  THEN cacheDeMemoria
  ELSE <<[clave |-> clave, contenido |-> contenido]>> \o
         (IF Len(cacheDeMemoria) >= ENTRADAS_CACHE
          THEN RemoveAt(cacheDeMemoria, ENTRADAS_CACHE) ELSE cacheDeMemoria)

(* ESCRIBIR_DATOS of a page that has a frame, with room for the bytes.     *)
almacenarBytesEnMemoria(clave, acceso, byte) ==
  /\ ~espacioInsuficienteParaLaPagina(acceso)
  /\ memoriaSistema' = Copiar(memoriaSistema,
                              EnTabla(Comienzo(clave) + acceso.offset),
                              acceso.tamanio, byte)
  /\ \/ \E i \in EnCache(clave) :
          cacheDeMemoria' = actualizarDatosDeCache(i, acceso, byte)
     \/ /\ EnCache(clave) = {}
        /\ cacheDeMemoria' = agregarACache(clave, CopiaDeMarco(memoriaSistema', clave))
  /\ contenidoLogico' =
       [contenidoLogico EXCEPT ![clave] = ConByte(@, acceso, byte)]
  /\ UNCHANGED leido

(* LEER_DATOS, from the cache and from the frame.                          *)
leerDeCache(clave, acceso) ==
  \E i \in EnCache(clave) :
    /\ leido' = [k \in 1 .. acceso.tamanio |->
                   cacheDeMemoria[i].contenido[acceso.offset + k - 1]]
    /\ cacheDeMemoria' = <<cacheDeMemoria[i]>> \o RemoveAt(cacheDeMemoria, i)
    /\ UNCHANGED << memoriaSistema, contenidoLogico >>

leerDeMarco(clave, acceso) ==
  /\ EnCache(clave) = {}
  /\ leido' = [k \in 1 .. acceso.tamanio |->
                 ByteEn(memoriaSistema,
                        EnTabla(Comienzo(clave) + acceso.offset) + k - 1)]
  /\ UNCHANGED << memoriaSistema, cacheDeMemoria, contenidoLogico >>

flushCache ==
  /\ cacheDeMemoria' = << >>
  /\ UNCHANGED << memoriaSistema, contenidoLogico, leido >>

Next ==
  \/ \E clave \in Claves, acceso \in Accesos :
       \/ \E byte \in Bytes : almacenarBytesEnMemoria(clave, acceso, byte)
       \/ leerDeCache(clave, acceso)
       \/ leerDeMarco(clave, acceso)
  \/ flushCache

Spec == Init /\ [][Next]_vars

-----------------------------------------------------------------------------
(* Properties.                                                             *)

TypeOK ==
  /\ \A d \in DOMAIN memoriaSistema : d \in Nat /\ memoriaSistema[d] \in Bytes
  /\ cacheDeMemoria \in
       Seq([clave : Claves, contenido : [Offsets -> Bytes \cup {ByteInicial}]])
  /\ contenidoLogico \in [Claves -> [Offsets -> Bytes \cup {ByteInicial}]]

(* A read returns what was written last: the pages are as module           *)
(* PaginasFieles promises.                                                 *)
Promesa == INSTANCE PaginasFieles
             WITH MARCOS_SIZE <- MARCOS_SIZE, Claves <- Claves, Bytes <- Bytes,
                  Accesos <- Accesos, ByteInicial <- ByteInicial,
                  contenidoLogico <- contenidoLogico, leido <- leido

LecturaFiel == Promesa!Spec

(* Putting bytes in a page changes no byte of the frame of another page    *)
(* that a read of that one could return.                                   *)
AjenoIntacto ==
  [][\A c, d \in Claves :
       c # d /\ contenidoLogico'[c] # contenidoLogico[c] =>
         \A o \in Offsets : \A k \in 0 .. (MARCOS_SIZE - 1 - o) :
           LET dir == EnTabla(Comienzo(d) + o) + k
           IN  ByteEn(memoriaSistema', dir) = ByteEn(memoriaSistema, dir)]_vars
=============================================================================

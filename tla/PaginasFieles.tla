--------------------------- MODULE PaginasFieles ----------------------------
(***************************************************************************)
(* What the clients of Memoria are promised about the contents of their    *)
(* pages: a write that is answered with success has put its bytes there,   *)
(* and a read returns the bytes put there last.                            *)
(***************************************************************************)
EXTENDS Integers

CONSTANTS
  MARCOS_SIZE, \* bytes of a page
  Claves,      \* the pages, as [pid, numPagina]
  Bytes,       \* the byte values
  Accesos,     \* the [offset, tamanio] of a request
  ByteInicial  \* what a page holds before it is written

VARIABLES
  contenidoLogico,  \* page -> offset -> byte
  leido             \* the bytes the last read returned

OffsetsDe(acceso) == acceso.offset .. (acceso.offset + acceso.tamanio - 1)

Init ==
  /\ contenidoLogico = [c \in Claves |-> [o \in 0 .. (MARCOS_SIZE - 1) |-> ByteInicial]]
  /\ leido = << >>

Escribir(clave, acceso, byte) ==
  /\ contenidoLogico' =
       [contenidoLogico EXCEPT ![clave] =
          [o \in DOMAIN @ |-> IF o \in OffsetsDe(acceso) THEN byte ELSE @[o]]]
  /\ UNCHANGED leido

Leer(clave, acceso) ==
  /\ leido' = [i \in 1 .. acceso.tamanio |->
                 contenidoLogico[clave][acceso.offset + i - 1]]
  /\ UNCHANGED contenidoLogico

Next ==
  \E clave \in Claves, acceso \in Accesos :
    (\E byte \in Bytes : Escribir(clave, acceso, byte)) \/ Leer(clave, acceso)

vars == << contenidoLogico, leido >>

Spec == Init /\ [][Next]_vars
=============================================================================

------------------------- MODULE MCContenidoMemoria -------------------------
(* Two pages of process 1 and one of process 2 in frames 1, 2 and 3, pages *)
(* of four bytes, a cache of two entries.                                  *)
EXTENDS ContenidoMemoria

P1 == [pid |-> 1, numPagina |-> 0]
P2 == [pid |-> 1, numPagina |-> 1]
Q1 == [pid |-> 2, numPagina |-> 0]

MCClaves == {P1, P2, Q1}

MCMarco == [c \in MCClaves |-> IF c = P1 THEN 1 ELSE IF c = P2 THEN 2 ELSE 3]

MCBytes == {1, 2}

(* Requests at the first byte, as those of the kernel for the code.        *)
AccesosAlInicio == {[offset |-> 0, tamanio |-> 1], [offset |-> 0, tamanio |-> 2]}
=============================================================================

--------------------------- MODULE PCBSerializada ---------------------------
(***************************************************************************)
(* The PCB as it travels between the kernel and a CPU.  A message is the   *)
(* sequence of the fields memcpy puts one after the other: an int, a whole *)
(* entry of the index of code, a byte of the labels and a whole variable   *)
(* (its name, page, offset and size, 13 bytes) are one cell each, for both *)
(* sides go over their parts in the same order.  The kernel and the CPU    *)
(* have a copy each of the same functions.                                 *)
(***************************************************************************)
EXTENDS Integers, Sequences

CONSTANT BASURA \* what an int nobody wrote holds

ASSUME BasuraAssumption == BASURA \notin Int

(* iniciarPCB sets these two and nothing assigns them afterwards; the      *)
(* elements of a list are counted from 1 here.                             *)
TAMANIO_CONTEXTO == 1

POSICION_STACK_ACTUAL == 0

serializarVariable(variables) == <<Len(variables)>> \o variables

(* After retPos it moves on by the size of a direccion, without writing    *)
(* retVar: eight bytes of the gap stay as malloc left them.                *)
serializarStack(pila) ==
  LET contexto == pila[TAMANIO_CONTEXTO]
  IN  <<contexto.pos>> \o serializarVariable(contexto.args)
        \o serializarVariable(contexto.vars) \o <<contexto.retPos, BASURA, BASURA>>

Encabezado(pcb) ==
  <<pcb.pid, pcb.programCounter, pcb.cantidadPaginasCodigo, Len(pcb.indiceCodigo)>>
    \o pcb.indiceCodigo \o <<Len(pcb.indiceEtiquetas)>> \o pcb.indiceEtiquetas

serializarPCB(pcb) ==
  Encabezado(pcb) \o <<pcb.rafagas, POSICION_STACK_ACTUAL, TAMANIO_CONTEXTO>>
    \o serializarStack(pcb.indiceStack)

-----------------------------------------------------------------------------
(* dondeEstoy is the cell of the number of variables.                      *)
desserializarVariables(mensaje, dondeEstoy) ==
  SubSeq(mensaje, dondeEstoy + 1, dondeEstoy + mensaje[dondeEstoy])

(* retVar is read from the gap.                                            *)
desserializarContexto(mensaje, dondeEstoy) ==
  LET enArgs == dondeEstoy + 1
      enVars == enArgs + mensaje[enArgs] + 1
      enRet  == enVars + mensaje[enVars] + 1
  IN  [pos    |-> mensaje[dondeEstoy],
       args   |-> desserializarVariables(mensaje, enArgs),
       vars   |-> desserializarVariables(mensaje, enVars),
       retPos |-> mensaje[enRet],
       retVar |-> BASURA]

desserializarTIntructions_Corto(mensaje) == SubSeq(mensaje, 4, 3 + mensaje[4])

desserializarTIntructions(mensaje) == SubSeq(mensaje, 5, 4 + mensaje[4])

deserializarPCB(mensaje) ==
  LET enEtiquetas == 5 + mensaje[4]
      enRafagas   == enEtiquetas + mensaje[enEtiquetas] + 1
  IN  [pid |-> mensaje[1],
       programCounter |-> mensaje[2],
       cantidadPaginasCodigo |-> mensaje[3],
       indiceCodigo |-> desserializarTIntructions(mensaje),
       indiceEtiquetas |->
         SubSeq(mensaje, enEtiquetas + 1, enEtiquetas + mensaje[enEtiquetas]),
       rafagas |-> mensaje[enRafagas],
       indiceStack |-> <<desserializarContexto(mensaje, enRafagas + 3)>>]

(* The same two functions in the kernel.                                   *)
serializarPCBKernel(pcb) == serializarPCB(pcb)

deserializarPCBKernel(mensaje) == deserializarPCB(mensaje)
=============================================================================

------------------------------ MODULE MCPilaCPU ------------------------------
(* A program of one page of code, a page of stack with two places (the     *)
(* third one is the last of the page) and a heap page behind it, labels    *)
(* longer than what malloc gives.                                          *)
EXTENDS PilaCPU

MCPCBInicial ==
  [pid |-> 1, programCounter |-> 0, cantidadPaginasCodigo |-> 1,
   indiceCodigo |-> <<0, 9>>, indiceEtiquetas |-> <<101, 102>>,
   rafagas |-> 0,
   indiceStack |->
     <<[pos |-> 0, args |-> << >>, vars |-> << >>, retPos |-> BASURA, retVar |-> BASURA]>>]

MCSaltos == {-1}
=============================================================================

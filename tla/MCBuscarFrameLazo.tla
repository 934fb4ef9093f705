------------------------- MODULE MCBuscarFrameLazo --------------------------
(* Every set of candidates and every start, in a table of seven frames.    *)
EXTENDS BuscarFrameLazo
=============================================================================

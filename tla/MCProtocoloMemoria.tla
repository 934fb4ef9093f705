--------------------------- MODULE MCProtocoloMemoria ---------------------------
(* Pages of 20 bytes: one size leaves a block of negative size, the other  *)
(* is too large for a page.                                                *)
EXTENDS ProtocoloMemoria

DosPids == 1 .. 2
(* The second one may run although Memoria refused it.                    *)
MCPedidos == (1 :> 1) @@ (2 :> 2)
MCTamanios == {6, 11}
=============================================================================

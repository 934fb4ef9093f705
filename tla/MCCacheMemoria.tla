--------------------------- MODULE MCCacheMemoria ---------------------------
(* Two processes of up to four pages over five data frames and a cache of  *)
(* three entries, at most two of them of one process.  One of the accesses *)
(* fits a page of 100 bytes, the other one fills it to its end.            *)
EXTENDS CacheMemoria

MCPids == 2 .. 3

MCPedidos == 1 .. 2

MCAccesos == {[offset |-> 0, tamanio |-> 4], [offset |-> 96, tamanio |-> 4]}
=============================================================================

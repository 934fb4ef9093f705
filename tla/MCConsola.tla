----------------------------- MODULE MCConsola ------------------------------
(* A user that starts up to three programs, and up to two ends refused.    *)
EXTENDS Consola

MCPids == 1 .. 3
=============================================================================

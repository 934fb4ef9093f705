------------------------- MODULE MCPeticionesKernel -------------------------
(* One variable and a name that is none; beside the CPUs, of which nothing *)
(* depends on which is which, a client that is a console or a stranger.    *)
EXTENDS PeticionesKernel

MCVariables == {"v"}
MCNombres == {"v", "inexistente"}
MCValores == {0, 1}
MCRutas == {"ruta"}
TodasLasOperaciones == {"signal"} \cup OperacionesDeVariable \cup OperacionesDeArchivo
MCSimetria == Permutations(CPUs)
=============================================================================

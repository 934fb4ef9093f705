-------------------------- MODULE BuscarFrameLazo ---------------------------
(***************************************************************************)
(* The loop of buscarFrameProceso (funcionHash.c), one action per branch   *)
(* of its body.  The predicate it is given, esPaginaLibre or               *)
(* esElFrameCorrecto, is the set of the frames it accepts; both refuse     *)
(* frame 0, which belongs to the table.                                    *)
(***************************************************************************)
EXTENDS FuncionHash

VARIABLES
  candidatos,     \* the frames funcionMagica accepts
  deDondeEmpiezo, \* the hash of the page
  paginaDeHash,   \* the frame looked at last
  pc,             \* "primera", "lazo", "fin"
  resultado

varsLazo == << candidatos, deDondeEmpiezo, paginaDeHash, pc, resultado >>

InitLazo ==
  /\ candidatos \in SUBSET (Frames \ {0})
  /\ deDondeEmpiezo \in Frames
  /\ paginaDeHash = deDondeEmpiezo
  /\ pc = "primera"
  /\ resultado = NO_ENCONTRADO

Devolver(r) ==
  /\ pc' = "fin"
  /\ resultado' = r
  /\ UNCHANGED << candidatos, deDondeEmpiezo, paginaDeHash >>

(* The frame given by the hash is looked at before the loop.               *)
HashCorrecto ==
  /\ pc = "primera"
  /\ deDondeEmpiezo \in candidatos
  /\ Devolver(deDondeEmpiezo)

HashIncorrecto ==
  /\ pc = "primera"
  /\ deDondeEmpiezo \notin candidatos
  /\ pc' = "lazo"
  /\ UNCHANGED << candidatos, deDondeEmpiezo, paginaDeHash, resultado >>

(* The second increment, at the end of the body, is commented out.         *)
Siguiente == paginaDeHash + 1

(* YA DI TODA LA VUELTA *)
VueltaCompleta ==
  /\ pc = "lazo"
  /\ Siguiente = deDondeEmpiezo
  /\ Devolver(NO_ENCONTRADO)

Encontrada ==
  /\ pc = "lazo"
  /\ Siguiente # deDondeEmpiezo
  /\ Siguiente \in candidatos
  /\ Devolver(Siguiente)

(* entradasDeTabla[MARCOS] is not an entry: undefined from here on.        *)
LeerFuera ==
  /\ pc = "lazo"
  /\ Siguiente = MARCOS
  /\ Devolver(FUERA)

(* The last frame is not the one either: paginaDeHash becomes 0, and the   *)
(* next iteration looks at 1.                                              *)
AlPrincipio_Saltea(p) == IF p = MARCOS - 1 THEN 1 ELSE p

AlPrincipio(p) == IF p = MARCOS - 1 THEN 0 ELSE p

Avanzar ==
  /\ pc = "lazo"
  /\ Siguiente # deDondeEmpiezo
  /\ Siguiente # MARCOS
  /\ Siguiente \notin candidatos
  /\ paginaDeHash' = AlPrincipio(Siguiente)
  /\ UNCHANGED << candidatos, deDondeEmpiezo, pc, resultado >>

NextLazo ==
  \/ HashCorrecto
  \/ HashIncorrecto
  \/ VueltaCompleta
  \/ Encontrada
  \/ LeerFuera
  \/ Avanzar

(* The loop is straight code of one thread: nothing keeps it from going on. *)
SpecLazo == InitLazo /\ [][NextLazo]_varsLazo /\ WF_varsLazo(NextLazo)

-----------------------------------------------------------------------------
(* Properties.                                                             *)

Prometido == buscarFrameProceso(deDondeEmpiezo, candidatos)

TypeOKLazo ==
  /\ candidatos \subseteq Frames \ {0}
  /\ deDondeEmpiezo \in Frames
  /\ paginaDeHash \in Frames
  /\ pc \in {"primera", "lazo", "fin"}
  /\ resultado \in Frames \cup {NO_ENCONTRADO, FUERA}

(* What the loop returns is what FuncionHash says: the first candidate in  *)
(* the order of the search, and NO_ENCONTRADO only when there is none.     *)
ResultadoExacto == pc = "fin" => resultado = Prometido

(* How far the search is from its start, in the order of FuncionHash.      *)
Recorrido == Distancia(deDondeEmpiezo, paginaDeHash)

(* Inductive: no candidate lies on the part of the circle already walked,  *)
(* and a search that starts at the last frame is still there.              *)
NadaAtras ==
  /\ pc = "primera" => paginaDeHash = deDondeEmpiezo
  /\ pc = "lazo" =>
       /\ deDondeEmpiezo \notin candidatos
       /\ \A g \in candidatos : Distancia(deDondeEmpiezo, g) > Recorrido
       /\ deDondeEmpiezo = MARCOS - 1 => paginaDeHash = MARCOS - 1
       /\ deDondeEmpiezo # MARCOS - 1 => paginaDeHash # MARCOS - 1

(* The loop ends in every case but the one FuncionHash calls CUELGA.       *)
TerminaSiNoCuelga == Prometido # CUELGA ~> pc = "fin"
=============================================================================

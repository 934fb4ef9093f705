---------------------------- MODULE FuncionHash -----------------------------
(***************************************************************************)
(* funcionHash.c of the Memoria process: where a page is looked for first  *)
(* and what the circular search over the inverted table answers.  The      *)
(* search loop itself, one step per iteration, is module BuscarFrameLazo.  *)
(***************************************************************************)
EXTENDS Integers

CONSTANT MARCOS   \* frames of the memory (memoria.config)

ASSUME MarcosAssumption == MARCOS \in Nat /\ MARCOS > 1

Frames == 0 .. (MARCOS - 1)

(* Answers that are not frames of the table.                               *)
NO_ENCONTRADO == -1   \* the value the code returns
CUELGA        == -2   \* the loop never ends
FUERA         == -3   \* the loop reads past the last entry of the table

(* The call does not come back, or comes back from outside the table.      *)
NoVuelve(resultado) == resultado \in {CUELGA, FUERA}

(* sprintf("%d%d") of both numbers, read back with atoi.                   *)
Desplazamiento(pagina) ==
  IF pagina < 10 THEN 10
  ELSE IF pagina < 100 THEN 100 ELSE IF pagina < 1000 THEN 1000 ELSE 10000

calcularPosicion(pid, pagina) ==
  (pid * Desplazamiento(pagina) + pagina) % MARCOS

(* After an unsuccessful look at the start h the search moves on to h+1,   *)
(* and from MARCOS-1 to 1: frame 0 is only ever looked at as a start, and  *)
(* a search that starts at MARCOS-1 does not wrap.                         *)
Visitados(h) == IF h = MARCOS - 1 THEN {h} ELSE {h} \cup (Frames \ {0})

Distancia(h, f) == IF f >= h THEN f - h ELSE MARCOS - 1 - h + f

(* buscarFrameProceso: the first of the frames that satisfy the predicate  *)
(* in the order of the search that starts at h.  The start is recognised   *)
(* again only when the search can come back to it.                         *)
buscarFrameProceso(h, candidatos) ==
  LET vistos == candidatos \cap Visitados(h) IN
  IF vistos # {}
  THEN CHOOSE f \in vistos : \A g \in vistos : Distancia(h, f) <= Distancia(h, g)
  ELSE IF h = MARCOS - 1 THEN FUERA
  ELSE IF h = 0 THEN CUELGA ELSE NO_ENCONTRADO
=============================================================================

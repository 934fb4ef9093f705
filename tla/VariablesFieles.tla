--------------------------- MODULE VariablesFieles ---------------------------
(***************************************************************************)
(* What becomes of the variables of a program: each keeps the value it was *)
(* given last, whoever executes the program meanwhile, until the program   *)
(* is blocked, which makes it start again without variables.  This is kept *)
(* while fiel.                                                             *)
(***************************************************************************)
CONSTANTS NOMBRES, VALORES

VARIABLES
  valores,   \* the value of each variable that was declared
  bloqueado, \* a wait blocked the program, and it was not taken away yet
  fiel

Init ==
  /\ valores = << >>
  /\ bloqueado = FALSE
  /\ fiel = TRUE

(* A variable is declared with any value; declaring it again changes       *)
(* nothing.                                                                *)
Declarar(n) ==
  /\ fiel
  /\ \E v \in VALORES :
       valores' = [m \in DOMAIN valores \cup {n} |->
                     IF m \in DOMAIN valores THEN valores[m] ELSE v]
  /\ UNCHANGED << bloqueado, fiel >>

Dar(n, v) ==
  /\ fiel
  /\ valores' = [valores EXCEPT ![n] = v]
  /\ UNCHANGED << bloqueado, fiel >>

Bloquear ==
  /\ ~bloqueado /\ bloqueado' = TRUE
  /\ UNCHANGED << valores, fiel >>

(* Whatever the program had broken, it starts again.                       *)
Reiniciar ==
  /\ bloqueado /\ ~bloqueado'
  /\ valores' = << >>
  /\ fiel'

(* A function gives back its variables, the program broke its own stack,   *)
(* or there are two of it.                                                 *)
Romper == ~fiel'

Next ==
  \/ \E n \in NOMBRES : Declarar(n)
  \/ \E n \in DOMAIN valores, v \in VALORES : Dar(n, v)
  \/ Bloquear
  \/ Reiniciar
  \/ Romper

vars == << valores, bloqueado, fiel >>

Spec == Init /\ [][Next]_vars
=============================================================================

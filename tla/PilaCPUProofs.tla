---------------------------- MODULE PilaCPUProofs ----------------------------
(***************************************************************************)
(* The PCB and the stack it carries, proved: the trip over the wire for    *)
(* every index of code, every table of labels and every number of          *)
(* variables and arguments; the layout of the stack in the CPU for every   *)
(* size of page, every quantum and every number of variables, arguments,   *)
(* calls and turns; and that the stack implements variables that keep what *)
(* they were given until the program blocks, as VariablesFieles says.      *)
(***************************************************************************)
EXTENDS PilaCPU, SequenceTheorems, FiniteSetTheorems, WellFoundedInduction,
        TLAPS

(* A non-empty set of naturals has a least element.                        *)
LEMMA HayMinimo ==
  ASSUME NEW T \in SUBSET Nat, T # {}
  PROVE  \E n \in T : \A m \in T : n <= m
<1> DEFINE Menor == {ss \in Nat \X Nat : ss[1] < ss[2]}
<1>1. IsWellFoundedOn(Menor, Nat)
  BY NatLessThanWellFounded, Zenon DEF OpToRel
<1>2. PICK n \in T : \A m \in T : <<m, n>> \notin Menor
  <2> HIDE DEF Menor
  <2>1. QED
    BY <1>1, WFMin
<1>3. ASSUME NEW m \in T
      PROVE  n <= m
  <2>1. <<m, n>> \notin Menor
    BY <1>2
  <2>2. ~(m < n)
    BY <2>1
  <2>3. QED
    BY <2>2
<1>4. QED
  BY <1>3

(* The trip of a PCB over the wire.                                        *)

(* What a concatenation of two sequences holds, and that cutting it gives  *)
(* them back.                                                              *)
LEMMA Concatenadas ==
  ASSUME NEW S, NEW s \in Seq(S), NEW t \in Seq(S)
  PROVE  /\ s \o t \in Seq(S)
         /\ Len(s \o t) = Len(s) + Len(t)
         /\ \A i \in 1 .. Len(s) : (s \o t)[i] = s[i]
         /\ \A i \in 1 .. Len(t) : (s \o t)[Len(s) + i] = t[i]
<1>1. /\ s \o t \in Seq(S)
      /\ Len(s \o t) = Len(s) + Len(t)
      /\ \A i \in 1 .. Len(s) + Len(t) :
           (s \o t)[i] = IF i <= Len(s) THEN s[i] ELSE t[i - Len(s)]
  BY ConcatProperties
<1>2. Len(s) \in Nat /\ Len(t) \in Nat
  OBVIOUS
<1>3. \A i \in 1 .. Len(s) : (s \o t)[i] = s[i]
  BY <1>1, <1>2
<1>4. ASSUME NEW i \in 1 .. Len(t)
      PROVE  (s \o t)[Len(s) + i] = t[i]
  <2>1. Len(s) + i \in 1 .. Len(s) + Len(t) /\ ~(Len(s) + i <= Len(s))
        /\ Len(s) + i - Len(s) = i
    BY <1>2
  <2> QED
    BY <1>1, <2>1
<1> QED
  BY <1>1, <1>3, <1>4

(* A sequence whose elements from d + 1 on are those of t, cut there.      *)
LEMMA Recorte ==
  ASSUME NEW S, NEW m \in Seq(S), NEW t \in Seq(S), NEW d \in Nat,
         d + Len(t) <= Len(m),
         \A i \in 1 .. Len(t) : m[d + i] = t[i]
  PROVE  SubSeq(m, d + 1, d + Len(t)) = t
<1>1. Len(t) \in Nat /\ Len(m) \in Nat
  OBVIOUS
<1>2. SubSeq(m, d + 1, d + Len(t)) =
        [i \in 1 .. Len(t) |-> m[i + (d + 1) - 1]]
  BY <1>1
<1>3. \A i \in 1 .. Len(t) : i + (d + 1) - 1 = d + i
  BY <1>1
<1>4. [i \in 1 .. Len(t) |-> m[i + (d + 1) - 1]] = [i \in 1 .. Len(t) |-> t[i]]
  BY <1>3
<1>5. t = [i \in 1 .. Len(t) |-> t[i]]
  OBVIOUS
<1> QED
  BY <1>2, <1>4, <1>5

-----------------------------------------------------------------------------
(* A PCB whose variables are the members of V.                             *)
ContextosDe(V) ==
  [pos : Int, args : Seq(V), vars : Seq(V), retPos : Int \cup {BASURA},
   retVar : Int \cup {BASURA}]

PCBsDe(V) ==
  [pid : Int, programCounter : Int \cup {BASURA}, cantidadPaginasCodigo : Int,
   indiceCodigo : Seq(Int), indiceEtiquetas : Seq(Int), rafagas : Int,
   indiceStack : Seq(ContextosDe(V))]

Celdas(V) == Int \cup {BASURA} \cup V

(* The message s holds the context c, cell by cell.                        *)
ContextoEn(s, c) ==
  /\ Len(s) = Len(c.args) + Len(c.vars) + 6
  /\ s[1] = c.pos
  /\ s[2] = Len(c.args)
  /\ \A i \in 1 .. Len(c.args) : s[2 + i] = c.args[i]
  /\ s[Len(c.args) + 3] = Len(c.vars)
  /\ \A i \in 1 .. Len(c.vars) : s[Len(c.args) + 3 + i] = c.vars[i]
  /\ s[Len(c.args) + Len(c.vars) + 4] = c.retPos

(* The message m holds what comes before the stack of p.                   *)
EncabezadoEn(m, p) ==
  /\ Len(m) = 5 + Len(p.indiceCodigo) + Len(p.indiceEtiquetas)
  /\ m[1] = p.pid /\ m[2] = p.programCounter
  /\ m[3] = p.cantidadPaginasCodigo /\ m[4] = Len(p.indiceCodigo)
  /\ \A i \in 1 .. Len(p.indiceCodigo) : m[4 + i] = p.indiceCodigo[i]
  /\ m[5 + Len(p.indiceCodigo)] = Len(p.indiceEtiquetas)
  /\ \A i \in 1 .. Len(p.indiceEtiquetas) :
       m[5 + Len(p.indiceCodigo) + i] = p.indiceEtiquetas[i]

(* A list with its length in front.                                        *)
LEMMA ConLargo ==
  ASSUME NEW V, NEW lista \in Seq(V) \cup Seq(Int)
  PROVE  /\ serializarVariable(lista) \in Seq(Celdas(V))
         /\ Len(lista) \in Nat
         /\ Len(serializarVariable(lista)) = 1 + Len(lista)
         /\ serializarVariable(lista)[1] = Len(lista)
         /\ \A i \in 1 .. Len(lista) : serializarVariable(lista)[1 + i] = lista[i]
<1>1. PICK S : S = Celdas(V)
  OBVIOUS
<1>2. Len(lista) \in Nat
  OBVIOUS
<1>3. lista \in Seq(S) /\ <<Len(lista)>> \in Seq(S)
  BY <1>1, <1>2 DEF Celdas
<1>4. PICK n : n = <<Len(lista)>>
  OBVIOUS
<1>5. /\ n \o lista \in Seq(S)
      /\ Len(n \o lista) = Len(n) + Len(lista)
      /\ \A i \in 1 .. Len(n) : (n \o lista)[i] = n[i]
      /\ \A i \in 1 .. Len(lista) : (n \o lista)[Len(n) + i] = lista[i]
  BY <1>3, <1>4, Concatenadas
<1>6. Len(n) = 1 /\ n[1] = Len(lista)
  BY <1>4
<1>7. serializarVariable(lista) = n \o lista
  BY <1>4 DEF serializarVariable
<1> QED
  BY <1>1, <1>2, <1>5, <1>6, <1>7

(* What serializarStack puts in the message, cell by cell.                 *)
LEMMA ContextoSerializado ==
  ASSUME NEW V, NEW pila \in Seq(ContextosDe(V)), Len(pila) >= 1
  PROVE  /\ pila[1] \in ContextosDe(V)
         /\ serializarStack(pila) \in Seq(Celdas(V))
         /\ ContextoEn(serializarStack(pila), pila[1])
<1>0. PICK c, na, nv, s : /\ c = pila[1] /\ na = Len(c.args) /\ nv = Len(c.vars)
                          /\ s = serializarStack(pila)
  OBVIOUS
<1>1. c \in ContextosDe(V)
  BY <1>0
<1>2. /\ c.pos \in Int /\ c.args \in Seq(V) /\ c.vars \in Seq(V)
      /\ c.retPos \in Int \cup {BASURA}
  BY <1>1 DEF ContextosDe
<1>3. PICK S, A, B, D, E : /\ S = Celdas(V)
                           /\ A = <<c.pos>>
                           /\ B = serializarVariable(c.args)
                           /\ D = serializarVariable(c.vars)
                           /\ E = <<c.retPos, BASURA, BASURA>>
  OBVIOUS
<1>4. A \in Seq(S) /\ E \in Seq(S) /\ Len(A) = 1 /\ Len(E) = 3
      /\ A[1] = c.pos /\ E[1] = c.retPos
  BY <1>2, <1>3 DEF Celdas
<1>5. /\ B \in Seq(S) /\ na \in Nat /\ Len(B) = 1 + na /\ B[1] = na
      /\ \A i \in 1 .. na : B[1 + i] = c.args[i]
  BY <1>0, <1>2, <1>3, ConLargo
<1>6. /\ D \in Seq(S) /\ nv \in Nat /\ Len(D) = 1 + nv /\ D[1] = nv
      /\ \A i \in 1 .. nv : D[1 + i] = c.vars[i]
  BY <1>0, <1>2, <1>3, ConLargo
<1>7. s = ((A \o B) \o D) \o E
  BY <1>0, <1>3 DEF serializarStack, TAMANIO_CONTEXTO
<1>8. /\ s \in Seq(S)
      /\ Len(s) = 1 + (1 + na) + (1 + nv) + 3
      /\ \A i \in 1 .. 1 : s[i] = A[i]
      /\ \A i \in 1 .. (1 + na) : s[1 + i] = B[i]
      /\ \A i \in 1 .. (1 + nv) : s[1 + (1 + na) + i] = D[i]
      /\ \A i \in 1 .. 3 : s[1 + (1 + na) + (1 + nv) + i] = E[i]
  <2>1. PICK X, Y : Y = A \o B /\ X = Y \o D
    OBVIOUS
  <2>2. /\ A \o B \in Seq(S)
        /\ Len(A \o B) = Len(A) + Len(B)
        /\ \A i \in 1 .. Len(A) : (A \o B)[i] = A[i]
        /\ \A i \in 1 .. Len(B) : (A \o B)[Len(A) + i] = B[i]
    <3>1. A \in Seq(S) /\ B \in Seq(S)
      BY <1>4, <1>5
    <3> QED
      BY ONLY <3>1, Concatenadas
  <2>3. Len(A) = 1 /\ Len(B) = 1 + na /\ Len(D) = 1 + nv /\ Len(E) = 3
        /\ na \in Nat /\ nv \in Nat
    BY <1>4, <1>5, <1>6
  <2>a. /\ Y \o D \in Seq(S)
        /\ Len(Y \o D) = Len(Y) + Len(D)
        /\ \A i \in 1 .. Len(Y) : (Y \o D)[i] = Y[i]
        /\ \A i \in 1 .. Len(D) : (Y \o D)[Len(Y) + i] = D[i]
    <3>1. Y \in Seq(S) /\ D \in Seq(S)
      BY <1>6, <2>1, <2>2
    <3> QED
      BY ONLY <3>1, Concatenadas
  <2>b. /\ Len(Y) = 1 + (1 + na)
        /\ \A i \in 1 .. 1 : Y[i] = A[i]
        /\ \A i \in 1 .. (1 + na) : Y[1 + i] = B[i]
    BY ONLY <2>1, <2>2, <2>3
  <2>c. /\ X \in Seq(S)
        /\ Len(X) = 1 + (1 + na) + (1 + nv)
        /\ \A i \in 1 .. (1 + (1 + na)) : X[i] = Y[i]
        /\ \A i \in 1 .. (1 + nv) : X[1 + (1 + na) + i] = D[i]
    BY ONLY <2>1, <2>a, <2>b, <2>3
  <2>4. /\ X \in Seq(S)
        /\ Len(X) = 1 + (1 + na) + (1 + nv)
        /\ \A i \in 1 .. 1 : X[i] = A[i]
        /\ \A i \in 1 .. (1 + na) : X[1 + i] = B[i]
        /\ \A i \in 1 .. (1 + nv) : X[1 + (1 + na) + i] = D[i]
    <3>1. ASSUME NEW i \in 1 .. (1 + na)
          PROVE  X[1 + i] = B[i]
      <4>1. 1 + i \in 1 .. (1 + (1 + na))
        BY ONLY <2>3, i \in 1 .. (1 + na)
      <4> QED
        BY ONLY <4>1, <2>b, <2>c, i \in 1 .. (1 + na)
    <3>2. \A i \in 1 .. 1 : X[i] = A[i]
      BY ONLY <2>3, <2>b, <2>c
    <3> QED
      BY ONLY <2>c, <3>1, <3>2
  <2>5. /\ X \o E \in Seq(S)
        /\ Len(X \o E) = Len(X) + Len(E)
        /\ \A i \in 1 .. Len(X) : (X \o E)[i] = X[i]
        /\ \A i \in 1 .. Len(E) : (X \o E)[Len(X) + i] = E[i]
    <3>1. X \in Seq(S) /\ E \in Seq(S)
      BY <1>4, <2>4
    <3> QED
      BY ONLY <3>1, Concatenadas
  <2>6. s = X \o E
    BY <1>7, <2>1
  <2>7. na \in Nat /\ nv \in Nat
    BY <1>5, <1>6
  <2>8. /\ s \in Seq(S)
        /\ Len(s) = 1 + (1 + na) + (1 + nv) + 3
        /\ \A i \in 1 .. (1 + (1 + na) + (1 + nv)) : s[i] = X[i]
        /\ \A i \in 1 .. 3 : s[1 + (1 + na) + (1 + nv) + i] = E[i]
    BY ONLY <2>3, <2>4, <2>5, <2>6
  <2>9. \A i \in 1 .. 1 : s[i] = A[i]
    BY ONLY <2>4, <2>7, <2>8
  <2>10. ASSUME NEW i \in 1 .. (1 + na)
         PROVE  s[1 + i] = B[i]
    <3>1. 1 + i \in 1 .. (1 + (1 + na) + (1 + nv))
      BY ONLY <2>7, i \in 1 .. (1 + na)
    <3> QED
      BY ONLY <3>1, <2>4, <2>8, i \in 1 .. (1 + na)
  <2>11. ASSUME NEW i \in 1 .. (1 + nv)
         PROVE  s[1 + (1 + na) + i] = D[i]
    <3>1. 1 + (1 + na) + i \in 1 .. (1 + (1 + na) + (1 + nv))
      BY ONLY <2>7, i \in 1 .. (1 + nv)
    <3> QED
      BY ONLY <3>1, <2>4, <2>8, i \in 1 .. (1 + nv)
  <2> QED
    BY ONLY <2>8, <2>9, <2>10, <2>11
<1>n. na \in Nat /\ nv \in Nat
  BY <1>5, <1>6
<1>9. s[1] = A[1] /\ s[1 + 1] = B[1] /\ s[1 + (1 + na) + 1] = D[1]
      /\ s[1 + (1 + na) + (1 + nv) + 1] = E[1]
  BY ONLY <1>n, <1>8
<1>10. /\ 1 + 1 = 2 /\ 1 + (1 + na) + 1 = na + 3
       /\ 1 + (1 + na) + (1 + nv) + 1 = na + nv + 4
       /\ 1 + (1 + na) + (1 + nv) + 3 = na + nv + 6
  BY ONLY <1>n
<1>11. ASSUME NEW i \in 1 .. na PROVE s[2 + i] = c.args[i]
  <2>1. 1 + i \in 1 .. (1 + na) /\ 1 + (1 + i) = 2 + i
    BY <1>5
  <2> QED
    BY <2>1, <1>5, <1>8
<1>12. ASSUME NEW i \in 1 .. nv PROVE s[na + 3 + i] = c.vars[i]
  <2>1. 1 + i \in 1 .. (1 + nv) /\ 1 + (1 + na) + (1 + i) = na + 3 + i
    BY ONLY <1>n, i \in 1 .. nv
  <2> QED
    BY <2>1, <1>6, <1>8
<1>13. /\ Len(s) = na + nv + 6 /\ s[1] = c.pos /\ s[2] = na
       /\ s[na + 3] = nv /\ s[na + nv + 4] = c.retPos
  BY ONLY <1>4, <1>5, <1>6, <1>8, <1>9, <1>10
<1>14. s \in Seq(Celdas(V))
  BY ONLY <1>3, <1>8
<1> QED
  BY <1>0, <1>1, <1>11, <1>12, <1>13, <1>14 DEF ContextoEn

(* What serializarPCB puts in the message before the stack.                *)
LEMMA EncabezadoSerializado ==
  ASSUME NEW V, NEW p \in PCBsDe(V)
  PROVE  /\ Encabezado(p) \in Seq(Celdas(V))
         /\ EncabezadoEn(Encabezado(p), p)
<1>0. PICK nc, ne, m : /\ nc = Len(p.indiceCodigo) /\ ne = Len(p.indiceEtiquetas)
                       /\ m = Encabezado(p)
  OBVIOUS
<1>1. /\ p.pid \in Int /\ p.programCounter \in Int \cup {BASURA}
      /\ p.cantidadPaginasCodigo \in Int
      /\ p.indiceCodigo \in Seq(Int) /\ p.indiceEtiquetas \in Seq(Int)
  BY DEF PCBsDe
<1>2. nc \in Nat /\ ne \in Nat
  BY <1>0, <1>1
<1>3. PICK S, h, code, n, etiq, P, Q :
        /\ S = Celdas(V)
        /\ h = <<p.pid, p.programCounter, p.cantidadPaginasCodigo, nc>>
        /\ code = p.indiceCodigo /\ n = <<ne>> /\ etiq = p.indiceEtiquetas
        /\ P = h \o code /\ Q = P \o n
  OBVIOUS
<1>4. Int \subseteq S /\ BASURA \in S
  BY <1>3 DEF Celdas
<1>5. /\ h \in Seq(S) /\ Len(h) = 4
      /\ h[1] = p.pid /\ h[2] = p.programCounter
      /\ h[3] = p.cantidadPaginasCodigo /\ h[4] = nc
  BY <1>1, <1>2, <1>3, <1>4
<1>6. /\ code \in Seq(S) /\ Len(code) = nc /\ n \in Seq(S) /\ Len(n) = 1
      /\ n[1] = ne /\ etiq \in Seq(S) /\ Len(etiq) = ne
  BY <1>0, <1>1, <1>2, <1>3, <1>4
<1>7. P = h \o code /\ Q = P \o n /\ m = Q \o etiq
  BY <1>0, <1>3 DEF Encabezado
<1>8. /\ P \in Seq(S)
      /\ Len(P) = 4 + nc
      /\ \A i \in 1 .. (4) : P[i] = h[i]
      /\ \A i \in 1 .. (nc) : P[4 + i] = code[i]
  <2>1. /\ h \o code \in Seq(S)
        /\ Len(h \o code) = Len(h) + Len(code)
        /\ \A i \in 1 .. Len(h) : (h \o code)[i] = h[i]
        /\ \A i \in 1 .. Len(code) : (h \o code)[Len(h) + i] = code[i]
    <3>1. h \in Seq(S) /\ code \in Seq(S)
      BY <1>5, <1>6
    <3> QED
      BY ONLY <3>1, Concatenadas
  <2>2. Len(h) = 4 /\ Len(code) = nc
    BY <1>5, <1>6
  <2> QED
    BY ONLY <2>1, <2>2, <1>7
<1>9. /\ Q \in Seq(S)
      /\ Len(Q) = 4 + nc + 1
      /\ \A i \in 1 .. (4 + nc) : Q[i] = P[i]
      /\ \A i \in 1 .. (1) : Q[4 + nc + i] = n[i]
  <2>1. /\ P \o n \in Seq(S)
        /\ Len(P \o n) = Len(P) + Len(n)
        /\ \A i \in 1 .. Len(P) : (P \o n)[i] = P[i]
        /\ \A i \in 1 .. Len(n) : (P \o n)[Len(P) + i] = n[i]
    <3>1. P \in Seq(S) /\ n \in Seq(S)
      BY <1>8, <1>6
    <3> QED
      BY ONLY <3>1, Concatenadas
  <2>2. Len(P) = 4 + nc /\ Len(n) = 1
    BY <1>8, <1>6
  <2> QED
    BY ONLY <2>1, <2>2, <1>7
<1>10. /\ m \in Seq(S)
       /\ Len(m) = 4 + nc + 1 + ne
       /\ \A i \in 1 .. (4 + nc + 1) : m[i] = Q[i]
       /\ \A i \in 1 .. (ne) : m[4 + nc + 1 + i] = etiq[i]
  <2>1. /\ Q \o etiq \in Seq(S)
        /\ Len(Q \o etiq) = Len(Q) + Len(etiq)
        /\ \A i \in 1 .. Len(Q) : (Q \o etiq)[i] = Q[i]
        /\ \A i \in 1 .. Len(etiq) : (Q \o etiq)[Len(Q) + i] = etiq[i]
    <3>1. Q \in Seq(S) /\ etiq \in Seq(S)
      BY <1>9, <1>6
    <3> QED
      BY ONLY <3>1, Concatenadas
  <2>2. Len(Q) = 4 + nc + 1 /\ Len(etiq) = ne
    BY <1>9, <1>6
  <2> QED
    BY ONLY <2>1, <2>2, <1>7
<1>11. /\ 5 + nc = 4 + nc + 1 /\ 5 + nc + ne = 4 + nc + 1 + ne
       /\ \A i \in 1 .. (4 + nc) : i \in 1 .. (4 + nc + 1)
       /\ \A i \in 1 .. 4 : i \in 1 .. (4 + nc)
       /\ \A i \in 1 .. nc : 4 + i \in 1 .. (4 + nc)
       /\ 4 + nc + 1 \in 1 .. (4 + nc + 1)
       /\ 1 \in 1 .. 1
  BY ONLY <1>2
<1>12. \A i \in 1 .. (4 + nc) : m[i] = P[i]
  BY ONLY <1>2, <1>9, <1>10, <1>11
<1>13. \A i \in 1 .. 4 : m[i] = h[i]
  BY ONLY <1>2, <1>8, <1>11, <1>12
<1>14. \A i \in 1 .. nc : m[4 + i] = code[i]
  BY ONLY <1>2, <1>8, <1>11, <1>12
<1>15. m[5 + nc] = n[1]
  BY ONLY <1>2, <1>9, <1>10, <1>11
<1>16. \A i \in 1 .. ne : m[5 + nc + i] = etiq[i]
  BY ONLY <1>2, <1>10, <1>11
<1>17. m[1] = h[1] /\ m[2] = h[2] /\ m[3] = h[3] /\ m[4] = h[4]
  BY ONLY <1>13
<1>18. /\ Len(m) = 5 + nc + ne /\ m[1] = p.pid /\ m[2] = p.programCounter
       /\ m[3] = p.cantidadPaginasCodigo /\ m[4] = nc /\ m[5 + nc] = ne
  BY ONLY <1>2, <1>5, <1>6, <1>10, <1>11, <1>15, <1>17
<1>19. m \in Seq(Celdas(V))
  BY ONLY <1>3, <1>10
<1> QED
  BY <1>0, <1>3, <1>14, <1>16, <1>18, <1>19 DEF EncabezadoEn

(* The records EXCEPT makes, field by field.                               *)
LEMMA ContextoPorCampos ==
  ASSUME NEW V, NEW c \in ContextosDe(V)
  PROVE  [c EXCEPT !.retVar = BASURA] =
           [pos |-> c.pos, args |-> c.args, vars |-> c.vars, retPos |-> c.retPos,
            retVar |-> BASURA]
BY DEF ContextosDe

LEMMA PCBPorCampos ==
  ASSUME NEW V, NEW p \in PCBsDe(V), NEW pila
  PROVE  [p EXCEPT !.indiceStack = pila] =
           [pid |-> p.pid, programCounter |-> p.programCounter,
            cantidadPaginasCodigo |-> p.cantidadPaginasCodigo,
            indiceCodigo |-> p.indiceCodigo, indiceEtiquetas |-> p.indiceEtiquetas,
            rafagas |-> p.rafagas, indiceStack |-> pila]
<1>1. PICK I, J, N, P : /\ I = Int /\ J = Int \cup {BASURA} /\ N = Seq(Int)
                        /\ P = Seq(ContextosDe(V))
  OBVIOUS
<1>2. p \in [pid : I, programCounter : J, cantidadPaginasCodigo : I,
             indiceCodigo : N, indiceEtiquetas : N, rafagas : I, indiceStack : P]
  BY <1>1 DEF PCBsDe
<1> QED
  BY ONLY <1>2

(* The trip keeps the index of code, the labels, the counters and the     *)
(* context of the program, and nothing of the stack above it: the contexts *)
(* of the calls that have not returned are lost, and so is where the       *)
(* program's own value would return.                                       *)
THEOREM IdaYVuelta ==
  ASSUME NEW V, NEW p \in PCBsDe(V), Len(p.indiceStack) >= 1
  PROVE  deserializarPCB(serializarPCB(p)) =
           [p EXCEPT !.indiceStack =
              <<[p.indiceStack[1] EXCEPT !.retVar = BASURA]>>]
<1>1. PICK S, c, h, s, r, nc, ne, na, nv, Q, m :
        /\ S = Celdas(V) /\ c = p.indiceStack[1]
        /\ h = Encabezado(p) /\ s = serializarStack(p.indiceStack)
        /\ r = <<p.rafagas, 0, 1>>
        /\ nc = Len(p.indiceCodigo) /\ ne = Len(p.indiceEtiquetas)
        /\ na = Len(c.args) /\ nv = Len(c.vars)
        /\ Q = h \o r /\ m = Q \o s
  OBVIOUS
<1>2. /\ nc \in Nat /\ ne \in Nat
      /\ h \in Seq(S)
      /\ Len(h) = 5 + nc + ne
      /\ h[1] = p.pid /\ h[2] = p.programCounter
      /\ h[3] = p.cantidadPaginasCodigo /\ h[4] = nc
      /\ \A i \in 1 .. nc : h[4 + i] = p.indiceCodigo[i]
      /\ h[5 + nc] = ne
      /\ \A i \in 1 .. ne : h[5 + nc + i] = p.indiceEtiquetas[i]
  <2>1. h \in Seq(S) /\ EncabezadoEn(h, p)
    BY <1>1, EncabezadoSerializado
  <2>2. p.indiceCodigo \in Seq(Int) /\ p.indiceEtiquetas \in Seq(Int)
    BY DEF PCBsDe
  <2>3. nc = Len(p.indiceCodigo) /\ ne = Len(p.indiceEtiquetas)
    BY <1>1
  <2>4. nc \in Nat /\ ne \in Nat
    BY ONLY <2>2, <2>3
  <2> QED
    BY ONLY <2>1, <2>3, <2>4 DEF EncabezadoEn
<1>3. p.indiceStack \in Seq(ContextosDe(V)) /\ p.rafagas \in Int
  BY DEF PCBsDe
<1>4. /\ c \in ContextosDe(V)
      /\ na \in Nat /\ nv \in Nat
      /\ s \in Seq(S)
      /\ Len(s) = na + nv + 6
      /\ s[1] = c.pos
      /\ s[2] = na
      /\ \A i \in 1 .. na : s[2 + i] = c.args[i]
      /\ s[na + 3] = nv
      /\ \A i \in 1 .. nv : s[na + 3 + i] = c.vars[i]
      /\ s[na + nv + 4] = c.retPos
  <2>1. c \in ContextosDe(V) /\ s \in Seq(S) /\ ContextoEn(s, c)
    BY <1>1, <1>3, ContextoSerializado
  <2>2. c.args \in Seq(V) /\ c.vars \in Seq(V)
    BY <2>1 DEF ContextosDe
  <2>3. na = Len(c.args) /\ nv = Len(c.vars)
    BY <1>1
  <2>4. na \in Nat /\ nv \in Nat
    BY ONLY <2>2, <2>3
  <2> QED
    BY ONLY <2>1, <2>3, <2>4 DEF ContextoEn
<1>5. r \in Seq(S) /\ Len(r) = 3 /\ r[1] = p.rafagas
  BY <1>1, <1>3 DEF Celdas
<1>6. Q = h \o r /\ m = Q \o s
  BY <1>1
<1>n. nc \in Nat /\ ne \in Nat /\ na \in Nat /\ nv \in Nat
  BY <1>2, <1>4
<1>7. /\ Q \in Seq(S)
      /\ Len(Q) = 5 + nc + ne + 3
      /\ \A i \in 1 .. (5 + nc + ne) : Q[i] = h[i]
      /\ \A i \in 1 .. (3) : Q[5 + nc + ne + i] = r[i]
  <2>1. /\ h \o r \in Seq(S)
        /\ Len(h \o r) = Len(h) + Len(r)
        /\ \A i \in 1 .. Len(h) : (h \o r)[i] = h[i]
        /\ \A i \in 1 .. Len(r) : (h \o r)[Len(h) + i] = r[i]
    <3>1. h \in Seq(S) /\ r \in Seq(S)
      BY <1>2, <1>5
    <3> QED
      BY ONLY <3>1, Concatenadas
  <2>2. Len(h) = 5 + nc + ne /\ Len(r) = 3
    BY <1>2, <1>5
  <2> QED
    BY ONLY <2>1, <2>2, <1>6, <1>n
<1>8. /\ m \in Seq(S)
      /\ Len(m) = 5 + nc + ne + 3 + na + nv + 6
      /\ \A i \in 1 .. (5 + nc + ne + 3) : m[i] = Q[i]
      /\ \A i \in 1 .. (na + nv + 6) : m[5 + nc + ne + 3 + i] = s[i]
  <2>1. /\ Q \o s \in Seq(S)
        /\ Len(Q \o s) = Len(Q) + Len(s)
        /\ \A i \in 1 .. Len(Q) : (Q \o s)[i] = Q[i]
        /\ \A i \in 1 .. Len(s) : (Q \o s)[Len(Q) + i] = s[i]
    <3>1. Q \in Seq(S) /\ s \in Seq(S)
      BY <1>7, <1>4
    <3> QED
      BY ONLY <3>1, Concatenadas
  <2>2. Len(Q) = 5 + nc + ne + 3 /\ Len(s) = na + nv + 6
    BY <1>7, <1>4
  <2>3. m = Q \o s
    BY <1>6
  <2>4. m \in Seq(S)
    BY ONLY <2>1, <2>3
  <2>5. \A i \in 1 .. (5 + nc + ne + 3) : m[i] = Q[i]
    BY ONLY <2>1, <2>2, <2>3, Zenon
  <2>6. \A i \in 1 .. (na + nv + 6) : m[5 + nc + ne + 3 + i] = s[i]
    BY ONLY <2>1, <2>2, <2>3, Zenon
  <2>7. Len(m) = (5 + nc + ne + 3) + (na + nv + 6)
    BY ONLY <2>1, <2>2, <2>3, Zenon
  <2>8. (5 + nc + ne + 3) + (na + nv + 6) = 5 + nc + ne + 3 + na + nv + 6
    BY ONLY <1>n
  <2> QED
    BY ONLY <2>4, <2>5, <2>6, <2>7, <2>8, Zenon
<1>9. \A i \in 1 .. (5 + nc + ne) : m[i] = h[i]
  <2>1. \A i \in 1 .. (5 + nc + ne) : i \in 1 .. (5 + nc + ne + 3)
    BY ONLY <1>n
  <2> QED
    BY ONLY <2>1, <1>7, <1>8
<1>10. /\ m[1] = p.pid /\ m[2] = p.programCounter
       /\ m[3] = p.cantidadPaginasCodigo /\ m[4] = nc /\ m[5 + nc] = ne
  <2>1. /\ 1 \in 1 .. (5 + nc + ne) /\ 2 \in 1 .. (5 + nc + ne)
        /\ 3 \in 1 .. (5 + nc + ne) /\ 4 \in 1 .. (5 + nc + ne)
        /\ 5 + nc \in 1 .. (5 + nc + ne)
    BY ONLY <1>n
  <2> QED
    BY ONLY <2>1, <1>2, <1>9
<1>11. SubSeq(m, 5, 4 + nc) = p.indiceCodigo
  <2>1. p.indiceCodigo \in Seq(S) /\ Len(p.indiceCodigo) = nc
    BY <1>1 DEF PCBsDe, Celdas
  <2>2. \A i \in 1 .. nc : 4 + i \in 1 .. (5 + nc + ne)
    BY ONLY <1>n
  <2>3. \A i \in 1 .. Len(p.indiceCodigo) : m[4 + i] = p.indiceCodigo[i]
    BY ONLY <1>2, <1>9, <2>1, <2>2
  <2>4. m \in Seq(S) /\ 4 \in Nat /\ 4 + Len(p.indiceCodigo) <= Len(m)
    BY ONLY <1>n, <1>8, <2>1
  <2>5. SubSeq(m, 4 + 1, 4 + Len(p.indiceCodigo)) = p.indiceCodigo
    BY ONLY <2>1, <2>3, <2>4, Recorte
  <2> QED
    BY ONLY <2>1, <2>5
<1>12. SubSeq(m, 5 + nc + 1, 5 + nc + ne) = p.indiceEtiquetas
  <2>1. p.indiceEtiquetas \in Seq(S) /\ Len(p.indiceEtiquetas) = ne
    BY <1>1 DEF PCBsDe, Celdas
  <2>2. \A i \in 1 .. ne : 5 + nc + i \in 1 .. (5 + nc + ne)
    BY ONLY <1>n
  <2>3. \A i \in 1 .. Len(p.indiceEtiquetas) : m[5 + nc + i] = p.indiceEtiquetas[i]
    BY ONLY <1>2, <1>9, <2>1, <2>2
  <2>4. m \in Seq(S) /\ 5 + nc \in Nat /\ 5 + nc + Len(p.indiceEtiquetas) <= Len(m)
    BY ONLY <1>n, <1>8, <2>1
  <2>5. PICK d : d = 5 + nc
    OBVIOUS
  <2>6. SubSeq(m, d + 1, d + Len(p.indiceEtiquetas)) = p.indiceEtiquetas
    BY ONLY <2>1, <2>3, <2>4, <2>5, Recorte
  <2> QED
    BY ONLY <2>1, <2>5, <2>6
<1>13. m[6 + nc + ne] = p.rafagas
  <2>1. 6 + nc + ne = 5 + nc + ne + 1 /\ 1 \in 1 .. 3
        /\ 6 + nc + ne \in 1 .. (5 + nc + ne + 3)
    BY ONLY <1>n
  <2> QED
    BY ONLY <2>1, <1>5, <1>7, <1>8
<1>14. desserializarContexto(m, 9 + nc + ne) = [c EXCEPT !.retVar = BASURA]
  <2>1. PICK d : d = 8 + nc + ne
    OBVIOUS
  <2>2. d \in Nat /\ d = 5 + nc + ne + 3 /\ Len(m) = d + (na + nv + 6) /\ m \in Seq(S)
    BY ONLY <1>n, <1>8, <2>1
  <2>3. \A i \in 1 .. (na + nv + 6) : m[d + i] = s[i]
    BY ONLY <1>8, <2>2
  <2>4. m[d + 1] = c.pos /\ m[d + 2] = na /\ m[d + (na + 3)] = nv
        /\ m[d + (na + nv + 4)] = c.retPos
    <3>1. 1 \in 1 .. (na + nv + 6) /\ 2 \in 1 .. (na + nv + 6)
          /\ na + 3 \in 1 .. (na + nv + 6) /\ na + nv + 4 \in 1 .. (na + nv + 6)
      BY ONLY <1>n
    <3> QED
      BY ONLY <3>1, <1>4, <2>3
  <2>5. c.args \in Seq(S) /\ Len(c.args) = na /\ c.vars \in Seq(S) /\ Len(c.vars) = nv
    <3>1. S = Int \cup {BASURA} \cup V /\ Len(c.args) = na /\ Len(c.vars) = nv
      BY <1>1 DEF Celdas
    <3>2. c.args \in Seq(V) /\ c.vars \in Seq(V)
      BY ONLY <1>4 DEF ContextosDe
    <3> QED
      BY ONLY <3>1, <3>2
  <2>6. SubSeq(m, d + 2 + 1, d + 2 + na) = c.args
    <3>1. \A i \in 1 .. na : 2 + i \in 1 .. (na + nv + 6) /\ d + 2 + i = d + (2 + i)
      BY ONLY <1>n, <2>2
    <3>2. \A i \in 1 .. Len(c.args) : m[d + 2 + i] = c.args[i]
      BY ONLY <3>1, <1>4, <2>3, <2>5
    <3>3. PICK e : e = d + 2
      OBVIOUS
    <3>4. e \in Nat /\ e + Len(c.args) <= Len(m)
      BY ONLY <3>3, <2>2, <2>5, <1>n
    <3>5. SubSeq(m, e + 1, e + Len(c.args)) = c.args
      BY ONLY <2>2, <2>5, <3>2, <3>3, <3>4, Recorte
    <3> QED
      BY ONLY <2>5, <3>3, <3>5
  <2>7. SubSeq(m, d + (na + 3) + 1, d + (na + 3) + nv) = c.vars
    <3>1. \A i \in 1 .. nv : /\ na + 3 + i \in 1 .. (na + nv + 6)
                             /\ d + (na + 3) + i = d + (na + 3 + i)
      BY ONLY <1>n, <2>2
    <3>2. \A i \in 1 .. Len(c.vars) : m[d + (na + 3) + i] = c.vars[i]
      BY ONLY <3>1, <1>4, <2>3, <2>5
    <3>3. PICK e : e = d + (na + 3)
      OBVIOUS
    <3>4. e \in Nat /\ e + Len(c.vars) <= Len(m)
      BY ONLY <3>3, <2>2, <2>5, <1>n
    <3>5. SubSeq(m, e + 1, e + Len(c.vars)) = c.vars
      BY ONLY <2>2, <2>5, <3>2, <3>3, <3>4, Recorte
    <3> QED
      BY ONLY <2>5, <3>3, <3>5
  <2>8. 9 + nc + ne = d + 1 /\ d + 1 + 1 = d + 2 /\ d + 2 + na + 1 = d + (na + 3)
        /\ d + (na + 3) + nv + 1 = d + (na + nv + 4)
    BY ONLY <1>n, <2>1
  <2>9. desserializarContexto(m, d + 1) =
          [pos |-> c.pos, args |-> c.args, vars |-> c.vars, retPos |-> c.retPos,
           retVar |-> BASURA]
    BY ONLY <2>4, <2>6, <2>7, <2>8
    DEF desserializarContexto, desserializarVariables
  <2>10. [c EXCEPT !.retVar = BASURA] =
           [pos |-> c.pos, args |-> c.args, vars |-> c.vars, retPos |-> c.retPos,
            retVar |-> BASURA]
    BY ONLY <1>4, ContextoPorCampos
  <2> QED
    BY ONLY <2>8, <2>9, <2>10
<1>15. serializarPCB(p) = m
  BY <1>1 DEF serializarPCB, POSICION_STACK_ACTUAL, TAMANIO_CONTEXTO
<1>16. /\ 5 + m[4] = 5 + nc
       /\ 5 + nc + m[5 + nc] + 1 = 6 + nc + ne
       /\ 6 + nc + ne + 3 = 9 + nc + ne
  BY ONLY <1>10, <1>n
<1>17. deserializarPCB(m) =
         [pid |-> p.pid, programCounter |-> p.programCounter,
          cantidadPaginasCodigo |-> p.cantidadPaginasCodigo,
          indiceCodigo |-> p.indiceCodigo, indiceEtiquetas |-> p.indiceEtiquetas,
          rafagas |-> p.rafagas, indiceStack |-> <<[c EXCEPT !.retVar = BASURA]>>]
  BY ONLY <1>10, <1>11, <1>12, <1>13, <1>14, <1>16
  DEF deserializarPCB, desserializarTIntructions
<1>18. [p EXCEPT !.indiceStack = <<[c EXCEPT !.retVar = BASURA]>>] =
         [pid |-> p.pid, programCounter |-> p.programCounter,
          cantidadPaginasCodigo |-> p.cantidadPaginasCodigo,
          indiceCodigo |-> p.indiceCodigo, indiceEtiquetas |-> p.indiceEtiquetas,
          rafagas |-> p.rafagas, indiceStack |-> <<[c EXCEPT !.retVar = BASURA]>>]
  BY ONLY p \in PCBsDe(V), PCBPorCampos
<1> QED
  BY ONLY <1>1, <1>15, <1>17, <1>18

-----------------------------------------------------------------------------
(* The layout of the stack.                                                *)

PCBs ==
  [pid : Int, programCounter : Int \cup {BASURA}, cantidadPaginasCodigo : Int,
   indiceCodigo : Seq(Int), indiceEtiquetas : Seq(Int), rafagas : Nat,
   indiceStack : Seq(Contextos)]

EnTurno == cpu \in {"turno", "linea", "avanza"}

(* Where the stack ends, counting what the context c holds.                *)
Fin(c) == Base + TamVariable * (Len(c.args) + Len(c.vars))

Limite == Base + TamVariable * MAX_VARIABLES

Debajo(c) ==
  /\ \A i \in DOMAIN c.vars : Lugar(c.vars, i) + TamVariable <= Fin(c)
  /\ \A i \in Ocupadas(c.args) : Lugar(c.args, i) + TamVariable <= Fin(c)

Sueltas(c) ==
  /\ \A i, j \in DOMAIN c.vars :
       i # j => Separados(Lugar(c.vars, i), Lugar(c.vars, j))
  /\ \A i, j \in Ocupadas(c.args) :
       i # j => Separados(Lugar(c.args, i), Lugar(c.args, j))
  /\ \A i \in DOMAIN c.vars, j \in Ocupadas(c.args) :
       Separados(Lugar(c.vars, i), Lugar(c.args, j))

(* The PCB by itself.                                                      *)
BienPCB ==
  /\ pcb \in PCBs
  /\ pcb.cantidadPaginasCodigo = PCB_INICIAL.cantidadPaginasCodigo
  /\ pcb.indiceCodigo = PCB_INICIAL.indiceCodigo
  /\ pcb.indiceEtiquetas = PCB_INICIAL.indiceEtiquetas
  /\ Len(pcb.indiceStack) >= 1
  /\ TodoEnElPrimero
  /\ Fin(Contexto) <= Limite
  /\ ~limpieza => Debajo(Contexto) /\ Sueltas(Contexto)

(* With the PCB in the CPU, the end of the stack it keeps apart.           *)
BienPuntero ==
  EnTurno => /\ punteroAPosicionEnStack \in Posiciones \cup {Limite}
             /\ Fin(Contexto) <= punteroAPosicionEnStack
             /\ ~limpieza => punteroAPosicionEnStack = Fin(Contexto)

BienElResto ==
  /\ cpu \in {"espera", "turno", "linea", "avanza", "terminado", "caida", "indefinida",
              "duplicada"}
  /\ banderas \subseteq {"abortado", "bloqueado", "finalizado"}
  /\ quantum \in 0 .. QUANTUM
  /\ cpu \in {"linea", "avanza"} => quantum # 0
  /\ punteroAPosicionEnStack \in Nat
  /\ puntero \in Posiciones \cup {NINGUNA}
  /\ memoria \in [Posiciones -> VALORES]
  /\ limpieza \in BOOLEAN

IInv == BienPCB /\ BienPuntero /\ BienElResto

LEMMA Tipos == IInv => TypeOK /\ TodoEnElPrimero /\ SinSolapar
<1>1. BienPCB => /\ pcb.programCounter \in Int \cup {BASURA}
                 /\ pcb.rafagas \in Nat
                 /\ pcb.indiceStack \in Seq(Contextos)
  BY DEF BienPCB, PCBs
<1>2. BienPCB => SinSolapar
  BY DEF BienPCB, Sueltas, SinSolapar
<1> QED
  BY <1>1, <1>2 DEF IInv, BienPCB, BienElResto, TypeOK

-----------------------------------------------------------------------------
(* An address is where its page and its offset say.                        *)
LEMMA Direccion ==
  ASSUME NEW p \in Nat
  PROVE  convertirDeDireccionAPuntero(obtenerDireccionDePuntero(p)) = p
<1>1. TAM_PAGINA \in Nat \ {0}
  BY PilaAssumption
<1>2. (p \div TAM_PAGINA) * TAM_PAGINA + (p % TAM_PAGINA) = p
  BY <1>1
<1> QED
  BY <1>2 DEF convertirDeDireccionAPuntero, obtenerDireccionDePuntero

LEMMA BaseNat == Base \in Nat /\ Limite \in Nat /\ MAX_VARIABLES \in Nat
                 /\ Posiciones \subseteq Nat
<1>1. /\ TAM_PAGINA \in Nat /\ PCB_INICIAL.cantidadPaginasCodigo \in Nat
      /\ MAX_VARIABLES \in Nat
  BY PilaAssumption
<1>2. Base \in Nat
  BY <1>1 DEF Base
<1> QED
  BY <1>1, <1>2 DEF Limite, TamVariable, Posiciones

LEMMA PosicionDeDireccion ==
  ASSUME NEW d \in Direcciones
  PROVE  convertirDeDireccionAPuntero(d) \in Posiciones
BY Direccion, BaseNat DEF Direcciones

(* The PCB with another context of the program.                            *)
LEMMA OtroContexto ==
  ASSUME BienPCB, NEW c \in Contextos
  PROVE  /\ ConContexto(c) \in PCBs
         /\ ConContexto(c).cantidadPaginasCodigo = pcb.cantidadPaginasCodigo
         /\ ConContexto(c).indiceCodigo = pcb.indiceCodigo
         /\ ConContexto(c).indiceEtiquetas = pcb.indiceEtiquetas
         /\ Len(ConContexto(c).indiceStack) = Len(pcb.indiceStack)
         /\ ConContexto(c).indiceStack[1] = c
         /\ \A i \in 2 .. Len(pcb.indiceStack) :
              ConContexto(c).indiceStack[i] = pcb.indiceStack[i]
<1>1. PICK pila : pila = [pcb.indiceStack EXCEPT ![1] = c]
  OBVIOUS
<1>2. pcb.indiceStack \in Seq(Contextos) /\ Len(pcb.indiceStack) >= 1
  BY DEF BienPCB, PCBs
<1>3. /\ pila \in Seq(Contextos) /\ Len(pila) = Len(pcb.indiceStack)
      /\ pila[1] = c
      /\ \A i \in 2 .. Len(pcb.indiceStack) : pila[i] = pcb.indiceStack[i]
  BY ONLY <1>1, <1>2, c \in Contextos
<1>4. pcb \in PCBs
  BY DEF BienPCB
<1>5. ConContexto(c) = [pcb EXCEPT !.indiceStack = pila]
  BY ONLY <1>1, <1>4 DEF ConContexto, Actual, POSICION_STACK_ACTUAL, PCBs
<1> QED
  BY ONLY <1>3, <1>4, <1>5 DEF PCBs

(* A step that leaves c as the context of the program.                     *)
LEMMA PasoDeContexto ==
  ASSUME BienPCB, NEW c \in Contextos, Fin(c) <= Limite,
         NEW pc \in Int \cup {BASURA},
         pcb' = [ConContexto(c) EXCEPT !.programCounter = pc],
         ~limpieza' => Debajo(c) /\ Sueltas(c)
  PROVE  BienPCB' /\ Contexto' = c
<1>1. PICK q : q = ConContexto(c)
  OBVIOUS
<1>2. /\ q \in PCBs
      /\ q.cantidadPaginasCodigo = pcb.cantidadPaginasCodigo
      /\ q.indiceCodigo = pcb.indiceCodigo
      /\ q.indiceEtiquetas = pcb.indiceEtiquetas
      /\ Len(q.indiceStack) = Len(pcb.indiceStack)
      /\ q.indiceStack[1] = c
      /\ \A i \in 2 .. Len(pcb.indiceStack) : q.indiceStack[i] = pcb.indiceStack[i]
  BY <1>1, OtroContexto
<1>3. /\ pcb' \in PCBs
      /\ pcb'.cantidadPaginasCodigo = q.cantidadPaginasCodigo
      /\ pcb'.indiceCodigo = q.indiceCodigo
      /\ pcb'.indiceEtiquetas = q.indiceEtiquetas
      /\ pcb'.indiceStack = q.indiceStack
  <2>1. pcb' = [q EXCEPT !.programCounter = pc]
    BY <1>1
  <2> QED
    BY ONLY <2>1, <1>2, pc \in Int \cup {BASURA} DEF PCBs
<1>4. Contexto' = c
  BY ONLY <1>2, <1>3 DEF Contexto, Actual, POSICION_STACK_ACTUAL
<1>5. TodoEnElPrimero'
  BY ONLY <1>2, <1>3, BienPCB DEF BienPCB, TodoEnElPrimero
<1>6. Len(pcb'.indiceStack) >= 1
  BY ONLY <1>2, <1>3, BienPCB DEF BienPCB
<1> QED
  BY <1>2, <1>3, <1>4, <1>5, <1>6 DEF BienPCB

(* The places of a list with one more variable.                            *)
LEMMA ListaConUnaMas ==
  ASSUME NEW D, NEW lista \in Seq(Variable(D)), NEW v \in Variable(D)
  PROVE  LET l == Append(lista, v)
         IN  /\ l \in Seq(Variable(D)) /\ Len(l) = Len(lista) + 1
             /\ DOMAIN lista = 1 .. Len(lista) /\ DOMAIN l = 1 .. (Len(lista) + 1)
             /\ Len(lista) \in Nat
             /\ \A i \in 1 .. Len(lista) : l[i] = lista[i]
             /\ l[Len(lista) + 1] = v
BY DEF Variable

LEMMA ElementoDeLista ==
  ASSUME NEW D, NEW lista \in Seq(Variable(D)), NEW i \in DOMAIN lista
  PROVE  lista[i] \in Variable(D) /\ lista[i].direccionDeVariable \in D
<1>1. PICK V : V = Variable(D)
  OBVIOUS
<1>2. lista[i] \in V
  BY ONLY <1>1, lista \in Seq(Variable(D)), i \in DOMAIN lista
<1>3. ASSUME NEW v \in Variable(D) PROVE v.direccionDeVariable \in D
  BY DEF Variable
<1> QED
  BY ONLY <1>1, <1>2, <1>3

LEMMA LargoDeLista ==
  ASSUME NEW V, NEW s \in Seq(V)
  PROVE  Len(s) \in Nat /\ DOMAIN s = 1 .. Len(s)
OBVIOUS

(* What the places of a context are.                                       *)
LEMMA LugaresDeContexto ==
  ASSUME NEW c \in Contextos
  PROVE  /\ Len(c.args) \in Nat /\ Len(c.vars) \in Nat
         /\ DOMAIN c.args = 1 .. Len(c.args) /\ DOMAIN c.vars = 1 .. Len(c.vars)
         /\ Fin(c) \in Nat
         /\ \A i \in DOMAIN c.vars : Lugar(c.vars, i) \in Posiciones
         /\ \A i \in Ocupadas(c.args) : Lugar(c.args, i) \in Posiciones
<1>1. /\ c.vars \in Seq(Variable(Direcciones))
      /\ c.args \in Seq(Variable(Direcciones \cup {BASURA}))
  BY DEF Contextos
<1>2. /\ Len(c.args) \in Nat /\ Len(c.vars) \in Nat
      /\ DOMAIN c.args = 1 .. Len(c.args) /\ DOMAIN c.vars = 1 .. Len(c.vars)
  <2>1. PICK a, v : a = c.args /\ v = c.vars
    OBVIOUS
  <2>2. v \in Seq(Variable(Direcciones))
    BY ONLY <1>1, <2>1
  <2>3. Len(v) \in Nat /\ DOMAIN v = 1 .. Len(v)
    BY ONLY <2>2, LargoDeLista
  <2>4. a \in Seq(Variable(Direcciones \cup {BASURA}))
    BY ONLY <1>1, <2>1
  <2>5. Len(a) \in Nat /\ DOMAIN a = 1 .. Len(a)
    BY ONLY <2>4, LargoDeLista
  <2> QED
    BY ONLY <2>1, <2>3, <2>5
<1>3. Fin(c) \in Nat
  <2>1. PICK x, y : x = Len(c.args) /\ y = Len(c.vars)
    OBVIOUS
  <2>2. x \in Nat /\ y \in Nat /\ Base \in Nat
    BY ONLY <1>2, <2>1, BaseNat
  <2>3. Fin(c) = Base + 4 * (x + y)
    BY ONLY <2>1 DEF Fin, TamVariable
  <2> QED
    BY ONLY <2>2, <2>3
<1>4. ASSUME NEW i \in DOMAIN c.vars PROVE Lugar(c.vars, i) \in Posiciones
  <2>1. c.vars[i].direccionDeVariable \in Direcciones
    BY ONLY <1>1, i \in DOMAIN c.vars, ElementoDeLista
  <2> QED
    BY ONLY <2>1, PosicionDeDireccion DEF Lugar
<1>5. ASSUME NEW i \in Ocupadas(c.args) PROVE Lugar(c.args, i) \in Posiciones
  <2>1. i \in DOMAIN c.args /\ c.args[i].direccionDeVariable # BASURA
    BY ONLY i \in Ocupadas(c.args) DEF Ocupadas
  <2>2. c.args[i].direccionDeVariable \in Direcciones \cup {BASURA}
    BY ONLY <1>1, <2>1, ElementoDeLista
  <2> QED
    BY ONLY <2>1, <2>2, PosicionDeDireccion DEF Lugar
<1> QED
  BY ONLY <1>2, <1>3, <1>4, <1>5

LEMMA AgregarVariable ==
  ASSUME NEW c \in Contextos, NEW p \in Posiciones, NEW v \in Variable(Direcciones),
         v.direccionDeVariable = obtenerDireccionDePuntero(p),
         NEW d, d = [c EXCEPT !.vars = Append(@, v)]
  PROVE  /\ d \in Contextos
         /\ Fin(d) = Fin(c) + TamVariable
         /\ p = Fin(c) /\ Debajo(c) /\ Sueltas(c) => Debajo(d) /\ Sueltas(d)
<1>1. PICK l, n : l = Append(c.vars, v) /\ n = Len(c.vars)
  OBVIOUS
<1>2. /\ c.vars \in Seq(Variable(Direcciones))
      /\ c.args \in Seq(Variable(Direcciones \cup {BASURA}))
      /\ c.pos \in Nat /\ c.retPos \in Int \cup {BASURA}
      /\ c.retVar \in Posiciones \cup {NINGUNA, BASURA}
  BY DEF Contextos
<1>3. /\ l \in Seq(Variable(Direcciones)) /\ Len(l) = n + 1
      /\ DOMAIN c.vars = 1 .. n /\ DOMAIN l = 1 .. (n + 1) /\ n \in Nat
      /\ \A i \in 1 .. n : l[i] = c.vars[i]
      /\ l[n + 1] = v
  BY ONLY <1>1, <1>2, v \in Variable(Direcciones), ListaConUnaMas
<1>4. d \in Contextos /\ d.vars = l /\ d.args = c.args
  BY ONLY <1>1, <1>2, <1>3, c \in Contextos, d = [c EXCEPT !.vars = Append(@, v)]
  DEF Contextos
<1>5. Fin(d) = Fin(c) + TamVariable
  <2>1. Len(c.args) \in Nat
    BY LugaresDeContexto
  <2>2. Len(c.vars) = n
    BY <1>1
  <2> QED
    BY ONLY <2>1, <2>2, <1>3, <1>4, BaseNat DEF Fin, TamVariable
<1>6. Lugar(l, n + 1) = p /\ \A i \in 1 .. n : Lugar(l, i) = Lugar(c.vars, i)
  BY <1>3, Direccion, BaseNat DEF Lugar
<1>7. /\ Fin(c) \in Int
      /\ \A i \in 1 .. n : Lugar(c.vars, i) \in Int
      /\ \A i \in Ocupadas(c.args) : Lugar(c.args, i) \in Int
  <2>1. /\ Fin(c) \in Nat
        /\ \A i \in DOMAIN c.vars : Lugar(c.vars, i) \in Posiciones
        /\ \A i \in Ocupadas(c.args) : Lugar(c.args, i) \in Posiciones
    BY ONLY c \in Contextos, LugaresDeContexto
  <2>2. \A i \in 1 .. n : i \in DOMAIN c.vars
    BY ONLY <1>3
  <2>3. \A x \in Posiciones : x \in Int
    BY ONLY BaseNat
  <2>4. \A i \in 1 .. n : Lugar(c.vars, i) \in Int
    BY ONLY <2>1, <2>2, <2>3, Zenon
  <2>5. \A i \in Ocupadas(c.args) : Lugar(c.args, i) \in Int
    BY ONLY <2>1, <2>3, Zenon
  <2>6. Fin(c) \in Int
    BY ONLY <2>1
  <2> QED
    BY ONLY <2>4, <2>5, <2>6
<1>8. ASSUME p = Fin(c), Debajo(c), Sueltas(c)
      PROVE  Debajo(d) /\ Sueltas(d)
  <2>1. /\ \A i \in 1 .. n : Lugar(c.vars, i) + TamVariable <= p
        /\ \A i \in Ocupadas(c.args) : Lugar(c.args, i) + TamVariable <= p
    BY ONLY <1>8, <1>3 DEF Debajo
  <2>2. p \in Int /\ Fin(d) = p + TamVariable /\ TamVariable = 4
    BY <1>5, <1>7, <1>8 DEF TamVariable
  <2>3. Debajo(d)
    BY ONLY <1>3, <1>4, <1>6, <1>7, <2>1, <2>2 DEF Debajo
  <2>4. /\ \A i, j \in 1 .. n :
             i # j => Separados(Lugar(c.vars, i), Lugar(c.vars, j))
        /\ \A i, j \in Ocupadas(c.args) :
             i # j => Separados(Lugar(c.args, i), Lugar(c.args, j))
        /\ \A i \in 1 .. n, j \in Ocupadas(c.args) :
             Separados(Lugar(c.vars, i), Lugar(c.args, j))
    BY ONLY <1>8, <1>3 DEF Sueltas
  <2>5. \A i, j \in 1 .. (n + 1) : i # j => Separados(Lugar(l, i), Lugar(l, j))
    BY ONLY <1>3, <1>6, <1>7, <2>1, <2>2, <2>4 DEF Separados
  <2>6. \A i \in 1 .. (n + 1), j \in Ocupadas(c.args) :
          Separados(Lugar(l, i), Lugar(c.args, j))
    BY ONLY <1>3, <1>6, <1>7, <2>1, <2>2, <2>4 DEF Separados
  <2> QED
    BY ONLY <1>3, <1>4, <2>3, <2>4, <2>5, <2>6 DEF Sueltas
<1> QED
  BY <1>4, <1>5, <1>8

LEMMA AgregarArgumento ==
  ASSUME NEW c \in Contextos, NEW p \in Posiciones, NEW v \in Variable(Direcciones),
         v.direccionDeVariable = obtenerDireccionDePuntero(p),
         NEW d, d = [c EXCEPT !.args = Append(@, v)]
  PROVE  /\ d \in Contextos
         /\ Fin(d) = Fin(c) + TamVariable
         /\ p = Fin(c) /\ Debajo(c) /\ Sueltas(c) => Debajo(d) /\ Sueltas(d)
<1>1. PICK l, n, D : /\ l = Append(c.args, v) /\ n = Len(c.args)
                     /\ D = Direcciones \cup {BASURA}
  OBVIOUS
<1>2. /\ c.vars \in Seq(Variable(Direcciones))
      /\ c.args \in Seq(Variable(D))
      /\ c.pos \in Nat /\ c.retPos \in Int \cup {BASURA}
      /\ c.retVar \in Posiciones \cup {NINGUNA, BASURA}
  BY <1>1 DEF Contextos
<1>a. v \in Variable(D)
  BY ONLY <1>1, v \in Variable(Direcciones) DEF Variable
<1>3. /\ l \in Seq(Variable(D)) /\ Len(l) = n + 1
      /\ DOMAIN c.args = 1 .. n /\ DOMAIN l = 1 .. (n + 1) /\ n \in Nat
      /\ \A i \in 1 .. n : l[i] = c.args[i]
      /\ l[n + 1] = v
  BY ONLY <1>1, <1>2, <1>a, ListaConUnaMas
<1>4. d \in Contextos /\ d.args = l /\ d.vars = c.vars
  BY ONLY <1>1, <1>2, <1>3, c \in Contextos, d = [c EXCEPT !.args = Append(@, v)]
  DEF Contextos
<1>5. Fin(d) = Fin(c) + TamVariable
  <2>1. Len(c.vars) \in Nat
    BY LugaresDeContexto
  <2>2. Len(c.args) = n
    BY <1>1
  <2> QED
    BY ONLY <2>1, <2>2, <1>3, <1>4, BaseNat DEF Fin, TamVariable
<1>6. Lugar(l, n + 1) = p /\ \A i \in 1 .. n : Lugar(l, i) = Lugar(c.args, i)
  BY <1>3, Direccion, BaseNat DEF Lugar
<1>b. /\ Ocupadas(c.args) \subseteq 1 .. n
      /\ \A i \in Ocupadas(l) : i \in Ocupadas(c.args) \/ i = n + 1
  BY ONLY <1>3 DEF Ocupadas
<1>7. /\ Fin(c) \in Int
      /\ \A i \in DOMAIN c.vars : Lugar(c.vars, i) \in Int
      /\ \A i \in Ocupadas(c.args) : Lugar(c.args, i) \in Int
  <2>1. /\ Fin(c) \in Nat
        /\ \A i \in DOMAIN c.vars : Lugar(c.vars, i) \in Posiciones
        /\ \A i \in Ocupadas(c.args) : Lugar(c.args, i) \in Posiciones
    BY ONLY c \in Contextos, LugaresDeContexto
  <2>2. \A x \in Posiciones : x \in Int
    BY ONLY BaseNat
  <2>3. \A i \in DOMAIN c.vars : Lugar(c.vars, i) \in Int
    BY ONLY <2>1, <2>2, Zenon
  <2>4. \A i \in Ocupadas(c.args) : Lugar(c.args, i) \in Int
    BY ONLY <2>1, <2>2, Zenon
  <2> QED
    BY ONLY <2>1, <2>3, <2>4
<1>8. ASSUME p = Fin(c), Debajo(c), Sueltas(c)
      PROVE  Debajo(d) /\ Sueltas(d)
  <2>1. /\ \A i \in DOMAIN c.vars : Lugar(c.vars, i) + TamVariable <= p
        /\ \A i \in Ocupadas(c.args) : Lugar(c.args, i) + TamVariable <= p
    BY ONLY <1>8 DEF Debajo
  <2>2. p \in Int /\ Fin(d) = p + TamVariable /\ TamVariable = 4
    BY <1>5, <1>7, <1>8 DEF TamVariable
  <2>3. /\ \A i \in DOMAIN c.vars : Lugar(c.vars, i) + TamVariable <= Fin(d)
        /\ \A i \in Ocupadas(l) : Lugar(l, i) + TamVariable <= Fin(d)
    BY ONLY <1>6, <1>7, <1>b, <2>1, <2>2
  <2>4. /\ \A i, j \in DOMAIN c.vars :
             i # j => Separados(Lugar(c.vars, i), Lugar(c.vars, j))
        /\ \A i, j \in Ocupadas(c.args) :
             i # j => Separados(Lugar(c.args, i), Lugar(c.args, j))
        /\ \A i \in DOMAIN c.vars, j \in Ocupadas(c.args) :
             Separados(Lugar(c.vars, i), Lugar(c.args, j))
    BY ONLY <1>8 DEF Sueltas
  <2>5. \A i, j \in Ocupadas(l) : i # j => Separados(Lugar(l, i), Lugar(l, j))
    BY ONLY <1>6, <1>7, <1>b, <2>1, <2>2, <2>4 DEF Separados
  <2>6. \A i \in DOMAIN c.vars, j \in Ocupadas(l) :
          Separados(Lugar(c.vars, i), Lugar(l, j))
    BY ONLY <1>6, <1>7, <1>b, <2>1, <2>2, <2>4 DEF Separados
  <2> QED
    BY ONLY <1>4, <2>3, <2>4, <2>5, <2>6 DEF Debajo, Sueltas
<1> QED
  BY <1>4, <1>5, <1>8

(* An argument whose address was freed.                                    *)
LEMMA SoltarArgumento ==
  ASSUME NEW c \in Contextos, NEW k \in DOMAIN c.args,
         NEW d, d = [c EXCEPT !.args[k].direccionDeVariable = BASURA]
  PROVE  /\ d \in Contextos
         /\ Fin(d) = Fin(c)
         /\ Debajo(c) /\ Sueltas(c) => Debajo(d) /\ Sueltas(d)
<1>1. PICK l, v, D : /\ v = [c.args[k] EXCEPT !.direccionDeVariable = BASURA]
                     /\ l = [c.args EXCEPT ![k] = v]
                     /\ D = Direcciones \cup {BASURA}
  OBVIOUS
<1>2. /\ c.args \in Seq(Variable(D)) /\ c.args[k] \in Variable(D)
  <2>1. c.args \in Seq(Variable(D))
    BY <1>1 DEF Contextos
  <2> QED
    BY <2>1, ElementoDeLista
<1>3. v \in Variable(D) /\ v.direccionDeVariable = BASURA
  BY ONLY <1>1, <1>2 DEF Variable
<1>4. /\ l \in Seq(Variable(D)) /\ Len(l) = Len(c.args) /\ DOMAIN l = DOMAIN c.args
      /\ \A i \in DOMAIN c.args : i # k => l[i] = c.args[i]
      /\ l[k] = v
  BY ONLY <1>1, <1>2, <1>3, k \in DOMAIN c.args
<1>5. d = [c EXCEPT !.args = l]
  BY ONLY <1>1, c \in Contextos,
          d = [c EXCEPT !.args[k].direccionDeVariable = BASURA] DEF Contextos
<1>6. d \in Contextos /\ d.args = l /\ d.vars = c.vars
  BY ONLY <1>1, <1>4, <1>5, c \in Contextos DEF Contextos
<1>7. Fin(d) = Fin(c)
  BY ONLY <1>4, <1>6 DEF Fin
<1>8. \A i \in Ocupadas(l) : i \in Ocupadas(c.args) /\ Lugar(l, i) = Lugar(c.args, i)
  BY ONLY <1>3, <1>4 DEF Ocupadas, Lugar
<1> QED
  BY ONLY <1>6, <1>7, <1>8 DEF Debajo, Sueltas

(* The places from the base of the stack to its limit.                     *)
LEMMA FinEsPosicion ==
  ASSUME NEW c \in Contextos, Fin(c) <= Limite
  PROVE  Fin(c) \in Posiciones \cup {Limite}
<1>1. PICK x, y : x = Len(c.args) /\ y = Len(c.vars)
  OBVIOUS
<1>2. x \in Nat /\ y \in Nat
  BY <1>1, LugaresDeContexto
<1>3. PICK k \in Nat : k = x + y
  BY ONLY <1>2
<1>4. Fin(c) = Base + 4 * k
  BY ONLY <1>1, <1>3 DEF Fin, TamVariable
<1>5. Limite = Base + 4 * MAX_VARIABLES
  BY DEF Limite, TamVariable
<1>6. k <= MAX_VARIABLES
  BY <1>4, <1>5, BaseNat
<1> QED
  BY <1>4, <1>5, <1>6, BaseNat DEF Posiciones, TamVariable

LEMMA PosicionSiguiente ==
  ASSUME NEW p \in Posiciones
  PROVE  /\ p \in Nat
         /\ p + TamVariable \in Posiciones \cup {Limite}
         /\ p + TamVariable <= Limite
<1>1. PICK k \in 0 .. (MAX_VARIABLES - 1) : p = Base + 4 * k
  BY DEF Posiciones, TamVariable
<1>2. Limite = Base + 4 * MAX_VARIABLES
  BY DEF Limite, TamVariable
<1>3. k + 1 <= MAX_VARIABLES /\ p + 4 = Base + 4 * (k + 1) /\ p \in Nat
  BY <1>1, BaseNat
<1> QED
  BY <1>1, <1>2, <1>3, BaseNat DEF Posiciones, TamVariable

(* A context with nothing in it.                                           *)
LEMMA SinVariables ==
  ASSUME NEW c \in Contextos, NEW d, d = [c EXCEPT !.args = << >>, !.vars = << >>]
  PROVE  d \in Contextos /\ Fin(d) = Base
<1>1. PICK E : E = << >>
  OBVIOUS
<1>2. /\ E \in Seq(Variable(Direcciones)) /\ Len(E) = 0
      /\ E \in Seq(Variable(Direcciones \cup {BASURA}))
  BY ONLY <1>1
<1>3. d = [c EXCEPT !.args = E, !.vars = E]
  BY <1>1
<1>4. d \in Contextos /\ d.args = E /\ d.vars = E
  BY ONLY <1>2, <1>3, c \in Contextos DEF Contextos
<1> QED
  BY ONLY <1>2, <1>4, BaseNat DEF Fin, TamVariable

-----------------------------------------------------------------------------
(* A step that changes other fields of the PCB.                            *)
LEMMA OtroContador ==
  ASSUME BienPCB, NEW pc \in Int \cup {BASURA}, NEW r \in Nat, NEW pila \in Seq(Contextos),
         pcb' = [pcb EXCEPT !.programCounter = pc, !.rafagas = r, !.indiceStack = pila]
  PROVE  /\ pcb' \in PCBs
         /\ pcb'.cantidadPaginasCodigo = pcb.cantidadPaginasCodigo
         /\ pcb'.indiceCodigo = pcb.indiceCodigo
         /\ pcb'.indiceEtiquetas = pcb.indiceEtiquetas
         /\ pcb'.indiceStack = pila
<1>1. pcb \in PCBs
  BY DEF BienPCB
<1>2. PICK I, J, P : /\ I = Int \cup {BASURA} /\ J = Seq(Int) /\ P = Seq(Contextos)
  OBVIOUS
<1>3. pcb \in [pid : Int, programCounter : I, cantidadPaginasCodigo : Int,
               indiceCodigo : J, indiceEtiquetas : J, rafagas : Nat, indiceStack : P]
  BY ONLY <1>1, <1>2 DEF PCBs
<1>4. pc \in I /\ pila \in P
  BY ONLY <1>2, pc \in Int \cup {BASURA}, pila \in Seq(Contextos)
<1>5. /\ pcb' \in [pid : Int, programCounter : I, cantidadPaginasCodigo : Int,
                  indiceCodigo : J, indiceEtiquetas : J, rafagas : Nat, indiceStack : P]
      /\ pcb'.cantidadPaginasCodigo = pcb.cantidadPaginasCodigo
      /\ pcb'.indiceCodigo = pcb.indiceCodigo
      /\ pcb'.indiceEtiquetas = pcb.indiceEtiquetas
      /\ pcb'.indiceStack = pila
  BY ONLY <1>3, <1>4, r \in Nat,
    pcb' = [pcb EXCEPT !.programCounter = pc, !.rafagas = r, !.indiceStack = pila]
<1> QED
  BY ONLY <1>2, <1>5 DEF PCBs

LEMMA MismaPila ==
  ASSUME BienPCB, NEW pc \in Int \cup {BASURA}, NEW r \in Nat,
         pcb' = [pcb EXCEPT !.programCounter = pc, !.rafagas = r],
         limpieza' = limpieza
  PROVE  BienPCB' /\ Contexto' = Contexto
<1>1. pcb \in PCBs /\ pcb.indiceStack \in Seq(Contextos)
  BY DEF BienPCB, PCBs
<1>s. PICK s \in Seq(Contextos) : s = pcb.indiceStack
  BY <1>1
<1>2. pcb' = [pcb EXCEPT !.programCounter = pc, !.rafagas = r, !.indiceStack = s]
  BY ONLY <1>1, <1>s, pcb' = [pcb EXCEPT !.programCounter = pc, !.rafagas = r] DEF PCBs
<1>3. /\ pcb' \in PCBs
      /\ pcb'.cantidadPaginasCodigo = pcb.cantidadPaginasCodigo
      /\ pcb'.indiceCodigo = pcb.indiceCodigo
      /\ pcb'.indiceEtiquetas = pcb.indiceEtiquetas
      /\ pcb'.indiceStack = s
  BY ONLY BienPCB, pc \in Int \cup {BASURA}, r \in Nat, s \in Seq(Contextos), <1>2,
          OtroContador
<1> QED
  BY <1>3, <1>s DEF BienPCB, Contexto, TodoEnElPrimero

LEMMA PasoSinPCB ==
  ASSUME BienPCB, pcb' = pcb, limpieza' = limpieza
  PROVE  BienPCB' /\ Contexto' = Contexto
BY DEF BienPCB, Contexto, TodoEnElPrimero

(* A step of an analyser that changes neither the PCB nor the end of the   *)
(* stack, and that does not begin a turn.                                  *)
LEMMA PasoQuieto ==
  ASSUME IInv, pcb' = pcb, limpieza' = limpieza,
         punteroAPosicionEnStack' = punteroAPosicionEnStack, EnTurno' => EnTurno
  PROVE  BienPCB' /\ BienPuntero'
<1>1. BienPCB' /\ Contexto' = Contexto
  BY PasoSinPCB DEF IInv
<1> QED
  BY <1>1 DEF IInv, BienPuntero

LEMMA ContextoBien ==
  ASSUME BienPCB
  PROVE  /\ Contexto \in Contextos
         /\ Contexto = pcb.indiceStack[1]
         /\ pcb.programCounter \in Int \cup {BASURA}
         /\ pcb = [pcb EXCEPT !.programCounter = pcb.programCounter]
<1>1. pcb.indiceStack \in Seq(Contextos) /\ Len(pcb.indiceStack) >= 1
      /\ pcb.programCounter \in Int \cup {BASURA}
  BY DEF BienPCB, PCBs
<1>2. Contexto = pcb.indiceStack[1]
  BY DEF Contexto, Actual, POSICION_STACK_ACTUAL
<1>3. pcb = [pcb EXCEPT !.programCounter = pcb.programCounter]
  BY DEF BienPCB, PCBs
<1>4. pcb.indiceStack[1] \in Contextos
  BY ONLY <1>1
<1> QED
  BY ONLY <1>1, <1>2, <1>3, <1>4

(* Only the context changes.                                               *)
LEMMA PasoConContexto ==
  ASSUME BienPCB, NEW c \in Contextos, Fin(c) <= Limite, pcb' = ConContexto(c),
         ~limpieza' => Debajo(c) /\ Sueltas(c)
  PROVE  BienPCB' /\ Contexto' = c
<1>1. PICK q : q = ConContexto(c)
  OBVIOUS
<1>2. q \in PCBs
  BY <1>1, OtroContexto
<1>3. PICK pc \in Int \cup {BASURA} : pc = q.programCounter
  BY <1>2 DEF PCBs
<1>4. q = [q EXCEPT !.programCounter = pc]
  BY ONLY <1>2, <1>3 DEF PCBs
<1>5. pcb' = [ConContexto(c) EXCEPT !.programCounter = pc]
  BY <1>1, <1>4
<1> QED
  BY <1>5, PasoDeContexto

(* The PCB that iniciarPCB makes, at the start and after every block.      *)
LEMMA PCBDelPrincipio ==
  pcb = PCB_INICIAL => BienPCB /\ Contexto.vars = << >>
<1> SUFFICES ASSUME pcb = PCB_INICIAL PROVE BienPCB /\ Contexto.vars = << >>
  OBVIOUS
<1>0. PICK c, E : /\ E = << >>
                  /\ c = [pos |-> 0, args |-> E, vars |-> E, retPos |-> BASURA,
                          retVar |-> BASURA]
  OBVIOUS
<1>1. c \in Contextos
  <2>1. /\ E \in Seq(Variable(Direcciones))
        /\ E \in Seq(Variable(Direcciones \cup {BASURA}))
    BY ONLY <1>0
  <2> QED
    BY ONLY <1>0, <2>1 DEF Contextos
<1>2. pcb \in PCBs /\ pcb.indiceStack = <<c>>
  <2>1. PCB_INICIAL \in
          [pid : Nat, programCounter : Int, cantidadPaginasCodigo : Nat,
           indiceCodigo : Seq(Int), indiceEtiquetas : Seq(Int), rafagas : {0},
           indiceStack : {<<c>>}]
    BY PilaAssumption, <1>0
  <2>2. PICK P : P = Seq(Contextos)
    OBVIOUS
  <2>3. <<c>> \in P
    BY ONLY <1>1, <2>2
  <2>4. /\ PCB_INICIAL.indiceStack = <<c>>
        /\ PCB_INICIAL \in
             [pid : Int, programCounter : Int \cup {BASURA},
              cantidadPaginasCodigo : Int, indiceCodigo : Seq(Int),
              indiceEtiquetas : Seq(Int), rafagas : Nat, indiceStack : P]
    BY ONLY <2>1, <2>3, SMTT(30)
  <2> QED
    BY <2>2, <2>4 DEF PCBs
<1>3. Contexto = c /\ Len(pcb.indiceStack) = 1
  BY ONLY <1>2 DEF Contexto, Actual, POSICION_STACK_ACTUAL
<1>4. Fin(c) = Base /\ DOMAIN c.args = {} /\ DOMAIN c.vars = {}
  <2>1. Len(E) = 0 /\ DOMAIN E = {}
    BY ONLY <1>0
  <2>2. c.args = E /\ c.vars = E
    BY ONLY <1>0
  <2> QED
    BY ONLY <2>1, <2>2, BaseNat DEF Fin, TamVariable
<1>5. TodoEnElPrimero
  BY ONLY <1>3 DEF TodoEnElPrimero
<1>6. Fin(Contexto) <= Limite
  BY <1>3, <1>4, BaseNat DEF Limite, TamVariable
<1>7. Debajo(Contexto) /\ Sueltas(Contexto)
  BY ONLY <1>3, <1>4 DEF Debajo, Sueltas, Ocupadas
<1>8. BienPCB
  BY <1>2, <1>3, <1>5, <1>6, <1>7 DEF BienPCB
<1>9. Contexto.vars = << >>
  BY ONLY <1>0, <1>3
<1> QED
  BY <1>8, <1>9

LEMMA AlReiniciar ==
  pcb' = PCB_INICIAL => BienPCB' /\ Contexto'.vars = << >>
<1>1. (pcb = PCB_INICIAL => BienPCB /\ Contexto.vars = << >>)'
  BY PCBDelPrincipio, PTL
<1> QED
  BY <1>1

LEMMA PilaInicial == Init => IInv
<1> SUFFICES ASSUME Init PROVE IInv
  OBVIOUS
<1>8. BienPCB
  BY PCBDelPrincipio DEF Init
<1>9. BienPuntero
  BY DEF BienPuntero, EnTurno, Init
<1>10. BienElResto
  <2>1. QUANTUM \in Nat
    BY PilaAssumption
  <2>2. /\ cpu = "espera" /\ banderas = {} /\ quantum = QUANTUM
        /\ punteroAPosicionEnStack = 0 /\ puntero = NINGUNA
        /\ memoria \in [Posiciones -> VALORES] /\ limpieza = FALSE
    BY DEF Init
  <2>3. quantum \in 0 .. QUANTUM /\ punteroAPosicionEnStack \in Nat
    BY ONLY <2>1, <2>2
  <2> QED
    BY ONLY <2>2, <2>3 DEF BienElResto
<1> QED
  BY <1>8, <1>9, <1>10 DEF IInv

LEMMA ListaDeMas ==
  ASSUME NEW A, NEW B, A \subseteq B, NEW s \in Seq(A)
  PROVE  s \in Seq(B)
OBVIOUS

(* The trip of the PCB, whichever way: the context of the program stays    *)
(* and those above are lost.                                               *)
LEMMA Viaje ==
  ASSUME BienPCB, pcb' = deserializarPCB(serializarPCB(pcb)), limpieza' = limpieza
  PROVE  /\ BienPCB'
         /\ Fin(Contexto') = Fin(Contexto)
         /\ Contexto'.vars = Contexto.vars
         /\ EnPila(pcb'.indiceStack) = Len(Contexto'.args) + Len(Contexto'.vars)
         /\ pcb'.cantidadPaginasCodigo = PCB_INICIAL.cantidadPaginasCodigo
<1>1. PICK V, c, d : /\ V = Variable(Direcciones \cup {BASURA})
                     /\ c = pcb.indiceStack[1]
                     /\ d = [c EXCEPT !.retVar = BASURA]
  OBVIOUS
<1>2. ASSUME NEW x \in Contextos
      PROVE  x \in ContextosDe(V)
  <2>1. PICK A, B : A = Variable(Direcciones) /\ B = Seq(V)
    OBVIOUS
  <2>2. A \subseteq V
    BY ONLY <1>1, <2>1 DEF Variable
  <2>3. /\ x.vars \in Seq(A) /\ x.args \in Seq(V)
        /\ x.pos \in Nat /\ x.retPos \in Int \cup {BASURA}
        /\ x.retVar \in Posiciones \cup {NINGUNA, BASURA}
        /\ x = [pos |-> x.pos, args |-> x.args, vars |-> x.vars,
                retPos |-> x.retPos, retVar |-> x.retVar]
    <3>1. PICK N, R, Q, S : /\ N = Seq(V) /\ S = Seq(A) /\ R = Int \cup {BASURA}
                            /\ Q = Posiciones \cup {NINGUNA, BASURA}
      OBVIOUS
    <3>2. x \in [pos : Nat, args : N, vars : S, retPos : R, retVar : Q]
      BY ONLY <1>1, <2>1, <3>1, x \in Contextos DEF Contextos
    <3>3. /\ x.vars \in S /\ x.args \in N /\ x.pos \in Nat
          /\ x.retPos \in R /\ x.retVar \in Q
          /\ x = [pos |-> x.pos, args |-> x.args, vars |-> x.vars,
                  retPos |-> x.retPos, retVar |-> x.retVar]
      BY ONLY <3>2
    <3> QED
      BY ONLY <3>1, <3>3
  <2>4. x.vars \in B /\ x.args \in B
    BY ONLY <2>1, <2>2, <2>3, ListaDeMas
  <2>5. x.retVar \in Int \cup {BASURA} /\ x.pos \in Int
    BY ONLY <2>3, BaseNat DEF NINGUNA
  <2>6. ContextosDe(V) = [pos : Int, args : B, vars : B, retPos : Int \cup {BASURA},
                          retVar : Int \cup {BASURA}]
    BY ONLY <2>1 DEF ContextosDe
  <2>7. x \in [pos : Int, args : B, vars : B, retPos : Int \cup {BASURA},
               retVar : Int \cup {BASURA}]
    BY ONLY <2>3, <2>4, <2>5
  <2> QED
    BY ONLY <2>6, <2>7
<1>3. pcb \in PCBsDe(V) /\ Len(pcb.indiceStack) >= 1
  <2>1. pcb \in PCBs /\ Len(pcb.indiceStack) >= 1
    BY DEF BienPCB
  <2>2. PICK I, M, N, P, J : /\ I = Seq(Int) /\ M = Seq(Contextos)
                             /\ N = ContextosDe(V) /\ P = Seq(N)
                             /\ J = Int \cup {BASURA}
    OBVIOUS
  <2>3. pcb \in [pid : Int, programCounter : J, cantidadPaginasCodigo : Int,
                 indiceCodigo : I, indiceEtiquetas : I, rafagas : Nat,
                 indiceStack : M]
    BY ONLY <2>1, <2>2 DEF PCBs
  <2>4. Contextos \subseteq N
    BY ONLY <1>2, <2>2
  <2>5. pcb.indiceStack \in P
    <3>1. pcb.indiceStack \in Seq(Contextos)
      BY ONLY <2>2, <2>3
    <3> QED
      BY ONLY <2>2, <2>4, <3>1, ListaDeMas
  <2>6. pcb \in [pid : Int, programCounter : J, cantidadPaginasCodigo : Int,
                 indiceCodigo : I, indiceEtiquetas : I, rafagas : Int,
                 indiceStack : P]
    BY ONLY <2>3, <2>5
  <2> QED
    BY ONLY <2>1, <2>2, <2>6 DEF PCBsDe
<1>4. pcb' = [pcb EXCEPT !.indiceStack = <<d>>]
  BY ONLY <1>1, <1>3, IdaYVuelta, pcb' = deserializarPCB(serializarPCB(pcb))
<1>5. c \in Contextos /\ Contexto = c
  BY <1>1, ContextoBien
<1>6. d \in Contextos /\ d.args = c.args /\ d.vars = c.vars
  BY ONLY <1>1, <1>5 DEF Contextos
<1>7. /\ pcb' \in PCBs /\ pcb'.indiceStack = <<d>>
      /\ pcb'.cantidadPaginasCodigo = pcb.cantidadPaginasCodigo
      /\ pcb'.indiceCodigo = pcb.indiceCodigo
      /\ pcb'.indiceEtiquetas = pcb.indiceEtiquetas
  <2>1. PICK P : P = Seq(Contextos)
    OBVIOUS
  <2>2. <<d>> \in P
    BY ONLY <1>6, <2>1
  <2>3. pcb \in PCBs
    BY DEF BienPCB
  <2> QED
    BY ONLY <1>4, <2>1, <2>2, <2>3 DEF PCBs
<1>8. Contexto' = d /\ Len(pcb'.indiceStack) = 1
  BY ONLY <1>7 DEF Contexto, Actual, POSICION_STACK_ACTUAL
<1>9. TodoEnElPrimero'
  BY ONLY <1>8 DEF TodoEnElPrimero
<1>10. Fin(d) = Fin(c) /\ (Debajo(c) => Debajo(d)) /\ (Sueltas(c) => Sueltas(d))
  BY ONLY <1>6 DEF Fin, Debajo, Sueltas
<1>11. BienPCB'
  BY <1>5, <1>7, <1>8, <1>9, <1>10 DEF BienPCB
<1>12. EnPila(pcb'.indiceStack) = Len(Contexto'.args) + Len(Contexto'.vars)
  BY ONLY <1>7, <1>8 DEF EnPila
<1>13. Contexto'.vars = Contexto.vars
  BY ONLY <1>5, <1>6, <1>8
<1>14. Fin(Contexto') = Fin(Contexto)
  BY ONLY <1>5, <1>8, <1>10
<1>15. pcb'.cantidadPaginasCodigo = PCB_INICIAL.cantidadPaginasCodigo
  BY ONLY <1>11 DEF BienPCB
<1> QED
  BY ONLY <1>11, <1>12, <1>13, <1>14, <1>15

LEMMA PasoLlamar ==
  ASSUME IInv, NEW salto \in SALTOS, NEW retVar \in {BASURA, puntero},
         Llamar(salto, retVar)
  PROVE  BienPCB' /\ Contexto' = Contexto
<1>a. /\ BienPCB /\ BienElResto
      /\ Contexto \in Contextos /\ Contexto = pcb.indiceStack[1]
      /\ pcb.programCounter \in Int \cup {BASURA}
  BY ContextoBien DEF IInv
<1>b. /\ Fin(Contexto) <= Limite
      /\ ~limpieza => Debajo(Contexto) /\ Sueltas(Contexto)
  BY <1>a DEF BienPCB
<1>1. PICK c, pila, s : /\ c = ContextoNuevo(retVar) /\ s = pcb.indiceStack
                        /\ pila = Append(s, c)
  OBVIOUS
<1>2. s \in Seq(Contextos) /\ Len(s) >= 1 /\ pcb.rafagas \in Nat
  BY <1>a, <1>1 DEF BienPCB, PCBs
<1>3. c \in Contextos /\ c.args = << >> /\ c.vars = << >>
  <2>1. s[Len(s)] \in Contextos
    BY ONLY <1>2
  <2>2. s[Len(s)].pos + 1 \in Nat
    BY ONLY <2>1 DEF Contextos
  <2>3. retVar \in Posiciones \cup {NINGUNA, BASURA}
    BY <1>a DEF BienElResto
  <2>4. PICK E : E = << >>
    OBVIOUS
  <2>5. c = [pos |-> s[Len(s)].pos + 1, args |-> E, vars |-> E,
             retPos |-> pcb.programCounter, retVar |-> retVar]
    BY ONLY <1>1, <2>4 DEF ContextoNuevo
  <2>6. /\ E \in Seq(Variable(Direcciones))
        /\ E \in Seq(Variable(Direcciones \cup {BASURA}))
    BY ONLY <2>4
  <2> QED
    BY ONLY <1>a, <2>2, <2>3, <2>4, <2>5, <2>6 DEF Contextos
<1>4. /\ pila \in Seq(Contextos) /\ Len(pila) = Len(s) + 1
      /\ \A i \in 1 .. Len(s) : pila[i] = s[i]
      /\ pila[Len(s) + 1] = c
  BY ONLY <1>1, <1>2, <1>3
<1>5. /\ pcb' = [pcb EXCEPT !.programCounter = salto, !.rafagas = pcb.rafagas,
                            !.indiceStack = pila]
      /\ limpieza' = limpieza
  BY <1>a, <1>1 DEF Llamar, BienPCB, PCBs
<1>6. salto \in Int \cup {BASURA}
  BY PilaAssumption
<1>7. /\ pcb' \in PCBs
      /\ pcb'.cantidadPaginasCodigo = pcb.cantidadPaginasCodigo
      /\ pcb'.indiceCodigo = pcb.indiceCodigo
      /\ pcb'.indiceEtiquetas = pcb.indiceEtiquetas
      /\ pcb'.indiceStack = pila
  BY ONLY <1>a, <1>2, <1>4, <1>5, <1>6, OtroContador
<1>8. Contexto' = Contexto
  BY ONLY <1>a, <1>1, <1>2, <1>4, <1>7 DEF Contexto, Actual, POSICION_STACK_ACTUAL
<1>9. TodoEnElPrimero'
  <2>1. \A i \in 2 .. Len(s) : s[i].args = << >> /\ s[i].vars = << >>
    BY ONLY <1>a, <1>1 DEF BienPCB, TodoEnElPrimero
  <2> QED
    BY ONLY <1>2, <1>3, <1>4, <1>7, <2>1 DEF TodoEnElPrimero
<1>10. Len(pcb'.indiceStack) >= 1
  BY ONLY <1>2, <1>4, <1>7
<1>11. BienPCB'
  BY ONLY <1>a, <1>b, <1>5, <1>7, <1>8, <1>9, <1>10 DEF BienPCB
<1> QED
  BY <1>8, <1>11

LEMMA Siguiente == IInv /\ Next => IInv'
<1> SUFFICES ASSUME IInv, Next PROVE IInv'
  OBVIOUS
<1>a. /\ BienPCB /\ BienPuntero /\ BienElResto
      /\ Contexto \in Contextos /\ Contexto = pcb.indiceStack[1]
      /\ pcb.programCounter \in Int \cup {BASURA}
  BY ContextoBien DEF IInv
<1>b. /\ Fin(Contexto) <= Limite
      /\ ~limpieza => Debajo(Contexto) /\ Sueltas(Contexto)
      /\ Fin(Contexto) \in Nat /\ Base \in Nat /\ Limite \in Nat
      /\ MAX_VARIABLES \in Nat
  BY <1>a, LugaresDeContexto, BaseNat DEF BienPCB
<1>1. CASE recibirPCBDeKernel
  <2>1. /\ BienPCB'
        /\ Fin(Contexto') = Fin(Contexto)
        /\ EnPila(pcb'.indiceStack) = Len(Contexto'.args) + Len(Contexto'.vars)
        /\ pcb'.cantidadPaginasCodigo = PCB_INICIAL.cantidadPaginasCodigo
    BY <1>1, <1>a, Viaje DEF recibirPCBDeKernel, serializarPCBKernel
  <2>2. punteroAPosicionEnStack' = Fin(Contexto')
    BY <1>1, <2>1 DEF recibirPCBDeKernel, obtenerUltimoPunteroStack, Fin, Base
  <2>3. Fin(Contexto') \in Posiciones \cup {Limite}
    BY <1>a, <1>b, <2>1, FinEsPosicion
  <2>4. BienPuntero'
    BY <1>b, <2>1, <2>2, <2>3 DEF BienPuntero
  <2>5. BienElResto'
    BY <1>1, <1>a, <1>b, <2>1, <2>2 DEF recibirPCBDeKernel, BienElResto
  <2> QED
    BY <2>1, <2>4, <2>5 DEF IInv
<1>2. CASE pedirLineaAMemoria
  <2>1. BienPCB' /\ BienPuntero'
    BY <1>2, PasoQuieto DEF pedirLineaAMemoria, EnTurno
  <2>2. BienElResto'
    BY <1>2, <1>a DEF pedirLineaAMemoria, BienElResto
  <2> QED
    BY <2>1, <2>2 DEF IInv
<1>3. CASE FinDeLinea
  <2>1. PICK pc : pc = IF pcb.programCounter = BASURA THEN BASURA
                       ELSE pcb.programCounter + 1
    OBVIOUS
  <2>2. pc \in Int \cup {BASURA}
    BY ONLY <1>a, <2>1
  <2>3. pcb' = [pcb EXCEPT !.programCounter = pc, !.rafagas = pcb.rafagas + 1]
    BY <1>3, <2>1 DEF FinDeLinea
  <2>4. pcb.rafagas + 1 \in Nat
    BY <1>a DEF BienPCB, PCBs
  <2>5. limpieza' = limpieza
    BY <1>3 DEF FinDeLinea
  <2>6. BienPCB' /\ Contexto' = Contexto
    BY ONLY <1>a, <2>2, <2>3, <2>4, <2>5, MismaPila
  <2>7. BienPuntero'
    BY <1>3, <1>a, <2>6 DEF FinDeLinea, BienPuntero, EnTurno
  <2>8. BienElResto'
    <3>1. cpu \in {"linea", "avanza"} /\ quantum' = quantum - 1
      BY <1>3 DEF FinDeLinea, modificarQuantum
    <3>2. QUANTUM \in Nat
      BY PilaAssumption
    <3>3. quantum \in 0 .. QUANTUM /\ quantum # 0
      BY <1>a, <3>1 DEF BienElResto
    <3>4. quantum' \in 0 .. QUANTUM
      BY ONLY <3>1, <3>2, <3>3
    <3> QED
      BY <1>3, <1>a, <3>4 DEF FinDeLinea, BienElResto
  <2> QED
    BY <2>6, <2>7, <2>8 DEF IInv
<1>4. CASE enviarPCBAKernel
  <2>1. BienPCB'
    <3>1. CASE pcb' = pcb /\ limpieza' = limpieza
      BY <1>4, <1>a, <3>1, PasoSinPCB DEF enviarPCBAKernel
    <3>2. CASE pcb' = deserializarPCB(serializarPCB(pcb)) /\ limpieza' = limpieza
      BY <1>a, <3>2, Viaje
    <3>3. CASE pcb' = PCB_INICIAL
      BY <3>3, AlReiniciar
    <3>4. limpieza \in BOOLEAN
      BY <1>a DEF BienElResto
    <3> QED
      BY <1>4, <3>1, <3>2, <3>3, <3>4 DEF enviarPCBAKernel, PCBDespues, deserializarPCBKernel
  <2>2. cpu' \in {"terminado", "espera", "caida", "indefinida"}
    BY <1>4 DEF enviarPCBAKernel
  <2>3. BienPuntero'
    BY <2>2 DEF BienPuntero, EnTurno
  <2>4. BienElResto'
    <3>1. QUANTUM \in 0 .. QUANTUM
      BY PilaAssumption
    <3>2. limpieza' \in BOOLEAN
      BY <1>4, <1>a DEF enviarPCBAKernel, BienElResto
    <3> QED
      BY <1>4, <1>a, <2>2, <3>1, <3>2 DEF enviarPCBAKernel, BienElResto
  <2> QED
    BY <2>1, <2>3, <2>4 DEF IInv
<1>5. ASSUME NEW id \in NOMBRES \cup ARGUMENTOS, definirVariable(id)
      PROVE  IInv'
  <2>1. CASE StackOverflow
    <3>1. BienPCB' /\ BienPuntero'
      BY <1>5, <2>1, PasoQuieto DEF definirVariable, EnTurno
    <3>2. BienElResto'
      BY <1>5, <2>1, <1>a DEF definirVariable, BienElResto
    <3> QED
      BY <3>1, <3>2 DEF IInv
  <2>2. CASE ~StackOverflow
    <3>1. PICK p, v, d : /\ p = punteroAPosicionEnStack /\ v = VariableNueva(id)
                         /\ d = IF id \in ARGUMENTOS
                                THEN [Contexto EXCEPT !.args = Append(@, v)]
                                ELSE [Contexto EXCEPT !.vars = Append(@, v)]
      OBVIOUS
    <3>2. /\ cpu = "linea" /\ cpu' = cpu /\ p < Limite
          /\ pcb' = ConContexto(d) /\ limpieza' = limpieza
          /\ punteroAPosicionEnStack' = p + TamVariable
          /\ puntero' = convertirDeDireccionAPuntero(v.direccionDeVariable)
          /\ UNCHANGED <<banderas, quantum, memoria>>
      BY <1>5, <2>2, <3>1
      DEF definirVariable, agregarArgumentoAStack, agregarVariableAStack, Limite
    <3>3. /\ p \in Posiciones /\ Fin(Contexto) <= p
          /\ ~limpieza => p = Fin(Contexto)
      <4>1. p \in Posiciones \cup {Limite} /\ Fin(Contexto) <= p
            /\ (~limpieza => p = Fin(Contexto))
        BY <1>a, <3>1, <3>2 DEF BienPuntero, EnTurno
      <4> QED
        BY <1>b, <3>2, <4>1
    <3>4. v \in Variable(Direcciones)
          /\ v.direccionDeVariable = obtenerDireccionDePuntero(p)
      <4>1. v = [nombreVariable |-> id,
                 direccionDeVariable |-> obtenerDireccionDePuntero(p)]
        BY ONLY <3>1 DEF VariableNueva
      <4>2. obtenerDireccionDePuntero(p) \in Direcciones
        BY ONLY <3>3 DEF Direcciones
      <4>3. id \in NOMBRES \cup ARGUMENTOS
        BY <1>5
      <4> QED
        BY ONLY <4>1, <4>2, <4>3 DEF Variable
    <3>5. /\ d \in Contextos
          /\ Fin(d) = Fin(Contexto) + TamVariable
          /\ p = Fin(Contexto) /\ Debajo(Contexto) /\ Sueltas(Contexto)
               => Debajo(d) /\ Sueltas(d)
      <4>1. CASE id \in ARGUMENTOS
        <5>1. d = [Contexto EXCEPT !.args = Append(@, v)]
          BY ONLY <3>1, <4>1
        <5> QED
          BY ONLY <1>a, <3>3, <3>4, <5>1, AgregarArgumento
      <4>2. CASE id \notin ARGUMENTOS
        <5>1. d = [Contexto EXCEPT !.vars = Append(@, v)]
          BY ONLY <3>1, <4>2
        <5> QED
          BY ONLY <1>a, <3>3, <3>4, <5>1, AgregarVariable
      <4> QED
        BY <4>1, <4>2
    <3>6. /\ p \in Nat /\ p + TamVariable \in Posiciones \cup {Limite}
          /\ p + TamVariable <= Limite /\ TamVariable = 4
      BY ONLY <3>3, PosicionSiguiente DEF TamVariable
    <3>7. Fin(d) <= Limite /\ Fin(d) <= p + TamVariable
          /\ (~limpieza => p + TamVariable = Fin(d))
      BY ONLY <1>b, <3>3, <3>5, <3>6
    <3>8. ~limpieza' => Debajo(d) /\ Sueltas(d)
      BY ONLY <1>b, <3>2, <3>3, <3>5
    <3>9. BienPCB' /\ Contexto' = d
      BY ONLY <1>a, <3>2, <3>5, <3>7, <3>8, PasoConContexto
    <3>10. BienPuntero'
      BY ONLY <3>2, <3>6, <3>7, <3>9 DEF BienPuntero
    <3>11. BienElResto'
      <4>1. puntero' = p
        BY ONLY <3>2, <3>4, <3>6, Direccion
      <4>2. p + TamVariable \in Nat
        BY ONLY <3>6
      <4> QED
        BY ONLY <1>a, <3>2, <3>3, <4>1, <4>2 DEF BienElResto
    <3> QED
      BY <3>9, <3>10, <3>11 DEF IInv
  <2> QED
    BY <2>1, <2>2
<1>6. ASSUME NEW id \in NOMBRES \cup ARGUMENTOS, PosicionDeVariable(id)
      PROVE  IInv'
  <2>1. BienPCB' /\ BienPuntero'
    BY <1>6, PasoQuieto DEF PosicionDeVariable, EnTurno
  <2>2. puntero' \in Posiciones \cup {NINGUNA}
    <3>1. CASE puntero' = NINGUNA
      BY <3>1
    <3>2. ASSUME NEW i \in PrimeraCon(id),
                 puntero' = convertirDeDireccionAPuntero(Contexto.vars[i].direccionDeVariable)
          PROVE  puntero' \in Posiciones
      <4>1. i \in DOMAIN Contexto.vars
        BY DEF PrimeraCon
      <4> QED
        BY <1>a, <3>2, <4>1, LugaresDeContexto DEF Lugar
    <3> QED
      BY <1>6, <3>1, <3>2 DEF PosicionDeVariable
  <2>3. BienElResto'
    BY <1>6, <1>a, <2>2 DEF PosicionDeVariable, BienElResto
  <2> QED
    BY <2>1, <2>3 DEF IInv
<1>7. ASSUME NEW id \in ARGUMENTOS, PosicionDeArgumento(id)
      PROVE  IInv'
  <2>1. /\ cpu = "linea" /\ cpu' \in {"linea", "indefinida", "caida"}
        /\ UNCHANGED <<banderas, quantum, punteroAPosicionEnStack, memoria, limpieza>>
    BY <1>7 DEF PosicionDeArgumento
  <2>2. CASE UNCHANGED <<pcb, puntero>>
    <3>1. BienPCB' /\ BienPuntero'
      BY <2>1, <2>2, PasoQuieto DEF EnTurno
    <3>2. BienElResto'
      BY <2>1, <2>2, <1>a DEF BienElResto
    <3> QED
      BY <3>1, <3>2 DEF IInv
  <2>3. ASSUME NEW k \in DOMAIN Contexto.args,
               Contexto.args[k].direccionDeVariable # BASURA,
               puntero' = convertirDeDireccionAPuntero(Contexto.args[k].direccionDeVariable),
               pcb' = ConContexto([Contexto EXCEPT !.args[k].direccionDeVariable = BASURA])
        PROVE  IInv'
    <3>1. PICK d : d = [Contexto EXCEPT !.args[k].direccionDeVariable = BASURA]
      OBVIOUS
    <3>2. /\ d \in Contextos
          /\ Fin(d) = Fin(Contexto)
          /\ Debajo(Contexto) /\ Sueltas(Contexto) => Debajo(d) /\ Sueltas(d)
      BY ONLY <1>a, <3>1, k \in DOMAIN Contexto.args, SoltarArgumento
    <3>3. pcb' = ConContexto(d) /\ limpieza' = limpieza
      BY <2>1, <2>3, <3>1
    <3>4. BienPCB' /\ Contexto' = d
      <4>1. Fin(d) <= Limite /\ (~limpieza' => Debajo(d) /\ Sueltas(d))
        BY ONLY <1>b, <3>2, <3>3
      <4> QED
        BY ONLY <1>a, <3>2, <3>3, <4>1, PasoConContexto
    <3>5. BienPuntero'
      BY ONLY <1>a, <2>1, <3>2, <3>4 DEF BienPuntero, EnTurno
    <3>6. puntero' \in Posiciones
      <4>1. k \in Ocupadas(Contexto.args)
        BY <2>3 DEF Ocupadas
      <4> QED
        BY <1>a, <2>3, <4>1, LugaresDeContexto DEF Lugar
    <3>7. BienElResto'
      BY ONLY <1>a, <2>1, <3>6 DEF BienElResto
    <3> QED
      BY <3>4, <3>5, <3>7 DEF IInv
  <2> QED
    BY <1>7, <2>2, <2>3 DEF PosicionDeArgumento
<1>8. ASSUME NEW valor \in VALORES, asignar(valor)
      PROVE  IInv'
  <2>1. BienPCB' /\ BienPuntero'
    BY <1>8, PasoQuieto DEF asignar, EnTurno
  <2>2. BienElResto'
    BY <1>8, <1>a DEF asignar, BienElResto
  <2> QED
    BY <2>1, <2>2 DEF IInv
<1>9. CASE dereferenciar
  <2>1. BienPCB' /\ BienPuntero'
    BY <1>9, PasoQuieto DEF dereferenciar, EnTurno
  <2>2. BienElResto'
    BY <1>9, <1>a DEF dereferenciar, BienElResto
  <2> QED
    BY <2>1, <2>2 DEF IInv
<1>10. ASSUME NEW salto \in SALTOS, irAlLabel(salto)
       PROVE  IInv'
  <2>1. salto \in Int \cup {BASURA} /\ pcb.rafagas \in Nat
    BY <1>a, PilaAssumption DEF BienPCB, PCBs
  <2>2. pcb' = [pcb EXCEPT !.programCounter = salto, !.rafagas = pcb.rafagas]
        /\ limpieza' = limpieza
    BY <1>10, <1>a DEF irAlLabel, BienPCB, PCBs
  <2>3. BienPCB' /\ Contexto' = Contexto
    BY ONLY <1>a, <2>1, <2>2, MismaPila
  <2>4. BienPuntero'
    BY <1>10, <1>a, <2>3 DEF irAlLabel, BienPuntero, EnTurno
  <2>5. BienElResto'
    BY <1>10, <1>a DEF irAlLabel, BienElResto
  <2> QED
    BY <2>3, <2>4, <2>5 DEF IInv
<1>11. ASSUME NEW salto \in SALTOS, NEW retVar \in {BASURA, puntero},
              Llamar(salto, retVar)
       PROVE  IInv'
  <2>1. BienPCB' /\ Contexto' = Contexto
    BY <1>11, PasoLlamar
  <2>2. BienPuntero'
    BY <1>11, <1>a, <2>1 DEF Llamar, BienPuntero, EnTurno
  <2>3. BienElResto'
    BY <1>11, <1>a DEF Llamar, BienElResto
  <2> QED
    BY <2>1, <2>2, <2>3 DEF IInv
<1>12. ASSUME pcb' = [ConContexto(ContextoVacio) EXCEPT !.programCounter = Contexto.retPos],
              limpieza' = TRUE, punteroAPosicionEnStack' = punteroAPosicionEnStack,
              EnTurno
       PROVE  BienPCB' /\ BienPuntero'
  <2>1. PICK d : d = [Contexto EXCEPT !.args = << >>, !.vars = << >>]
    OBVIOUS
  <2>2. d \in Contextos /\ Fin(d) = Base
    BY ONLY <1>a, <2>1, SinVariables
  <2>3. PICK pc \in Int \cup {BASURA} : pc = Contexto.retPos
    BY ONLY <1>a DEF Contextos
  <2>4. pcb' = [ConContexto(d) EXCEPT !.programCounter = pc]
    BY <1>12, <2>1, <2>3 DEF ContextoVacio
  <2>5. Base <= Limite /\ Base <= Fin(Contexto)
    <3>1. PICK x, y : x = Len(Contexto.args) /\ y = Len(Contexto.vars)
      OBVIOUS
    <3>2. x \in Nat /\ y \in Nat
      BY <1>a, <3>1, LugaresDeContexto
    <3>3. Fin(Contexto) = Base + 4 * (x + y) /\ Limite = Base + 4 * MAX_VARIABLES
      BY ONLY <3>1 DEF Fin, Limite, TamVariable
    <3> QED
      BY ONLY <1>b, <3>2, <3>3
  <2>6. BienPCB' /\ Contexto' = d
    BY ONLY <1>12, <1>a, <2>2, <2>3, <2>4, <2>5, PasoDeContexto
  <2>7. /\ punteroAPosicionEnStack \in Posiciones \cup {Limite}
        /\ Fin(Contexto) <= punteroAPosicionEnStack
    BY ONLY <1>12, <1>a DEF BienPuntero
  <2>8. Base <= punteroAPosicionEnStack
    BY ONLY <1>b, <2>5, <2>7, BaseNat
  <2> QED
    BY ONLY <1>12, <2>2, <2>6, <2>7, <2>8 DEF BienPuntero
<1>13. CASE finalizar \/ retornar
  <2>1. BienElResto'
    BY <1>13, <1>a DEF finalizar, retornar, BienElResto
  <2>2. CASE UNCHANGED <<pcb, limpieza>>
    <3>1. BienPCB' /\ BienPuntero'
      BY <1>13, <2>2, PasoQuieto DEF finalizar, retornar, EnTurno
    <3> QED
      BY <2>1, <3>1 DEF IInv
  <2>3. CASE pcb' = [ConContexto(ContextoVacio) EXCEPT !.programCounter = Contexto.retPos]
             /\ limpieza' = TRUE
    <3>1. EnTurno /\ punteroAPosicionEnStack' = punteroAPosicionEnStack
      BY <1>13 DEF finalizar, retornar, EnTurno
    <3> QED
      BY <1>12, <2>1, <2>3, <3>1 DEF IInv
  <2> QED
    BY <1>13, <2>2, <2>3 DEF finalizar, retornar
<1>14. CASE pedirWait
  <2>1. BienPCB' /\ BienPuntero'
    BY <1>14, PasoQuieto DEF pedirWait, EnTurno
  <2>2. BienElResto'
    BY <1>14, <1>a DEF pedirWait, BienElResto
  <2> QED
    BY <2>1, <2>2 DEF IInv
<1>15. CASE enviarPCBAnterior
  <2>1. BienPCB' /\ BienPuntero'
    BY <1>15, <1>a, PasoSinPCB DEF enviarPCBAnterior, BienPuntero, EnTurno
  <2>2. BienElResto'
    BY <1>15, <1>a DEF enviarPCBAnterior, BienElResto
  <2> QED
    BY <2>1, <2>2 DEF IInv
<1> QED
  BY <1>1, <1>2, <1>3, <1>4, <1>5, <1>6, <1>7, <1>8, <1>9, <1>10, <1>11, <1>12,
     <1>13, <1>14, <1>15
  DEF Next, Primitiva, obtenerPosicionVariable, llamarSinRetorno, llamarConRetorno

THEOREM PilaInvariante == Spec => []IInv
<1>1. IInv /\ [Next]_vars => IInv'
  <2>1. ASSUME IInv, UNCHANGED vars
        PROVE  IInv'
    <3>1. BienPCB' /\ BienPuntero'
      BY <2>1, PasoQuieto DEF vars, EnTurno
    <3>2. BienElResto'
      BY <2>1 DEF vars, IInv, BienElResto
    <3> QED
      BY <3>1, <3>2 DEF IInv
  <2> QED
    BY <2>1, Siguiente
<1> QED
  BY <1>1, PilaInicial, PTL DEF Spec

(* The PCB, the pointers and what Memoria holds keep their types.          *)
THEOREM TiposDeLaPila == Spec => []TypeOK
BY PilaInvariante, Tipos, PTL

(* No two variables share a byte, whatever the turns.                      *)
THEOREM NadieSeSolapa == Spec => []SinSolapar
BY PilaInvariante, Tipos, PTL

(* The contexts of the functions stay empty.                               *)
THEOREM FuncionesSinContexto == Spec => []TodoEnElPrimero
BY PilaInvariante, Tipos, PTL

-----------------------------------------------------------------------------
(* The refinement.                                                         *)

Fiel == ~limpieza /\ cpu \notin {"indefinida", "duplicada"}

Bloqueada == "bloqueado" \in banderas /\ cpu \in {"avanza", "turno"}

(* A blocked program that is taken away from the CPU.                      *)
Reinicia == Bloqueada /\ ~Bloqueada' /\ pcb' = PCB_INICIAL

PrimeraDe(s, n) ==
  {i \in DOMAIN s : /\ s[i].nombreVariable = n
                    /\ \A j \in 1 .. (i - 1) : s[j].nombreVariable # n}

NombresDe(s) == {s[i].nombreVariable : i \in DOMAIN s}

LugarDe(s, n) == Lugar(s, CHOOSE i \in PrimeraDe(s, n) : TRUE)

ValoresDe(s, m) == [n \in NombresDe(s) |-> m[LugarDe(s, n)]]

Declarada(f, n, x) ==
  [o \in DOMAIN f \cup {n} |-> IF o \in DOMAIN f THEN f[o] ELSE x]

Dada(f, n, x) == [f EXCEPT ![n] = x]

Alcanzables(s, m) == \A n \in NombresDe(s) : m[LugarDe(s, n)] \in VALORES

Apartadas(s) ==
  /\ \A i \in DOMAIN s : Lugar(s, i) \in Posiciones
  /\ \A i, j \in DOMAIN s : i # j => Separados(Lugar(s, i), Lugar(s, j))

Con(s, v) == Append(s, v)

LEMMA Traduccion ==
  /\ Valores = ValoresDe(Contexto.vars, memoria)
  /\ Valores' = ValoresDe(Contexto'.vars, memoria')
BY DEF Valores, ValoresDe, Declaradas, NombresDe, PrimeraCon, PrimeraDe, LugarDe, Lugar

(* A name that was declared has one first place in the list.               *)
LEMMA HayPrimera ==
  ASSUME NEW V, NEW s \in Seq(V), NEW n \in NombresDe(s)
  PROVE  \E k \in DOMAIN s : /\ PrimeraDe(s, n) = {k}
                             /\ LugarDe(s, n) = Lugar(s, k)
                             /\ s[k].nombreVariable = n
<1>1. DOMAIN s = 1 .. Len(s) /\ Len(s) \in Nat
  BY LargoDeLista
<1>2. PICK T : T = {i \in DOMAIN s : s[i].nombreVariable = n}
  OBVIOUS
<1>3. T \in SUBSET Nat /\ T # {}
  BY <1>1, <1>2 DEF NombresDe
<1>4. PICK k \in T : \A m \in T : k <= m
  BY <1>3, HayMinimo
<1>5. k \in DOMAIN s /\ s[k].nombreVariable = n
  BY <1>2
<1>6. \A j \in 1 .. (k - 1) : s[j].nombreVariable # n
  BY <1>1, <1>2, <1>4, <1>5
<1>7. \A i \in PrimeraDe(s, n) : i = k
  BY <1>1, <1>2, <1>4, <1>5 DEF PrimeraDe
<1>8. PrimeraDe(s, n) = {k}
  BY <1>5, <1>6, <1>7 DEF PrimeraDe
<1> QED
  BY ONLY <1>5, <1>8 DEF LugarDe

(* A variable more at the end: the others keep their first places.         *)
LEMMA UnNombreMas ==
  ASSUME NEW V, NEW s \in Seq(V), NEW v \in V, NEW t, t = Append(s, v),
         NEW n \in NombresDe(s)
  PROVE  LugarDe(t, n) = LugarDe(s, n)
<1>1. /\ DOMAIN s = 1 .. Len(s) /\ Len(s) \in Nat
      /\ DOMAIN t = 1 .. (Len(s) + 1) /\ t \in Seq(V)
      /\ \A i \in 1 .. Len(s) : t[i] = s[i]
  OBVIOUS
<1>2. PICK k \in DOMAIN s : /\ PrimeraDe(s, n) = {k}
                            /\ LugarDe(s, n) = Lugar(s, k)
                            /\ s[k].nombreVariable = n
  BY HayPrimera
<1>3. k \in PrimeraDe(t, n)
  <2>1. /\ k \in 1 .. Len(s)
        /\ \A j \in 1 .. (k - 1) : s[j].nombreVariable # n
    BY <1>1, <1>2 DEF PrimeraDe
  <2>2. \A j \in 1 .. (k - 1) : t[j] = s[j]
    BY <1>1, <2>1
  <2> QED
    BY ONLY <1>1, <1>2, <2>1, <2>2 DEF PrimeraDe
<1>4. n \in NombresDe(t)
  BY <1>3 DEF PrimeraDe, NombresDe
<1>5. LugarDe(t, n) = Lugar(t, k)
  <2>1. PICK h \in DOMAIN t : PrimeraDe(t, n) = {h} /\ LugarDe(t, n) = Lugar(t, h)
    BY ONLY <1>1, <1>4, HayPrimera
  <2> QED
    BY <1>3, <2>1
<1>6. Lugar(t, k) = Lugar(s, k)
  BY <1>1, <1>2 DEF Lugar
<1> QED
  BY <1>2, <1>5, <1>6

LEMMA PasoDeclarar ==
  ASSUME NEW V, NEW s \in Seq(V), NEW v \in V, NEW t, t = Con(s, v),
         NEW m, Alcanzables(t, m), NEW o, o = v.nombreVariable
  PROVE  \E x \in VALORES : ValoresDe(t, m) = Declarada(ValoresDe(s, m), o, x)
<1>1. /\ DOMAIN s = 1 .. Len(s) /\ Len(s) \in Nat
      /\ DOMAIN t = 1 .. (Len(s) + 1)
      /\ \A i \in 1 .. Len(s) : t[i] = s[i]
      /\ t[Len(s) + 1] = v
  BY DEF Con
<1>2. NombresDe(t) = NombresDe(s) \cup {v.nombreVariable}
  <2>1. \A i \in DOMAIN t : i \in DOMAIN s \/ i = Len(s) + 1
    BY ONLY <1>1
  <2>2. Len(s) + 1 \in DOMAIN t /\ \A i \in DOMAIN s : i \in DOMAIN t /\ t[i] = s[i]
    BY ONLY <1>1
  <2> QED
    BY ONLY <1>1, <2>1, <2>2 DEF NombresDe
<1>3. \A n \in NombresDe(s) : LugarDe(t, n) = LugarDe(s, n)
  BY UnNombreMas DEF Con
<1>4. PICK x : x = m[LugarDe(t, v.nombreVariable)]
  OBVIOUS
<1>5. x \in VALORES
  BY <1>2, <1>4 DEF Alcanzables
<1>6. DOMAIN ValoresDe(s, m) = NombresDe(s)
  BY DEF ValoresDe
<1>7. ValoresDe(t, m) = [n \in NombresDe(s) \cup {v.nombreVariable} |->
                           IF n \in NombresDe(s) THEN ValoresDe(s, m)[n] ELSE x]
  BY ONLY <1>2, <1>3, <1>4 DEF ValoresDe
<1> QED
  BY ONLY <1>5, <1>6, <1>7, o = v.nombreVariable DEF Declarada

LEMMA PasoDar ==
  ASSUME NEW V, NEW s \in Seq(V), NEW m \in [Posiciones -> VALORES],
         NEW p \in Posiciones, NEW x \in VALORES,
         NEW w, w = Dada(m, p, x), Apartadas(s)
  PROVE  \/ ValoresDe(s, w) = ValoresDe(s, m)
         \/ \E n \in DOMAIN ValoresDe(s, m) :
              ValoresDe(s, w) = Dada(ValoresDe(s, m), n, x)
<1>1. DOMAIN ValoresDe(s, m) = NombresDe(s)
  BY DEF ValoresDe
<1>2. \A n \in NombresDe(s) : LugarDe(s, n) \in Posiciones
  BY HayPrimera DEF Apartadas
<1>3. ASSUME NEW n \in NombresDe(s), NEW o \in NombresDe(s), n # o
      PROVE  LugarDe(s, n) # LugarDe(s, o)
  <2>1. PICK k \in DOMAIN s : LugarDe(s, n) = Lugar(s, k) /\ s[k].nombreVariable = n
    BY HayPrimera
  <2>2. PICK h \in DOMAIN s : LugarDe(s, o) = Lugar(s, h) /\ s[h].nombreVariable = o
    BY HayPrimera
  <2>3. k # h /\ Lugar(s, k) \in Int /\ Lugar(s, h) \in Int
    BY <1>3, <2>1, <2>2, BaseNat DEF Apartadas
  <2>4. Separados(Lugar(s, k), Lugar(s, h))
    BY <2>3 DEF Apartadas
  <2> QED
    BY ONLY <2>1, <2>2, <2>3, <2>4 DEF Separados, TamVariable
<1>4. CASE \E n \in NombresDe(s) : LugarDe(s, n) = p
  <2>1. PICK n \in NombresDe(s) : LugarDe(s, n) = p
    BY <1>4
  <2>2. \A o \in NombresDe(s) : o # n => LugarDe(s, o) # p
    BY <1>3, <2>1
  <2>3. ValoresDe(s, w) = Dada(ValoresDe(s, m), n, x)
    BY <1>2, <2>1, <2>2 DEF ValoresDe, Dada
  <2> QED
    BY <1>1, <2>3
<1>5. CASE \A n \in NombresDe(s) : LugarDe(s, n) # p
  BY <1>2, <1>5 DEF ValoresDe, Dada
<1> QED
  BY <1>4, <1>5

LEMMA InicioFiel == Init => Promesa!Init
<1> SUFFICES ASSUME Init PROVE Promesa!Init
  OBVIOUS
<1>1. Contexto.vars = << >>
  BY PCBDelPrincipio DEF Init
<1>2. Declaradas = {}
  BY ONLY <1>1 DEF Declaradas
<1>3. Valores = << >>
  BY ONLY <1>2 DEF Valores
<1>4. Fiel /\ ~Bloqueada
  BY DEF Init, Fiel, Bloqueada
<1> QED
  BY <1>3, <1>4 DEF Promesa!Init, Fiel, Bloqueada

(* The context put in the place of the program's is read from there.       *)
LEMMA ContextoPuesto ==
  ASSUME BienPCB, NEW c, pcb' = ConContexto(c)
  PROVE  Contexto' = c
<1>1. pcb \in PCBs /\ Len(pcb.indiceStack) >= 1
  BY DEF BienPCB
<1>2. PICK s : s = pcb.indiceStack
  OBVIOUS
<1>3. s \in Seq(Contextos) /\ Len(s) >= 1
  BY ONLY <1>1, <1>2 DEF PCBs
<1>4. pcb' = [pcb EXCEPT !.indiceStack = [s EXCEPT ![1] = c]]
  BY ONLY <1>2, pcb' = ConContexto(c) DEF ConContexto, Actual, POSICION_STACK_ACTUAL
<1>5. pcb'.indiceStack = [s EXCEPT ![1] = c]
  BY ONLY <1>1, <1>4 DEF PCBs
<1>6. [s EXCEPT ![1] = c][1] = c
  BY ONLY <1>3
<1> QED
  BY ONLY <1>5, <1>6 DEF Contexto, Actual, POSICION_STACK_ACTUAL

LEMMA UltimaDeLista ==
  ASSUME NEW V, NEW s \in Seq(V), NEW v, Append(s, v) \in Seq(V)
  PROVE  v \in V
<1>1. Append(s, v)[Len(s) + 1] = v /\ Len(Append(s, v)) = Len(s) + 1 /\ Len(s) \in Nat
  OBVIOUS
<1> QED
  BY <1>1

(* Nothing the promise is about comes back but with a new start: the CPU   *)
(* that broke the stack stops, and a context is emptied for good.  A       *)
(* program that is blocked is so until then.                               *)
LEMMA FielEraFiel ==
  ASSUME Next, Fiel', ~Reinicia
  PROVE  /\ Fiel
         /\ Bloqueada => Bloqueada'
         /\ cpu = "linea" /\ cpu' = "linea" => Bloqueada' = Bloqueada
<1> USE DEF Bloqueada
<1>1. CASE recibirPCBDeKernel
  BY <1>1 DEF recibirPCBDeKernel, Fiel
<1>2. CASE pedirLineaAMemoria
  BY <1>2 DEF pedirLineaAMemoria, Fiel
<1>3. CASE FinDeLinea
  BY <1>3 DEF FinDeLinea, Fiel
<1>4. CASE enviarPCBAKernel
  <2>1. pcb' = PCBDespues /\ limpieza' = (limpieza /\ "bloqueado" \notin banderas)
        /\ cpu' \in {"terminado", "espera", "caida"} /\ cpu = "turno"
    BY <1>4 DEF enviarPCBAKernel, Fiel
  <2>2. "bloqueado" \notin banderas
    BY <2>1 DEF PCBDespues, Reinicia
  <2> QED
    BY <2>1, <2>2 DEF Fiel
<1>5. CASE \E id \in NOMBRES \cup ARGUMENTOS : definirVariable(id)
  BY <1>5 DEF definirVariable, Fiel
<1>6. CASE \E id \in NOMBRES \cup ARGUMENTOS : PosicionDeVariable(id)
  BY <1>6 DEF PosicionDeVariable, Fiel
<1>7. CASE \E id \in ARGUMENTOS : PosicionDeArgumento(id)
  BY <1>7 DEF PosicionDeArgumento, Fiel
<1>8. CASE \E valor \in VALORES : asignar(valor)
  BY <1>8 DEF asignar, Fiel
<1>9. CASE dereferenciar
  BY <1>9 DEF dereferenciar, Fiel
<1>10. CASE \E salto \in SALTOS : irAlLabel(salto)
  BY <1>10 DEF irAlLabel, Fiel
<1>11. CASE \E salto \in SALTOS, retVar \in {BASURA, puntero} : Llamar(salto, retVar)
  BY <1>11 DEF Llamar, Fiel
<1>12. CASE finalizar \/ retornar
  BY <1>12 DEF finalizar, retornar, Fiel
<1>13. CASE pedirWait
  BY <1>13 DEF pedirWait, Fiel
<1>14. CASE enviarPCBAnterior
  BY <1>14 DEF enviarPCBAnterior, Fiel
<1> QED
  BY <1>1, <1>2, <1>3, <1>4, <1>5, <1>6, <1>7, <1>8, <1>9, <1>10, <1>11, <1>12, <1>13, <1>14
  DEF Next, Primitiva, obtenerPosicionVariable, llamarSinRetorno, llamarConRetorno

(* A step that leaves the variables of the program and Memoria alone.      *)
LEMMA PasoMudo ==
  ASSUME Contexto'.vars = Contexto.vars, memoria' = memoria
  PROVE  Valores' = Valores
BY Traduccion

LEMMA PasoMismoPCB ==
  ASSUME pcb' = pcb, memoria' = memoria
  PROVE  Valores' = Valores
BY PasoMudo DEF Contexto

LEMMA PasoFiel ==
  ASSUME IInv, Next, Fiel', ~Reinicia
  PROVE  \/ Valores' = Valores
         \/ /\ cpu = "linea" /\ cpu' = "linea"
            /\ \/ \E n \in NOMBRES, x \in VALORES :
                    Valores' = Declarada(Valores, n, x)
               \/ \E n \in DOMAIN Valores, x \in VALORES :
                    Valores' = Dada(Valores, n, x)
<1>a. /\ BienPCB /\ BienPuntero /\ BienElResto
      /\ Contexto \in Contextos
      /\ pcb.programCounter \in Int \cup {BASURA}
  BY ContextoBien DEF IInv
<1>b. Fiel /\ IInv'
  BY FielEraFiel, Siguiente
<1>c. limpieza' = limpieza /\ ~limpieza
  <2>1. ~limpieza /\ ~(limpieza')
    BY <1>b DEF Fiel
  <2>2. limpieza \in BOOLEAN /\ limpieza' \in BOOLEAN
    BY <1>a, <1>b DEF IInv, BienElResto
  <2> QED
    BY ONLY <2>1, <2>2
<1>d. /\ Contexto' \in Contextos /\ memoria \in [Posiciones -> VALORES]
      /\ memoria' \in [Posiciones -> VALORES]
  <2>1. memoria \in [Posiciones -> VALORES] /\ memoria' \in [Posiciones -> VALORES]
    BY <1>a, <1>b DEF IInv, BienElResto
  <2>2. pcb'.indiceStack \in Seq(Contextos) /\ Len(pcb'.indiceStack) >= 1
    BY <1>b DEF IInv, BienPCB, PCBs
  <2>3. Contexto' = pcb'.indiceStack[1]
    BY DEF Contexto, Actual, POSICION_STACK_ACTUAL
  <2>4. PICK p : p = pcb'.indiceStack
    OBVIOUS
  <2>5. p[1] \in Contextos
    BY ONLY <2>2, <2>4
  <2> QED
    BY ONLY <2>1, <2>3, <2>4, <2>5
<1>e. PICK V : V = Variable(Direcciones)
  OBVIOUS
<1>f. /\ Contexto.vars \in Seq(V) /\ Contexto'.vars \in Seq(V)
      /\ \A i \in DOMAIN Contexto.vars : Lugar(Contexto.vars, i) \in Posiciones
      /\ \A i \in DOMAIN Contexto'.vars : Lugar(Contexto'.vars, i) \in Posiciones
  BY ONLY <1>a, <1>d, <1>e, LugaresDeContexto DEF Contextos
<1>1. CASE recibirPCBDeKernel
  <2>1. Contexto'.vars = Contexto.vars
    BY <1>1, <1>a, Viaje DEF recibirPCBDeKernel, serializarPCBKernel
  <2> QED
    BY <1>1, <2>1, PasoMudo DEF recibirPCBDeKernel
<1>2. CASE pedirLineaAMemoria
  BY <1>2, PasoMismoPCB DEF pedirLineaAMemoria
<1>3. CASE FinDeLinea
  <2>1. Contexto' = Contexto
    BY <1>3 DEF FinDeLinea, Contexto
  <2> QED
    BY <1>3, <2>1, PasoMudo DEF FinDeLinea
<1>4. CASE enviarPCBAKernel
  <2>1. CASE pcb' = pcb
    BY <1>4, <2>1, PasoMismoPCB DEF enviarPCBAKernel
  <2>2. CASE pcb' = deserializarPCB(serializarPCB(pcb)) /\ memoria' = memoria
    <3>1. Contexto'.vars = Contexto.vars
      BY <1>a, <1>c, <2>2, Viaje
    <3> QED
      BY <1>4, <3>1, PasoMudo DEF enviarPCBAKernel
  <2>3. \/ pcb' = pcb
        \/ pcb' = PCBDespues /\ cpu = "turno" /\ cpu' \in {"terminado", "espera", "caida"}
    BY <1>4 DEF enviarPCBAKernel
  <2>4. pcb' = PCBDespues /\ cpu = "turno" /\ cpu' \in {"terminado", "espera", "caida"} =>
          "bloqueado" \notin banderas
    BY DEF PCBDespues, Reinicia, Bloqueada
  <2>5. memoria' = memoria
    BY <1>4 DEF enviarPCBAKernel
  <2> QED
    BY <2>1, <2>2, <2>3, <2>4, <2>5 DEF PCBDespues, deserializarPCBKernel
<1>5. ASSUME NEW id \in NOMBRES \cup ARGUMENTOS, definirVariable(id)
      PROVE  \/ Valores' = Valores
             \/ \E n \in NOMBRES, x \in VALORES :
                  Valores' = Declarada(Valores, n, x)
  <2>1. CASE pcb' = pcb
    BY <1>5, <2>1, PasoMismoPCB DEF definirVariable
  <2>2. CASE id \in ARGUMENTOS /\ agregarArgumentoAStack(id)
    <3>1. PICK d : d = [Contexto EXCEPT !.args = Append(@, VariableNueva(id))]
      OBVIOUS
    <3>2. pcb' = ConContexto(d)
      BY <2>2, <3>1 DEF agregarArgumentoAStack
    <3>3. Contexto' = d
      BY ONLY <1>a, <3>2, ContextoPuesto
    <3>4. d.vars = Contexto.vars
      BY ONLY <1>a, <3>1 DEF Contextos
    <3> QED
      BY <1>5, <3>3, <3>4, PasoMudo DEF definirVariable
  <2>3. CASE id \notin ARGUMENTOS /\ agregarVariableAStack(id)
    <3>1. PICK d, v : /\ v = VariableNueva(id)
                      /\ d = [Contexto EXCEPT !.vars = Append(@, v)]
      OBVIOUS
    <3>2. pcb' = ConContexto(d)
      BY <2>3, <3>1 DEF agregarVariableAStack
    <3>3. Contexto' = d
      BY ONLY <1>a, <3>2, ContextoPuesto
    <3>4. PICK s, t : s = Contexto.vars /\ t = Contexto'.vars
      OBVIOUS
    <3>5. t = Append(s, v)
      BY ONLY <1>a, <3>1, <3>3, <3>4 DEF Contextos
    <3>6. s \in Seq(V) /\ t \in Seq(V)
      BY ONLY <1>f, <3>4
    <3>7. v \in V
      BY ONLY <3>4, <3>5, <3>6, UltimaDeLista
    <3>8. Alcanzables(t, memoria)
      <4>1. \A i \in DOMAIN t : Lugar(t, i) \in Posiciones
        BY ONLY <1>f, <3>4
      <4>2. ASSUME NEW n \in NombresDe(t) PROVE LugarDe(t, n) \in Posiciones
        <5>1. PICK k \in DOMAIN t : LugarDe(t, n) = Lugar(t, k)
          BY ONLY <3>6, <4>2, HayPrimera
        <5> QED
          BY ONLY <4>1, <5>1
      <4> QED
        BY ONLY <1>d, <4>2 DEF Alcanzables
    <3>9. PICK m, o : m = memoria /\ o = v.nombreVariable
      OBVIOUS
    <3>10. \E x \in VALORES : ValoresDe(t, m) = Declarada(ValoresDe(s, m), o, x)
      <4>1. Alcanzables(t, m)
        BY ONLY <3>8, <3>9
      <4>2. t = Con(s, v)
        BY ONLY <3>5 DEF Con
      <4> QED
        BY ONLY <3>6, <3>7, <3>9, <4>1, <4>2, PasoDeclarar
    <3>11. o = id /\ id \in NOMBRES
      BY <2>3, <3>1, <3>9 DEF VariableNueva
    <3>12. memoria' = memoria
      BY <1>5 DEF definirVariable
    <3> QED
      BY ONLY <3>4, <3>9, <3>10, <3>11, <3>12, Traduccion
  <2> QED
    BY <1>5, <2>1, <2>2, <2>3 DEF definirVariable
<1>6. CASE \E id \in NOMBRES \cup ARGUMENTOS : PosicionDeVariable(id)
  BY <1>6, PasoMismoPCB DEF PosicionDeVariable
<1>7. ASSUME NEW id \in ARGUMENTOS, PosicionDeArgumento(id)
      PROVE  Valores' = Valores
  <2>1. CASE pcb' = pcb
    BY <1>7, <2>1, PasoMismoPCB DEF PosicionDeArgumento
  <2>2. ASSUME NEW k,
               pcb' = ConContexto([Contexto EXCEPT !.args[k].direccionDeVariable = BASURA])
        PROVE  Valores' = Valores
    <3>1. PICK d : d = [Contexto EXCEPT !.args[k].direccionDeVariable = BASURA]
      OBVIOUS
    <3>2. d.vars = Contexto.vars
      BY ONLY <1>a, <3>1 DEF Contextos
    <3>3. Contexto' = d
      BY ONLY <1>a, <2>2, <3>1, ContextoPuesto
    <3> QED
      BY <1>7, <3>2, <3>3, PasoMudo DEF PosicionDeArgumento
  <2> QED
    BY <1>7, <2>1, <2>2 DEF PosicionDeArgumento
<1>8. ASSUME NEW valor \in VALORES, asignar(valor)
      PROVE  \/ Valores' = Valores
             \/ \E n \in DOMAIN Valores, x \in VALORES :
                  Valores' = Dada(Valores, n, x)
  <2>1. CASE memoria' = memoria
    BY <1>8, <2>1, PasoMismoPCB DEF asignar
  <2>2. CASE puntero # NINGUNA /\ memoria' = [memoria EXCEPT ![puntero] = valor]
    <3>1. puntero \in Posiciones
      BY <1>a, <2>2 DEF BienElResto
    <3>2. PICK s : s = Contexto.vars
      OBVIOUS
    <3>3. Apartadas(s)
      BY <1>a, <1>c, <1>f, <3>2 DEF BienPCB, Sueltas, Apartadas
    <3>4. Contexto' = Contexto
      BY <1>8 DEF asignar, Contexto
    <3>6. PICK m, w, p : /\ m = memoria /\ w = memoria' /\ p = puntero
                         /\ w = Dada(m, p, valor)
      BY <2>2 DEF Dada
    <3>7. \/ ValoresDe(s, w) = ValoresDe(s, m)
          \/ \E n \in DOMAIN ValoresDe(s, m) :
               ValoresDe(s, w) = Dada(ValoresDe(s, m), n, valor)
      <4>1. m \in [Posiciones -> VALORES] /\ p \in Posiciones /\ s \in Seq(V)
        BY ONLY <1>d, <1>f, <3>1, <3>2, <3>6
      <4> QED
        BY ONLY <4>1, <3>3, <3>6, valor \in VALORES, PasoDar
    <3>8. Valores = ValoresDe(s, m) /\ Valores' = ValoresDe(s, w)
      BY ONLY <3>2, <3>4, <3>6, Traduccion
    <3> QED
      BY ONLY <3>7, <3>8, valor \in VALORES
  <2> QED
    BY <1>8, <2>1, <2>2 DEF asignar
<1>9. CASE dereferenciar
  BY <1>9, PasoMismoPCB DEF dereferenciar
<1>10. CASE \E salto \in SALTOS : irAlLabel(salto)
  <2>1. Contexto' = Contexto
    BY <1>10 DEF irAlLabel, Contexto
  <2> QED
    BY <1>10, <2>1, PasoMudo DEF irAlLabel
<1>11. ASSUME NEW salto \in SALTOS, NEW retVar \in {BASURA, puntero},
              Llamar(salto, retVar)
       PROVE  Valores' = Valores
  <2>1. Contexto' = Contexto
    BY <1>11, PasoLlamar
  <2> QED
    BY <1>11, <2>1, PasoMudo DEF Llamar
<1>12. CASE finalizar \/ retornar
  <2>1. pcb' = pcb /\ memoria' = memoria
    BY <1>12, <1>c DEF finalizar, retornar
  <2> QED
    BY <2>1, PasoMismoPCB
<1>13. CASE pedirWait
  BY <1>13, PasoMismoPCB DEF pedirWait
<1>14. CASE enviarPCBAnterior
  BY <1>14, PasoMismoPCB DEF enviarPCBAnterior
<1>15. /\ \A id \in NOMBRES \cup ARGUMENTOS : definirVariable(id) => cpu = "linea" /\ cpu' = "linea"
       /\ \A valor \in VALORES : asignar(valor) => cpu = "linea" /\ cpu' = "linea"
  BY DEF definirVariable, asignar
<1> QED
  BY <1>1, <1>2, <1>3, <1>4, <1>5, <1>6, <1>7, <1>8, <1>9, <1>10, <1>11, <1>12, <1>13, <1>14,
     <1>15
  DEF Next, Primitiva, obtenerPosicionVariable, llamarSinRetorno, llamarConRetorno

(* The stack implements variables that keep what they were given until a   *)
(* function ends, a freed argument is used or an old PCB is sent; and no   *)
(* step takes them away but a wait that blocks, after which the program    *)
(* starts again from the PCB of colaProcesos (kernel.c:474-481).           *)
THEOREM PilaImplementaVariables == Spec => VariablesIntactas
<1>1. IInv /\ [Next]_vars => [Promesa!Next]_(Promesa!vars)
  <2>1. ASSUME IInv, Next, Fiel', ~Reinicia
        PROVE  Promesa!Next \/ UNCHANGED Promesa!vars
    <3>1. /\ Fiel
          /\ Bloqueada => Bloqueada'
          /\ cpu = "linea" /\ cpu' = "linea" => Bloqueada' = Bloqueada
      BY <2>1, FielEraFiel
    <3>2. CASE Valores' = Valores
      BY <2>1, <3>1, <3>2 DEF Promesa!Next, Promesa!vars, Promesa!Bloquear, Fiel, Bloqueada
    <3>3. CASE Bloqueada' = Bloqueada /\ \E n \in NOMBRES, x \in VALORES :
                 Valores' = Declarada(Valores, n, x)
      BY <2>1, <3>1, <3>3 DEF Promesa!Next, Promesa!Declarar, Declarada, Fiel, Bloqueada
    <3>4. CASE Bloqueada' = Bloqueada /\ \E n \in DOMAIN Valores, x \in VALORES :
                 Valores' = Dada(Valores, n, x)
      BY <2>1, <3>1, <3>4 DEF Promesa!Next, Promesa!Dar, Dada, Fiel, Bloqueada
    <3> QED
      BY <2>1, <3>1, <3>2, <3>3, <3>4, PasoFiel
  <2>2. ASSUME Next, ~Fiel'
        PROVE  Promesa!Next
    BY <2>2 DEF Promesa!Next, Promesa!Romper, Fiel
  <2>3. ASSUME UNCHANGED vars
        PROVE  UNCHANGED Promesa!vars
    BY <2>3, PasoMismoPCB DEF vars, Promesa!vars
  <2>4. ASSUME Fiel', Reinicia
        PROVE  Promesa!Next
    <3>1. Contexto'.vars = << >>
      BY <2>4, AlReiniciar DEF Reinicia
    <3>2. Declaradas' = {}
      BY ONLY <3>1 DEF Declaradas
    <3>3. Valores' = << >>
      BY ONLY <3>2 DEF Valores
    <3> QED
      BY <2>4, <3>3 DEF Promesa!Next, Promesa!Reiniciar, Reinicia, Bloqueada, Fiel
  <2> QED
    BY <2>1, <2>2, <2>3, <2>4
<1> QED
  BY <1>1, InicioFiel, PilaInvariante, PTL DEF Spec, VariablesIntactas, Promesa!Spec
=============================================================================

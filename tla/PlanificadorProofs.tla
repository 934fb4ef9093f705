------------------------- MODULE PlanificadorProofs -------------------------
(***************************************************************************)
(* Proofs about the scheduler.  A process is where one list operation left *)
(* it: each action takes its entry out of one place and puts it in the     *)
(* next one, or leaves it alone.  What travels between a thread and its    *)
(* CPU is the hard part: that the answer a CPU waits for is the one it     *)
(* takes holds only until a stale PCB has been taken for it.               *)
(***************************************************************************)
EXTENDS Planificador, SequenceTheorems, FiniteSetTheorems, WellFoundedInduction,
        TLAPS

(* A non-empty set of naturals has a least element.                        *)
LEMMA HayMinimo ==
  ASSUME NEW T \in SUBSET Nat, T # {}
  PROVE  \E n \in T : \A m \in T : n <= m
<1> DEFINE Menor == {ss \in Nat \X Nat : ss[1] < ss[2]}
<1>1. IsWellFoundedOn(Menor, Nat)
  BY NatLessThanWellFounded, Zenon DEF OpToRel
<1>2. PICK n \in T : \A m \in T : <<m, n>> \notin Menor
  <2> HIDE DEF Menor
  <2>1. QED
    BY <1>1, WFMin
<1>3. ASSUME NEW m \in T
      PROVE  n <= m
  <2>1. <<m, n>> \notin Menor
    BY <1>2
  <2>2. ~(m < n)
    BY <2>1
  <2>3. QED
    BY <2>2
<1>4. QED
  BY <1>3

-----------------------------------------------------------------------------
(* Queues.                                                                 *)
LEMMA ElMinimo ==
  ASSUME NEW I \in SUBSET Nat, I # {}
  PROVE  Min(I) \in I
<1>1. PICK n \in I : \A m \in I : n <= m
  BY HayMinimo
<1>2. QED
  BY <1>1 DEF Min

(* Taking out the element at p leaves the others in their order.           *)
LEMMA SacarUna ==
  ASSUME NEW S, NEW s \in Seq(S), NEW p \in 1 .. Len(s)
  PROVE  /\ RemoveAt(s, p) \in Seq(S)
         /\ Len(RemoveAt(s, p)) = Len(s) - 1
         /\ \A i \in 1 .. Len(s) - 1 :
              RemoveAt(s, p)[i] = s[IF i < p THEN i ELSE i + 1]
<1> DEFINE a == SubSeq(s, 1, p - 1)
           b == SubSeq(s, p + 1, Len(s))
<1>1. Len(s) \in Nat /\ \A i \in 1 .. Len(s) : s[i] \in S
  BY LenProperties, ElementOfSeq
<1>2. /\ a \in Seq(S)
      /\ Len(a) = p - 1
      /\ \A i \in 1 .. p - 1 : a[i] = s[i]
  <2>1. 1 \in Int /\ p - 1 \in Int /\ \A i \in 1 .. p - 1 : s[i] \in S
    BY <1>1
  <2>2. /\ a \in Seq(S)
        /\ Len(a) = IF 1 <= p - 1 THEN (p - 1) - 1 + 1 ELSE 0
        /\ \A i \in 1 .. (p - 1) - 1 + 1 : a[i] = s[1 + i - 1]
    BY <2>1, SubSeqProperties
  <2>3. QED
    BY <2>2, <1>1
<1>3. /\ b \in Seq(S)
      /\ Len(b) = Len(s) - p
      /\ \A i \in 1 .. Len(s) - p : b[i] = s[p + i]
  <2>1. p + 1 \in Int /\ Len(s) \in Int /\ \A i \in p + 1 .. Len(s) : s[i] \in S
    BY <1>1
  <2>2. /\ b \in Seq(S)
        /\ Len(b) = IF p + 1 <= Len(s) THEN Len(s) - (p + 1) + 1 ELSE 0
        /\ \A i \in 1 .. Len(s) - (p + 1) + 1 : b[i] = s[p + 1 + i - 1]
    BY <2>1, SubSeqProperties
  <2>3. QED
    BY <2>2, <1>1
<1>4. RemoveAt(s, p) = a \o b
  BY DEF RemoveAt
<1>5. /\ a \o b \in Seq(S)
      /\ Len(a \o b) = Len(a) + Len(b)
      /\ \A i \in 1 .. Len(a) + Len(b) :
           (a \o b)[i] = IF i <= Len(a) THEN a[i] ELSE b[i - Len(a)]
  <2> HIDE DEF a, b
  <2>1. QED
    BY <1>2, <1>3, ConcatProperties
<1>6. QED
  <2> HIDE DEF a, b
  <2>1. ASSUME NEW i \in 1 .. Len(s) - 1
        PROVE  (a \o b)[i] = s[IF i < p THEN i ELSE i + 1]
    <3>1. CASE i < p
      BY <3>1, <1>1, <1>2, <1>3, <1>5
    <3>2. CASE ~(i < p)
      <4>1. /\ i - Len(a) \in 1 .. Len(s) - p
            /\ (a \o b)[i] = b[i - Len(a)]
        BY <3>2, <1>1, <1>2, <1>3, <1>5
      <4>2. b[i - Len(a)] = s[p + (i - Len(a))] /\ p + (i - Len(a)) = i + 1
        BY <4>1, <1>1, <1>2, <1>3
      <4>3. QED
        BY <3>2, <4>1, <4>2
    <3>3. QED
      BY <3>1, <3>2
  <2>2. QED
    BY <2>1, <1>1, <1>2, <1>3, <1>4, <1>5, SMTT(30)

(* The searches by pid and by semaphore find an entry of theirs, if there  *)
(* is one.                                                                 *)
LEMMA ElLugarDePid ==
  ASSUME NEW S, NEW s \in Seq(S), NEW p
  PROVE  /\ LugarDePid(s, p) = 0 => ~EstaEn(s, p)
         /\ LugarDePid(s, p) # 0 =>
              LugarDePid(s, p) \in DOMAIN s /\ s[LugarDePid(s, p)].pid = p
<1> DEFINE I == {i \in 1 .. Len(s) : s[i].pid = p}
<1>1. LugarDePid(s, p) = IF I # {} THEN Min(I) ELSE 0
  BY DEF LugarDePid, SelectInSeq
<1>2. DOMAIN s = 1 .. Len(s) /\ I \in SUBSET Nat
  BY LenProperties
<1>3. I = {} => ~EstaEn(s, p)
  BY <1>2 DEF EstaEn
<1>4. I # {} => Min(I) \in I /\ Min(I) # 0
  <2>1. I # {} => Min(I) \in I
    <3> HIDE DEF I
    <3>1. QED
      BY <1>2, ElMinimo
  <2>2. QED
    BY <2>1
<1>5. QED
  BY <1>1, <1>2, <1>3, <1>4

LEMMA ElLugarDeSemaforo ==
  ASSUME NEW S, NEW s \in Seq(S), NEW x
  PROVE  /\ LugarDeSemaforo(s, x) = 0 => ~\E i \in DOMAIN s : s[i].semaforo = x
         /\ LugarDeSemaforo(s, x) # 0 =>
              /\ LugarDeSemaforo(s, x) \in DOMAIN s
              /\ s[LugarDeSemaforo(s, x)].semaforo = x
<1> DEFINE I == {i \in 1 .. Len(s) : s[i].semaforo = x}
<1>1. LugarDeSemaforo(s, x) = IF I # {} THEN Min(I) ELSE 0
  BY DEF LugarDeSemaforo, SelectInSeq
<1>2. DOMAIN s = 1 .. Len(s) /\ I \in SUBSET Nat
  BY LenProperties
<1>3. I = {} => ~\E i \in DOMAIN s : s[i].semaforo = x
  BY <1>2
<1>4. I # {} => Min(I) \in I /\ Min(I) # 0
  <2>1. I # {} => Min(I) \in I
    <3> HIDE DEF I
    <3>1. QED
      BY <1>2, ElMinimo
  <2>2. QED
    BY <2>1
<1>5. QED
  BY <1>1, <1>2, <1>3, <1>4

(* RemoveFirst takes out one occurrence of an element that is there.       *)
LEMMA SacarLaPrimera ==
  ASSUME NEW S, NEW s \in Seq(S), NEW e, Contains(s, e)
  PROVE  \E i \in 1 .. Len(s) : s[i] = e /\ RemoveFirst(s, e) = RemoveAt(s, i)
<1> DEFINE I == {i \in 1 .. Len(s) : s[i] = e}
<1>1. I # {}
  BY DEF Contains
<1>2. RemoveFirst(s, e) = RemoveAt(s, Min(I))
  BY <1>1 DEF RemoveFirst, SelectInSeq
<1>3. Min(I) \in I
  <2>1. I \in SUBSET Nat
    BY LenProperties
  <2> HIDE DEF I
  <2>2. QED
    BY <1>1, <2>1, ElMinimo
<1>4. QED
  BY <1>2, <1>3

(* finalizarProceso takes out of colaBloqueado one bare PCB of the process,*)
(* or nothing.                                                             *)
LEMMA SacarLaCruda ==
  ASSUME NEW S, NEW s \in Seq(S), NEW p
  PROVE  \/ SinLaCruda(s, p) = s
         \/ \E i \in 1 .. Len(s) :
              /\ s[i].pid = p /\ s[i].semaforo = CRUDA
              /\ SinLaCruda(s, p) = RemoveAt(s, i)
<1> DEFINE I == {i \in 1 .. Len(s) : s[i].pid = p /\ s[i].semaforo = CRUDA}
<1>1. CASE I = {}
  BY <1>1 DEF SinLaCruda, RemoveFirstMatch
<1>2. CASE I # {}
  <2>1. SinLaCruda(s, p) = RemoveAt(s, Min(I))
    BY <1>2 DEF SinLaCruda, RemoveFirstMatch, SelectInSeq
  <2>2. Min(I) \in I
    <3>1. I \in SUBSET Nat
      BY LenProperties
    <3> HIDE DEF I
    <3>2. QED
      BY <1>2, <3>1, ElMinimo
  <2>3. QED
    BY <2>1, <2>2
<1>3. QED
  BY <1>1, <1>2

-----------------------------------------------------------------------------
(* What travels between a thread and its CPU.  At most one wait is on its  *)
(* way, or its answer, and only while the CPU waits; from when a CPU takes *)
(* a PCB for the answer nothing is known any more.                         *)
Hay(canal, tipos) == \E i \in DOMAIN canal : canal[i].tipo \in tipos

Unico(canal, tipos) ==
  \A i, j \in DOMAIN canal : canal[i].tipo \in tipos /\ canal[j].tipo \in tipos => i = j

Espera == {"WAIT_SEMAFORO"}

UnAviso(c) ==
  ~cpu[c].desfasada =>
    /\ cpu[c].modo # "esperando" => ~Hay(aKernel[c], Espera) /\ ~Hay(aCPU[c], Avisos)
    /\ Unico(aKernel[c], Espera) /\ Unico(aCPU[c], Avisos)
    /\ ~(Hay(aKernel[c], Espera) /\ Hay(aCPU[c], Avisos))

TipoInv == TypeOK /\ \A c \in CPUs : UnAviso(c)

LEMMA SacarMensaje ==
  ASSUME NEW S, NEW s \in Seq(S), s # << >>, NEW T
  PROVE  /\ Tail(s) \in Seq(S)
         /\ Hay(Tail(s), T) => Hay(s, T)
         /\ Unico(s, T) => Unico(Tail(s), T)
         /\ Unico(s, T) /\ Head(s).tipo \in T => ~Hay(Tail(s), T)
<1>1. /\ Len(s) \in Nat /\ Len(s) >= 1 /\ DOMAIN s = 1 .. Len(s)
      /\ Tail(s) \in Seq(S) /\ DOMAIN Tail(s) = 1 .. Len(s) - 1
      /\ Head(s) = s[1]
      /\ \A i \in 1 .. Len(s) - 1 : Tail(s)[i] = s[i + 1]
  BY HeadTailProperties, EmptySeq, LenProperties
<1>2. \A i \in DOMAIN Tail(s) : i + 1 \in DOMAIN s /\ i + 1 # 1 /\ Tail(s)[i] = s[i + 1]
  BY <1>1
<1>3. 1 \in DOMAIN s /\ DOMAIN Tail(s) \subseteq Int
  BY <1>1
<1>4. Hay(Tail(s), T) => Hay(s, T)
  BY <1>2 DEF Hay
<1>5. Unico(s, T) => Unico(Tail(s), T)
  <2> SUFFICES ASSUME Unico(s, T),
                      NEW i \in DOMAIN Tail(s), NEW j \in DOMAIN Tail(s),
                      Tail(s)[i].tipo \in T, Tail(s)[j].tipo \in T
               PROVE  i = j
    BY DEF Unico
  <2>1. i + 1 = j + 1
    BY <1>2 DEF Unico
  <2>2. QED
    BY <1>3, <2>1
<1>6. Unico(s, T) /\ Head(s).tipo \in T => ~Hay(Tail(s), T)
  BY <1>1, <1>2, <1>3 DEF Hay, Unico
<1>7. QED
  BY <1>1, <1>4, <1>5, <1>6

LEMMA PonerMensaje ==
  ASSUME NEW S, NEW s \in Seq(S), NEW e \in S, NEW T
  PROVE  /\ Append(s, e) \in Seq(S)
         /\ Hay(Append(s, e), T) <=> Hay(s, T) \/ e.tipo \in T
         /\ Unico(s, T) /\ (e.tipo \in T => ~Hay(s, T)) => Unico(Append(s, e), T)
<1> DEFINE t == Append(s, e)
<1>1. /\ Len(s) \in Nat /\ DOMAIN s = 1 .. Len(s)
      /\ t \in Seq(S) /\ DOMAIN t = 1 .. Len(s) + 1
      /\ t[Len(s) + 1] = e
      /\ \A i \in 1 .. Len(s) : t[i] = s[i]
  BY AppendProperties, LenProperties
<1>2. /\ Len(s) + 1 \in DOMAIN t /\ Len(s) + 1 \notin DOMAIN s
      /\ DOMAIN t = DOMAIN s \cup {Len(s) + 1}
  BY <1>1
<1> HIDE DEF t
<1>3. Hay(t, T) <=> Hay(s, T) \/ e.tipo \in T
  BY <1>1, <1>2 DEF Hay
<1>4. Unico(s, T) /\ (e.tipo \in T => ~Hay(s, T)) => Unico(t, T)
  BY <1>1, <1>2 DEF Hay, Unico
<1>5. QED
  BY <1>1, <1>3, <1>4 DEF t

LEMMA PonerVarios ==
  ASSUME NEW S, NEW s \in Seq(S), NEW m \in Seq(S), NEW T, ~Hay(m, T)
  PROVE  /\ s \o m \in Seq(S)
         /\ Hay(s \o m, T) <=> Hay(s, T)
         /\ Unico(s, T) => Unico(s \o m, T)
<1> DEFINE t == s \o m
<1>1. /\ Len(s) \in Nat /\ DOMAIN s = 1 .. Len(s)
      /\ Len(m) \in Nat /\ DOMAIN m = 1 .. Len(m)
      /\ t \in Seq(S) /\ DOMAIN t = 1 .. Len(s) + Len(m)
      /\ \A i \in 1 .. Len(s) + Len(m) : t[i] = IF i <= Len(s) THEN s[i] ELSE m[i - Len(s)]
  BY ConcatProperties, LenProperties
<1> HIDE DEF t
<1>2. \A i \in DOMAIN s : i \in DOMAIN t /\ t[i] = s[i]
  BY <1>1
<1>3. ASSUME NEW i \in DOMAIN t, t[i].tipo \in T
      PROVE  i \in DOMAIN s
  <2>1. CASE i <= Len(s)
    BY <1>1, <2>1
  <2>2. CASE ~(i <= Len(s))
    <3>1. i - Len(s) \in DOMAIN m /\ t[i] = m[i - Len(s)]
      BY <1>1, <2>2
    <3>2. QED
      BY <1>3, <3>1 DEF Hay
  <2>3. QED
    BY <2>1, <2>2
<1>4. Hay(t, T) <=> Hay(s, T)
  BY <1>2, <1>3 DEF Hay
<1>5. Unico(s, T) => Unico(t, T)
  BY <1>2, <1>3 DEF Unico
<1>6. QED
  BY <1>1, <1>4, <1>5 DEF t

-----------------------------------------------------------------------------
(* Taking entries out of a queue, and putting them in.                     *)
Quita(s, t, lugares) == t = s \/ \E i \in lugares : t = RemoveAt(s, i)

LugaresDe(cola, p) == {i \in DOMAIN cola : cola[i].pid = p}

LEMMA SacarQuita ==
  ASSUME NEW S, NEW s \in Seq(S), NEW I \in SUBSET DOMAIN s, NEW t, Quita(s, t, I)
  PROVE  /\ t \in Seq(S)
         /\ Len(t) <= Len(s)
         /\ \A j \in DOMAIN t : \E k \in DOMAIN s : t[j] = s[k]
         /\ \A k \in DOMAIN s \ I : \E j \in DOMAIN t : t[j] = s[k]
<1>1. Len(s) \in Nat /\ DOMAIN s = 1 .. Len(s)
  BY LenProperties
<1>2. CASE t = s
  BY <1>1, <1>2
<1>3. CASE \E i \in I : t = RemoveAt(s, i)
  <2>1. PICK i \in I : t = RemoveAt(s, i)
    BY <1>3
  <2>2. i \in 1 .. Len(s)
    BY <1>1
  <2>3. /\ t \in Seq(S) /\ Len(t) = Len(s) - 1
        /\ \A j \in 1 .. Len(s) - 1 : t[j] = s[IF j < i THEN j ELSE j + 1]
    BY <2>1, <2>2, SacarUna
  <2>4. DOMAIN t = 1 .. Len(s) - 1
    BY <2>3, LenProperties
  <2>5. ASSUME NEW j \in DOMAIN t
        PROVE  \E k \in DOMAIN s : t[j] = s[k]
    <3>1. (IF j < i THEN j ELSE j + 1) \in DOMAIN s
      BY <1>1, <2>2, <2>4
    <3>2. QED
      BY <2>3, <2>4, <3>1
  <2>6. ASSUME NEW k \in DOMAIN s \ I
        PROVE  \E j \in DOMAIN t : t[j] = s[k]
    <3>1. CASE k < i
      <4>1. k \in DOMAIN t
        BY <1>1, <2>2, <2>4, <3>1
      <4>2. QED
        BY <2>3, <2>4, <3>1, <4>1
    <3>2. CASE ~(k < i)
      <4>1. k # i /\ k \in Int /\ i \in Int
        BY <1>1, <2>2
      <4>2. k - 1 \in DOMAIN t /\ ~(k - 1 < i) /\ (k - 1) + 1 = k
        BY <1>1, <2>2, <2>4, <3>2, <4>1
      <4>3. QED
        BY <2>3, <2>4, <4>2
    <3>3. QED
      BY <3>1, <3>2
  <2>7. QED
    BY <1>1, <2>3, <2>5, <2>6
<1>4. QED
  BY <1>2, <1>3 DEF Quita

LEMMA SacarElPrimero ==
  ASSUME NEW S, NEW s \in Seq(S), s # << >>
  PROVE  /\ Head(s) \in S /\ Tail(s) \in Seq(S) /\ Len(Tail(s)) = Len(s) - 1
         /\ 1 \in DOMAIN s /\ s[1] = Head(s)
         /\ DOMAIN Tail(s) = 1 .. Len(s) - 1
         /\ \A i \in DOMAIN Tail(s) : i + 1 \in DOMAIN s /\ Tail(s)[i] = s[i + 1]
         /\ \A k \in DOMAIN s \ {1} : k - 1 \in DOMAIN Tail(s) /\ Tail(s)[k - 1] = s[k]
<1>1. /\ Len(s) \in Nat /\ Len(s) >= 1 /\ DOMAIN s = 1 .. Len(s)
      /\ Head(s) \in S /\ Tail(s) \in Seq(S) /\ DOMAIN Tail(s) = 1 .. Len(s) - 1
      /\ Head(s) = s[1] /\ Len(Tail(s)) = Len(s) - 1
      /\ \A i \in 1 .. Len(s) - 1 : Tail(s)[i] = s[i + 1]
  BY HeadTailProperties, EmptySeq, LenProperties
<1>2. ASSUME NEW k \in DOMAIN s \ {1}
      PROVE  k - 1 \in DOMAIN Tail(s) /\ Tail(s)[k - 1] = s[k]
  <2>1. k - 1 \in 1 .. Len(s) - 1 /\ (k - 1) + 1 = k
    BY <1>1
  <2>2. QED
    BY <1>1, <2>1
<1>3. QED
  BY <1>1, <1>2

LEMMA PonerAlFinal ==
  ASSUME NEW S, NEW s \in Seq(S), NEW e \in S
  PROVE  /\ Append(s, e) \in Seq(S) /\ Len(Append(s, e)) = Len(s) + 1
         /\ DOMAIN Append(s, e) = DOMAIN s \cup {Len(s) + 1}
         /\ Len(s) + 1 \notin DOMAIN s
         /\ Append(s, e)[Len(s) + 1] = e
         /\ \A i \in DOMAIN s : Append(s, e)[i] = s[i]
  BY AppendProperties, LenProperties

Bloqueos == [pid : Pids, semaforo : Semaforos \cup {CRUDA}]

(* What finalizarProceso may take out of each queue, and what it says of   *)
(* the process.                                                            *)
LEMMA EfectoDeFinalizar ==
  ASSUME TypeOK, NEW p \in Pids, finalizarProceso(p)
  PROVE  /\ Quita(colaNuevo, colaNuevo', {i \in DOMAIN colaNuevo : colaNuevo[i] = p})
         /\ Quita(colaListo, colaListo', LugaresDe(colaListo, p))
         /\ Quita(colaBloqueado, colaBloqueado',
                  {i \in LugaresDe(colaBloqueado, p) : colaBloqueado[i].semaforo = CRUDA})
         /\ liberados' \in {liberados, liberados \cup {p}}
         /\ \/ /\ estado' = estado /\ colaNuevo' = colaNuevo /\ colaListo' = colaListo
               /\ colaBloqueado' = colaBloqueado
            \/ estado' = [estado EXCEPT ![p] = "FINALIZADO"]
<1>1. CASE UNCHANGED << estado, liberados, colaNuevo, colaListo, colaBloqueado >>
  BY <1>1 DEF Quita
<1>2. CASE ~UNCHANGED << estado, liberados, colaNuevo, colaListo, colaBloqueado >>
  <2> DEFINE esNuevo == estado[p] = "NUEVO" /\ Contains(colaNuevo, p)
             i == LugarDePid(colaListo, p)
             esListo == estado[p] = "LISTO" /\ i # 0
  <2>1. /\ estado' = [estado EXCEPT ![p] = "FINALIZADO"]
        /\ colaNuevo' = IF esNuevo THEN RemoveFirst(colaNuevo, p) ELSE colaNuevo
        /\ colaListo' = IF esListo THEN RemoveAt(colaListo, i) ELSE colaListo
        /\ colaBloqueado' =
             IF estado[p] = "BLOQUEADO" THEN SinLaCruda(colaBloqueado, p) ELSE colaBloqueado
        /\ liberados' = IF esNuevo \/ (esListo /\ colaListo[i].original)
                        THEN liberados \cup {p} ELSE liberados
    BY <1>2 DEF finalizarProceso
  <2>2. /\ colaNuevo \in Seq(Pids) /\ colaListo \in Seq(PCBs) /\ colaBloqueado \in Seq(Bloqueos)
        /\ DOMAIN colaNuevo = 1 .. Len(colaNuevo)
        /\ DOMAIN colaBloqueado = 1 .. Len(colaBloqueado)
    BY LenProperties DEF TypeOK, Bloqueos
  <2>3. Quita(colaNuevo, colaNuevo', {k \in DOMAIN colaNuevo : colaNuevo[k] = p})
    <3>1. CASE esNuevo
      BY <2>1, <2>2, <3>1, SacarLaPrimera DEF Quita
    <3>2. CASE ~esNuevo
      BY <2>1, <3>2 DEF Quita
    <3>3. QED
      BY <3>1, <3>2
  <2>4. Quita(colaListo, colaListo', LugaresDe(colaListo, p))
    <3>1. i # 0 => i \in LugaresDe(colaListo, p)
      BY <2>2, ElLugarDePid DEF LugaresDe
    <3> HIDE DEF i
    <3>2. QED
      BY <2>1, <3>1 DEF Quita
  <2>5. Quita(colaBloqueado, colaBloqueado',
              {k \in LugaresDe(colaBloqueado, p) : colaBloqueado[k].semaforo = CRUDA})
    BY <2>1, <2>2, SacarLaCruda DEF Quita, LugaresDe
  <2>6. QED
    BY <2>1, <2>3, <2>4, <2>5
<1>3. QED
  BY <1>1, <1>2

-----------------------------------------------------------------------------
(* Types.                                                                  *)
SoloEnCPU(c) ==
  cpu' \in [CPUs -> EstadosCPU] /\ \A d \in CPUs \ {c} : cpu'[d] = cpu[d]

SoloEnHilo(c) ==
  hilo' \in [CPUs -> EstadosHilo] /\ \A d \in CPUs \ {c} : hilo'[d] = hilo[d]

LEMMA CambioDeCPU ==
  ASSUME TypeOK, NEW c \in CPUs, NEW e \in EstadosCPU, cpu' = [cpu EXCEPT ![c] = e]
  PROVE  SoloEnCPU(c) /\ cpu'[c] = e
BY DEF TypeOK, SoloEnCPU

LEMMA CambioDeHilo ==
  ASSUME TypeOK, NEW c \in CPUs, NEW e \in EstadosHilo, hilo' = [hilo EXCEPT ![c] = e]
  PROVE  SoloEnHilo(c) /\ hilo'[c] = e
BY DEF TypeOK, SoloEnHilo

LEMMA TipoInicial == Init => TipoInv
<1> SUFFICES ASSUME Init
             PROVE  TipoInv
  OBVIOUS
<1>1. /\ pidActual = 1 /\ estado = [p \in Pids |-> "ninguno"]
      /\ liberados = {} /\ rechazados = {} /\ colaFinalizado = {}
      /\ colaNuevo = << >> /\ colaListo = << >>
      /\ colaEjecutando = << >> /\ colaBloqueado = << >>
      /\ valorSemaforo = SEM_INIT
      /\ gradoMultiprog = GRADO_MULTIPROG
      /\ estadoPlanificacionesSistema = TRUE
      /\ planificador = [paso |-> "mirando", pid |-> 0]
      /\ aCPU = [c \in CPUs |-> << >>]
      /\ aKernel = [c \in CPUs |-> << >>]
      /\ kernel = "vivo"
  BY DEF Init
<1>2. TypeOK
  <2>1. pidActual \in Pids \cup {Cardinality(Pids) + 1}
    <3>1. Cardinality(Pids) \in Nat
      BY PidsAssumption, FS_CardinalityType
    <3>2. QED
      BY <1>1, <3>1, PidsAssumption
  <2>2. hilo \in [CPUs -> EstadosHilo] /\ cpu \in [CPUs -> EstadosCPU]
    <3>1. [paso |-> "buscando", pcb |-> SinPCB, semaforo |-> "", lectura |-> "corrida"]
            \in EstadosHilo
      BY DEF EstadosHilo
    <3>2. [modo |-> "libre", pid |-> 0, quantum |-> QUANTUM, marca |-> "",
           sigusr1 |-> FALSE, desfasada |-> FALSE] \in EstadosCPU
      BY ConfigAssumption DEF EstadosCPU
    <3>3. QED
      BY <3>1, <3>2 DEF Init
  <2>3. \A c \in CPUs : cpu[c].modo \notin {"ejecutando", "esperando"}
    <3>1. cpu = [c \in CPUs |-> [modo |-> "libre", pid |-> 0, quantum |-> QUANTUM,
                                marca |-> "", sigusr1 |-> FALSE, desfasada |-> FALSE]]
      BY DEF Init
    <3>2. QED
      BY <3>1
  <2>4. gradoMultiprog \in 0 .. GRADO_MULTIPROG /\ valorSemaforo \in [Semaforos -> Int]
    <3>1. GRADO_MULTIPROG \in Nat /\ SEM_INIT \in [Semaforos -> Int]
      BY ConfigAssumption, SemaforosAssumption
    <3>2. QED
      BY <1>1, <3>1
  <2>5. QED
    BY <1>1, <2>1, <2>2, <2>3, <2>4 DEF TypeOK
<1>3. \A c \in CPUs : aKernel[c] = << >> /\ aCPU[c] = << >>
  BY <1>1
<1>4. \A c \in CPUs : UnAviso(c)
  BY <1>3 DEF UnAviso, Hay, Unico
<1>5. QED
  BY <1>2, <1>4 DEF TipoInv

(* What does not touch a CPU nor its sockets.                              *)
LEMMA AvisosIguales ==
  ASSUME TipoInv, UNCHANGED << cpu, canales >>
  PROVE  \A c \in CPUs : UnAviso(c)'
BY DEF TipoInv, UnAviso, canales

LEMMA EfectoSIGUSR1 ==
  ASSUME TypeOK, NEW c \in CPUs, SIGUSR1(c)
  PROVE  /\ cpu' \in [CPUs -> EstadosCPU]
         /\ \A d \in CPUs : /\ cpu'[d].modo = cpu[d].modo /\ cpu'[d].pid = cpu[d].pid
                            /\ cpu'[d].desfasada = cpu[d].desfasada
                            /\ cpu'[d].quantum = cpu[d].quantum /\ cpu'[d].marca = cpu[d].marca
<1> DEFINE e == [cpu[c] EXCEPT !.sigusr1 = TRUE]
<1>1. /\ e \in EstadosCPU /\ e.modo = cpu[c].modo /\ e.pid = cpu[c].pid
      /\ e.desfasada = cpu[c].desfasada /\ e.quantum = cpu[c].quantum
      /\ e.marca = cpu[c].marca
  BY DEF TypeOK, EstadosCPU
<1>2. cpu' = [cpu EXCEPT ![c] = e]
  BY DEF SIGUSR1
<1> HIDE DEF e
<1>3. QED
  BY <1>1, <1>2, CambioDeCPU DEF SoloEnCPU

LEMMA TipoOperadores ==
  ASSUME TipoInv, Operadores
  PROVE  TipoInv'
<1> USE DEF colas, procesos, config, canales
<1>1. TypeOK
  BY DEF TipoInv
<1>2. CASE iniciarPCB
  <2>1. pidActual' \in Pids \cup {Cardinality(Pids) + 1}
    <3>1. Cardinality(Pids) \in Nat
      BY PidsAssumption, FS_CardinalityType
    <3>2. QED
      BY <1>2, <3>1, PidsAssumption DEF iniciarPCB
  <2>2. estado' \in [Pids -> {"ninguno", "NUEVO", "LISTO", "BLOQUEADO", "FINALIZADO"}]
    BY <1>1, <1>2 DEF iniciarPCB, TypeOK
  <2>3. colaNuevo' \in Seq(Pids)
    BY <1>1, <1>2 DEF iniciarPCB, TypeOK
  <2>4. TypeOK'
    BY <1>1, <1>2, <2>1, <2>2, <2>3 DEF iniciarPCB, TypeOK
  <2>5. QED
    BY <1>2, <2>4, AvisosIguales DEF iniciarPCB, TipoInv
<1>3. ASSUME NEW p \in Pids, finalizarPrograma(p)
      PROVE  TipoInv'
  <2>1. finalizarProceso(p)
    BY <1>3 DEF finalizarPrograma
  <2>2. /\ colaNuevo' \in Seq(Pids) /\ colaListo' \in Seq(PCBs)
        /\ colaBloqueado' \in Seq(Bloqueos)
    BY <1>1, <2>1, EfectoDeFinalizar, SacarQuita DEF TypeOK, Bloqueos, LugaresDe
  <2>3. /\ liberados' \subseteq Pids
        /\ estado' \in [Pids -> {"ninguno", "NUEVO", "LISTO", "BLOQUEADO", "FINALIZADO"}]
    BY <1>1, <2>1, EfectoDeFinalizar DEF TypeOK
  <2>4. TypeOK'
    BY <1>1, <1>3, <2>2, <2>3 DEF finalizarPrograma, TypeOK, Bloqueos
  <2>5. QED
    BY <1>3, <2>4, AvisosIguales DEF finalizarPrograma, TipoInv
<1>4. CASE detenerPlanificacion \/ reanudarPlanificacion
  <2>1. TypeOK'
    BY <1>1, <1>4 DEF detenerPlanificacion, reanudarPlanificacion, TypeOK
  <2>2. QED
    BY <1>4, <2>1, AvisosIguales DEF detenerPlanificacion, reanudarPlanificacion, TipoInv
<1>5. CASE modificarGradoMultiprogramacion
  <2>1. TypeOK'
    BY <1>1, <1>5 DEF modificarGradoMultiprogramacion, TypeOK
  <2>2. QED
    BY <1>5, <2>1, AvisosIguales DEF modificarGradoMultiprogramacion, TipoInv
<1>6. ASSUME NEW c \in CPUs, SIGUSR1(c)
      PROVE  TipoInv'
  <2>1. /\ cpu' \in [CPUs -> EstadosCPU]
        /\ \A d \in CPUs : /\ cpu'[d].modo = cpu[d].modo /\ cpu'[d].pid = cpu[d].pid
                           /\ cpu'[d].desfasada = cpu[d].desfasada
    BY <1>1, <1>6, EfectoSIGUSR1
  <2>2. TypeOK'
    BY <1>1, <1>6, <2>1 DEF SIGUSR1, SoloCPU, TypeOK
  <2>3. \A d \in CPUs : UnAviso(d)'
    BY <1>6, <2>1 DEF SIGUSR1, TipoInv, UnAviso
  <2>4. QED
    BY <2>2, <2>3 DEF TipoInv
<1>7. QED
  BY <1>2, <1>3, <1>4, <1>5, <1>6 DEF Operadores

LEMMA TipoPlanificador ==
  ASSUME TipoInv, planificarSistema
  PROVE  TipoInv'
<1> USE DEF colas, procesos, config, canales
<1>1. TypeOK /\ DOMAIN colaNuevo = 1 .. Len(colaNuevo)
  BY LenProperties DEF TipoInv, TypeOK
<1>2. UNCHANGED << cpu, canales >>
  BY DEF planificarSistema, MirarNuevo, GradoCompleto, TomarNuevo, Admitir, Rechazar, Caer
<1>3. CASE TomarNuevo
  <2>1. colaNuevo # << >> => Head(colaNuevo) \in Pids /\ Tail(colaNuevo) \in Seq(Pids)
    BY <1>1, SacarElPrimero DEF TypeOK
  <2>2. /\ colaNuevo' \in Seq(Pids)
        /\ planificador' \in
             [paso : {"mirando", "vioNuevo"}, pid : {0}] \cup [paso : {"pidiendo"}, pid : Pids]
    <3>1. CASE colaNuevo = << >>
      BY <1>1, <1>3, <3>1 DEF TomarNuevo, Caer, TypeOK
    <3>2. CASE colaNuevo # << >>
      <4>1. /\ planificador' = [paso |-> "pidiendo", pid |-> Head(colaNuevo)]
            /\ colaNuevo' = Tail(colaNuevo)
        BY <1>3, <3>2 DEF TomarNuevo
      <4>2. QED
        BY <2>1, <3>2, <4>1
    <3>3. QED
      BY <3>1, <3>2
  <2>3. /\ kernel' \in {"vivo", "caido"}
        /\ UNCHANGED << colaListo, colaEjecutando, colaBloqueado, colaFinalizado,
                        procesos, config, canales, valorSemaforo, hilo, cpu >>
    BY <1>1, <1>3 DEF TomarNuevo, Caer, TypeOK
  <2>4. TypeOK'
    BY <1>1, <2>2, <2>3 DEF TypeOK
  <2>5. QED
    BY <1>2, <2>4, AvisosIguales DEF TipoInv
<1>4. CASE Admitir
  <2>1. planificador.pid \in Pids
    BY <1>1, <1>4 DEF Admitir, TypeOK
  <2>2. colaListo' \in Seq(PCBs)
    BY <1>1, <1>4, <2>1, PonerAlFinal DEF Admitir, TypeOK, Original, PCBs
  <2>3. TypeOK'
    BY <1>1, <1>4, <2>2 DEF Admitir, TypeOK
  <2>4. QED
    BY <1>2, <2>3, AvisosIguales DEF TipoInv
<1>5. CASE Rechazar
  <2>1. planificador.pid \in Pids
    BY <1>1, <1>5 DEF Rechazar, TypeOK
  <2>2. TypeOK'
    BY <1>1, <1>5, <2>1 DEF Rechazar, TypeOK
  <2>3. QED
    BY <1>2, <2>2, AvisosIguales DEF TipoInv
<1>6. CASE MirarNuevo \/ GradoCompleto
  <2>1. TypeOK'
    BY <1>1, <1>6 DEF MirarNuevo, GradoCompleto, TypeOK
  <2>2. QED
    BY <1>2, <2>1, AvisosIguales DEF TipoInv
<1>7. QED
  BY <1>3, <1>4, <1>5, <1>6 DEF planificarSistema

SoloEnACPU(c) ==
  aCPU' \in [CPUs -> Seq(Envios)] /\ \A d \in CPUs \ {c} : aCPU'[d] = aCPU[d]

SoloEnAKernel(c) ==
  aKernel' \in [CPUs -> Seq(Mensajes)] /\ \A d \in CPUs \ {c} : aKernel'[d] = aKernel[d]

LEMMA EfectoEnviarPCB ==
  ASSUME TypeOK, NEW c \in CPUs, NEW p \in Pids, enviarPCB(c, p)
  PROVE  /\ SoloEnACPU(c) /\ aKernel' = aKernel
         /\ [tipo |-> "MENSAJE_PCB", pid |-> p] \in Envios
         /\ aCPU[c] \in Seq(Envios)
         /\ aCPU'[c] = Append(aCPU[c], [tipo |-> "MENSAJE_PCB", pid |-> p])
<1> DEFINE e == [tipo |-> "MENSAJE_PCB", pid |-> p]
<1>1. e \in Envios
  BY DEF Envios
<1>2. aCPU \in [CPUs -> Seq(Envios)] /\ aCPU[c] \in Seq(Envios)
  BY DEF TypeOK
<1>3. Append(aCPU[c], e) \in Seq(Envios)
  BY <1>1, <1>2, PonerAlFinal
<1>4. aCPU' = [aCPU EXCEPT ![c] = Append(aCPU[c], e)] /\ aKernel' = aKernel
  BY DEF enviarPCB
<1> HIDE DEF e
<1>5. SoloEnACPU(c) /\ aCPU'[c] = Append(aCPU[c], e)
  BY <1>2, <1>3, <1>4 DEF SoloEnACPU
<1>6. QED
  BY <1>1, <1>2, <1>4, <1>5 DEF e

LEMMA EfectoNotificar ==
  ASSUME TypeOK, NEW c \in CPUs, NEW n \in Avisos, Notificar(c, n)
  PROVE  /\ SoloEnACPU(c)
         /\ [tipo |-> n, pid |-> 0] \in Envios /\ aCPU[c] \in Seq(Envios)
         /\ aCPU'[c] = Append(aCPU[c], [tipo |-> n, pid |-> 0])
<1> DEFINE e == [tipo |-> n, pid |-> 0]
<1>1. e \in Envios
  BY DEF Envios
<1>2. aCPU \in [CPUs -> Seq(Envios)] /\ aCPU[c] \in Seq(Envios)
  BY DEF TypeOK
<1>3. Append(aCPU[c], e) \in Seq(Envios)
  BY <1>1, <1>2, PonerAlFinal
<1>4. aCPU' = [aCPU EXCEPT ![c] = Append(aCPU[c], e)]
  BY DEF Notificar
<1> HIDE DEF e
<1>5. SoloEnACPU(c) /\ aCPU'[c] = Append(aCPU[c], e)
  BY <1>2, <1>3, <1>4 DEF SoloEnACPU
<1>6. QED
  BY <1>1, <1>2, <1>5 DEF e

LEMMA EfectoRecibido ==
  ASSUME TypeOK, NEW c \in CPUs, aKernel[c] # << >>, Recibido(c)
  PROVE  /\ SoloEnAKernel(c) /\ aKernel[c] \in Seq(Mensajes)
         /\ Head(aKernel[c]) \in Mensajes /\ Head(aKernel[c]).pid \in Pids
         /\ aKernel'[c] = Tail(aKernel[c])
<1>1. aKernel \in [CPUs -> Seq(Mensajes)] /\ aKernel[c] \in Seq(Mensajes)
  BY DEF TypeOK
<1>2. Head(aKernel[c]) \in Mensajes /\ Tail(aKernel[c]) \in Seq(Mensajes)
  BY <1>1, SacarElPrimero
<1>3. aKernel' = [aKernel EXCEPT ![c] = Tail(aKernel[c])]
  BY DEF Recibido
<1>4. Head(aKernel[c]).pid \in Pids
  BY <1>2 DEF Mensajes
<1>5. QED
  BY <1>1, <1>2, <1>3, <1>4 DEF SoloEnAKernel

LEMMA EfectoEnviar ==
  ASSUME TypeOK, NEW c \in CPUs, NEW m \in Seq(Mensajes), Enviar(c, m)
  PROVE  /\ SoloEnAKernel(c) /\ aKernel[c] \in Seq(Mensajes) /\ aCPU' = aCPU
         /\ aKernel'[c] = aKernel[c] \o m
<1>1. aKernel \in [CPUs -> Seq(Mensajes)] /\ aKernel[c] \in Seq(Mensajes)
  BY DEF TypeOK
<1>2. aKernel[c] \o m \in Seq(Mensajes)
  BY <1>1, ConcatProperties
<1>3. aKernel' = [aKernel EXCEPT ![c] = aKernel[c] \o m] /\ aCPU' = aCPU
  BY DEF Enviar
<1>4. QED
  BY <1>1, <1>2, <1>3 DEF SoloEnAKernel

(* The thread out of step loses the first messages.                        *)
Sobran(canal, resto) ==
  \E n \in DOMAIN canal : resto = SubSeq(canal, n + 1, Len(canal))

LEMMA LosQueSobran ==
  ASSUME NEW S, NEW s \in Seq(S), NEW t, Sobran(s, t)
  PROVE  /\ t \in Seq(S)
         /\ \E n \in Nat :
              /\ Len(t) = Len(s) - n
              /\ \A i \in DOMAIN t : i + n \in DOMAIN s /\ t[i] = s[i + n]
<1>1. PICK n \in DOMAIN s : t = SubSeq(s, n + 1, Len(s))
  BY DEF Sobran
<1>2. Len(s) \in Nat /\ DOMAIN s = 1 .. Len(s) /\ n \in 1 .. Len(s)
  BY LenProperties
<1>3. /\ t \in Seq(S) /\ Len(t) = Len(s) - n
      /\ \A i \in 1 .. Len(s) - n : t[i] = s[i + n]
  <2>1. n + 1 \in Int /\ Len(s) \in Int /\ \A i \in n + 1 .. Len(s) : s[i] \in S
    BY <1>2, ElementOfSeq
  <2>2. /\ SubSeq(s, n + 1, Len(s)) \in Seq(S)
        /\ Len(SubSeq(s, n + 1, Len(s))) = IF n + 1 <= Len(s) THEN Len(s) - (n + 1) + 1 ELSE 0
        /\ \A i \in 1 .. Len(s) - (n + 1) + 1 :
             SubSeq(s, n + 1, Len(s))[i] = s[n + 1 + i - 1]
    BY <2>1, SubSeqProperties
  <2>3. QED
    BY <1>1, <1>2, <2>2
<1>4. DOMAIN t = 1 .. Len(s) - n
  BY <1>3, LenProperties
<1>5. /\ n \in Nat /\ Len(t) = Len(s) - n
      /\ \A i \in DOMAIN t : i + n \in DOMAIN s /\ t[i] = s[i + n]
  BY <1>2, <1>3, <1>4
<1>6. QED
  BY <1>3, <1>5

LEMMA EfectoDeCorrido ==
  ASSUME TypeOK, NEW c \in CPUs, RecibirCorrido(c)
  PROVE  /\ hilo[c].paso = "atendiendo" /\ hilo[c].lectura # "enPaso"
         /\ SoloEnHilo(c) /\ hilo'[c].paso = "atendiendo" /\ hilo'[c].pcb = hilo[c].pcb
         /\ hilo'[c].semaforo = hilo[c].semaforo
         /\ hilo'[c].lectura \in {"enPaso", "perdida"}
         /\ SoloEnAKernel(c) /\ aKernel[c] \in Seq(Mensajes) /\ Sobran(aKernel[c], aKernel'[c])
         /\ UNCHANGED << colas, procesos, config, aCPU, valorSemaforo, planificador, cpu,
                         kernel >>
<1>1. /\ hilo[c].paso = "atendiendo" /\ hilo[c].lectura # "enPaso"
      /\ UNCHANGED << colas, procesos, config, aCPU, valorSemaforo, planificador, cpu, kernel >>
  BY DEF RecibirCorrido
<1>2. aKernel \in [CPUs -> Seq(Mensajes)] /\ aKernel[c] \in Seq(Mensajes)
  BY DEF TypeOK
<1>3. PICK n \in DOMAIN aKernel[c] :
        aKernel' = [aKernel EXCEPT ![c] = SubSeq(aKernel[c], n + 1, Len(aKernel[c]))]
  BY DEF RecibirCorrido
<1>4. Sobran(aKernel[c], SubSeq(aKernel[c], n + 1, Len(aKernel[c])))
  BY DEF Sobran
<1>5. SubSeq(aKernel[c], n + 1, Len(aKernel[c])) \in Seq(Mensajes)
  BY <1>2, <1>4, LosQueSobran
<1>6. SoloEnAKernel(c) /\ Sobran(aKernel[c], aKernel'[c])
  BY <1>2, <1>3, <1>4, <1>5 DEF SoloEnAKernel
<1>7. PICK l \in {"enPaso", "perdida"} : hilo' = [hilo EXCEPT ![c].lectura = l]
  BY DEF RecibirCorrido
<1> DEFINE e == [hilo[c] EXCEPT !.lectura = l]
<1>8. /\ e \in EstadosHilo /\ e.paso = hilo[c].paso /\ e.pcb = hilo[c].pcb
      /\ e.semaforo = hilo[c].semaforo /\ e.lectura = l
  BY DEF TypeOK, EstadosHilo
<1>9. hilo' = [hilo EXCEPT ![c] = e]
  BY <1>7
<1> HIDE DEF e
<1>10. QED
  BY <1>1, <1>2, <1>6, <1>8, <1>9, CambioDeHilo

LEMMA PonerAcotadoTipo ==
  ASSUME NEW S, NEW s \in Seq(S), NEW e \in S, NEW I
  PROVE  PonerAcotado(s, e, I) \in Seq(S) /\ PonerAcotado(s, e, I) \in {s, Append(s, e)}
  BY PonerAlFinal DEF PonerAcotado

(* The others, if only one CPU is touched.                                 *)
LEMMA AvisosDeLosOtros ==
  ASSUME TipoInv, NEW c \in CPUs, UnAviso(c)',
         \A d \in CPUs \ {c} :
           cpu'[d] = cpu[d] /\ aCPU'[d] = aCPU[d] /\ aKernel'[d] = aKernel[d]
  PROVE  \A d \in CPUs : UnAviso(d)'
BY DEF TipoInv, UnAviso

Pasos == {"buscando", "vioListo", "atendiendo", "restando", "sumando"}

LEMMA CambioDePaso ==
  ASSUME TypeOK, NEW c \in CPUs, NEW paso \in Pasos, hilo' = [hilo EXCEPT ![c].paso = paso]
  PROVE  /\ SoloEnHilo(c)
         /\ hilo'[c].paso = paso /\ hilo'[c].pcb = hilo[c].pcb
         /\ hilo'[c].semaforo = hilo[c].semaforo
<1> DEFINE e == [hilo[c] EXCEPT !.paso = paso]
<1>1. /\ e \in EstadosHilo /\ e.paso = paso /\ e.pcb = hilo[c].pcb
      /\ e.semaforo = hilo[c].semaforo
  BY DEF TypeOK, EstadosHilo, Pasos
<1>2. hilo' = [hilo EXCEPT ![c] = e]
  OBVIOUS
<1> HIDE DEF e
<1>3. QED
  BY <1>1, <1>2, CambioDeHilo

LEMMA CambioDePasoYSemaforo ==
  ASSUME TypeOK, NEW c \in CPUs, NEW paso \in Pasos, NEW s \in Semaforos,
         hilo' = [hilo EXCEPT ![c].paso = paso, ![c].semaforo = s]
  PROVE  /\ SoloEnHilo(c)
         /\ hilo'[c].paso = paso /\ hilo'[c].pcb = hilo[c].pcb /\ hilo'[c].semaforo = s
<1> DEFINE e == [hilo[c] EXCEPT !.paso = paso, !.semaforo = s]
<1>1. e \in EstadosHilo /\ e.paso = paso /\ e.pcb = hilo[c].pcb /\ e.semaforo = s
  BY DEF TypeOK, EstadosHilo, Pasos
<1>2. hilo' = [hilo EXCEPT ![c] = e]
  BY DEF TypeOK
<1> HIDE DEF e
<1>3. QED
  BY <1>1, <1>2, CambioDeHilo

LEMMA CambioDePasoYPCB ==
  ASSUME TypeOK, NEW c \in CPUs, NEW paso \in Pasos, NEW pcb \in PCBs,
         hilo' = [hilo EXCEPT ![c].paso = paso, ![c].pcb = pcb]
  PROVE  /\ SoloEnHilo(c)
         /\ hilo'[c].paso = paso /\ hilo'[c].pcb = pcb
<1> DEFINE e == [hilo[c] EXCEPT !.paso = paso, !.pcb = pcb]
<1>1. e \in EstadosHilo /\ e.paso = paso /\ e.pcb = pcb
  BY DEF TypeOK, EstadosHilo, Pasos
<1>2. hilo' = [hilo EXCEPT ![c] = e]
  BY DEF TypeOK
<1> HIDE DEF e
<1>3. QED
  BY <1>1, <1>2, CambioDeHilo

(* What a turn takes out of colaListo.                                     *)
LEMMA EfectoTomarListo ==
  ASSUME TypeOK, NEW c \in CPUs, TomarListo(c), colaListo # << >>
  PROVE  /\ Head(colaListo) \in PCBs /\ Head(colaListo).pid \in Pids
         /\ colaListo' = Tail(colaListo) /\ colaListo' \in Seq(PCBs)
         /\ colaEjecutando' = PonerEjecutando(Head(colaListo)) /\ colaEjecutando' \in Seq(PCBs)
         /\ SoloEnHilo(c) /\ hilo'[c].paso = "atendiendo" /\ hilo'[c].pcb = Head(colaListo)
         /\ enviarPCB(c, Head(colaListo).pid)
         /\ UNCHANGED << colaNuevo, colaBloqueado, colaFinalizado, procesos, config,
                         valorSemaforo, planificador, cpu, kernel >>
<1> USE DEF procesos, config
<1>1. /\ colaListo' = Tail(colaListo)
      /\ colaEjecutando' = PonerEjecutando(Head(colaListo))
      /\ hilo' = [hilo EXCEPT ![c].paso = "atendiendo", ![c].pcb = Head(colaListo)]
      /\ enviarPCB(c, Head(colaListo).pid)
      /\ UNCHANGED << colaNuevo, colaBloqueado, colaFinalizado, procesos, config,
                      valorSemaforo, planificador, cpu, kernel >>
  BY DEF TomarListo
<1>2. Head(colaListo) \in PCBs /\ Tail(colaListo) \in Seq(PCBs)
  BY SacarElPrimero DEF TypeOK
<1>3. Head(colaListo).pid \in Pids
  BY <1>2 DEF PCBs
<1>4. colaEjecutando' \in Seq(PCBs)
  BY <1>1, <1>2, PonerAcotadoTipo DEF TypeOK, PonerEjecutando
<1>5. SoloEnHilo(c) /\ hilo'[c].paso = "atendiendo" /\ hilo'[c].pcb = Head(colaListo)
  BY <1>1, <1>2, CambioDePasoYPCB DEF Pasos
<1>6. QED
  BY <1>1, <1>2, <1>3, <1>4, <1>5

LEMMA TipoTomarListo ==
  ASSUME TipoInv, NEW c \in CPUs, TomarListo(c) \/ MirarListo(c) \/ EnviarSinTomar(c)
  PROVE  TipoInv'
<1> USE DEF colas, procesos, config, canales
<1>1. TypeOK
  BY DEF TipoInv
<1>2. ASSUME Caer, kernel' = "caido"
      PROVE  TipoInv'
  <2>1. TypeOK'
    BY <1>1, <1>2 DEF Caer, TypeOK
  <2>2. QED
    BY <1>2, <2>1, AvisosIguales DEF Caer, TipoInv
<1>3. CASE MirarListo(c)
  <2>1. SoloEnHilo(c)
    BY <1>1, <1>3, CambioDePaso DEF MirarListo, Pasos
  <2>2. TypeOK'
    BY <1>1, <1>3, <2>1 DEF MirarListo, TypeOK, SoloEnHilo
  <2>3. QED
    BY <1>3, <2>2, AvisosIguales DEF MirarListo, TipoInv
<1>4. ASSUME NEW p \in Pids, enviarPCB(c, p), cpu' = cpu
      PROVE  /\ SoloEnACPU(c) /\ aKernel' = aKernel
             /\ \A d \in CPUs : UnAviso(d)'
  <2> DEFINE e == [tipo |-> "MENSAJE_PCB", pid |-> p]
  <2>1. /\ SoloEnACPU(c) /\ aKernel' = aKernel
        /\ e \in Envios /\ aCPU[c] \in Seq(Envios)
        /\ aCPU'[c] = Append(aCPU[c], e)
    BY <1>1, <1>4, EfectoEnviarPCB
  <2>2. e.tipo \notin Avisos
    BY DEF Avisos
  <2> HIDE DEF e
  <2>3. /\ Hay(aCPU'[c], Avisos) <=> Hay(aCPU[c], Avisos)
        /\ Unico(aCPU[c], Avisos) => Unico(aCPU'[c], Avisos)
    BY <2>1, <2>2, PonerMensaje
  <2>4. UnAviso(c)'
    BY <1>4, <2>1, <2>3 DEF TipoInv, UnAviso
  <2>5. QED
    BY <1>4, <2>1, <2>4, AvisosDeLosOtros DEF SoloEnACPU
<1>5. CASE TomarListo(c)
  <2>1. CASE colaListo = << >>
    BY <1>2, <1>5, <2>1 DEF TomarListo, Caer
  <2>2. CASE colaListo # << >>
    <3>1. /\ Head(colaListo).pid \in Pids
          /\ colaListo' \in Seq(PCBs) /\ colaEjecutando' \in Seq(PCBs) /\ SoloEnHilo(c)
          /\ enviarPCB(c, Head(colaListo).pid)
          /\ UNCHANGED << colaNuevo, colaBloqueado, colaFinalizado, procesos, config,
                          valorSemaforo, planificador, cpu, kernel >>
      BY <1>1, <1>5, <2>2, EfectoTomarListo
    <3>2. SoloEnACPU(c) /\ aKernel' = aKernel /\ \A d \in CPUs : UnAviso(d)'
      BY <1>4, <3>1
    <3>3. TypeOK'
      BY <1>1, <3>1, <3>2 DEF TypeOK, SoloEnHilo, SoloEnACPU
    <3>4. QED
      BY <3>2, <3>3 DEF TipoInv
  <2>3. QED
    BY <2>1, <2>2
<1>6. CASE EnviarSinTomar(c)
  <2>1. CASE hilo[c].pcb = SinPCB
    BY <1>2, <1>6, <2>1 DEF EnviarSinTomar, Caer
  <2>2. CASE hilo[c].pcb # SinPCB
    <3>1. hilo[c].pcb.pid \in Pids
      BY <1>1, <2>2 DEF TypeOK, EstadosHilo, PCBs
    <3>2. /\ enviarPCB(c, hilo[c].pcb.pid)
          /\ UNCHANGED << colas, procesos, config, valorSemaforo, planificador, hilo, cpu, kernel >>
      BY <1>6, <2>2 DEF EnviarSinTomar
    <3>3. SoloEnACPU(c) /\ aKernel' = aKernel /\ \A d \in CPUs : UnAviso(d)'
      BY <1>4, <3>1, <3>2
    <3>4. TypeOK'
      BY <1>1, <3>2, <3>3 DEF TypeOK, SoloEnACPU
    <3>5. QED
      BY <3>3, <3>4 DEF TipoInv
  <2>3. QED
    BY <2>1, <2>2
<1>7. QED
  BY <1>3, <1>5, <1>6

(* A message has been served; if it was a wait, it may have been answered. *)
LEMMA AvisosTrasRecibir ==
  ASSUME TipoInv, NEW c \in CPUs, aKernel[c] # << >>, Recibido(c), cpu' = cpu,
         \/ aCPU' = aCPU
         \/ /\ Head(aKernel[c]).tipo = "WAIT_SEMAFORO"
            /\ \E n \in Avisos : Notificar(c, n)
  PROVE  \A d \in CPUs : UnAviso(d)'
<1>1. TypeOK
  BY DEF TipoInv
<1>2. /\ SoloEnAKernel(c) /\ aKernel[c] \in Seq(Mensajes)
      /\ aKernel'[c] = Tail(aKernel[c])
  BY <1>1, EfectoRecibido
<1>3. /\ Hay(aKernel'[c], Espera) => Hay(aKernel[c], Espera)
      /\ Unico(aKernel[c], Espera) => Unico(aKernel'[c], Espera)
      /\ Unico(aKernel[c], Espera) /\ Head(aKernel[c]).tipo \in Espera => ~Hay(aKernel'[c], Espera)
  BY <1>2, SacarMensaje
<1>4. CASE aCPU' = aCPU
  <2>1. UnAviso(c)'
    BY <1>3, <1>4 DEF TipoInv, UnAviso
  <2>2. QED
    BY <1>2, <1>4, <2>1, AvisosDeLosOtros DEF SoloEnAKernel
<1>5. ASSUME NEW n \in Avisos, Notificar(c, n), Head(aKernel[c]).tipo = "WAIT_SEMAFORO"
      PROVE  \A d \in CPUs : UnAviso(d)'
  <2> DEFINE e == [tipo |-> n, pid |-> 0]
  <2>1. /\ SoloEnACPU(c) /\ e \in Envios /\ aCPU[c] \in Seq(Envios)
        /\ aCPU'[c] = Append(aCPU[c], e)
    BY <1>1, <1>5, EfectoNotificar
  <2> HIDE DEF e
  <2>2. ~Hay(aCPU[c], Avisos) /\ Unico(aCPU[c], Avisos) => Unico(aCPU'[c], Avisos)
    BY <2>1, PonerMensaje
  <2>3. Hay(aKernel[c], Espera)
    <3>1. 1 \in DOMAIN aKernel[c] /\ aKernel[c][1].tipo = "WAIT_SEMAFORO"
      BY <1>2, <1>5, SacarElPrimero
    <3>2. QED
      BY <3>1 DEF Hay, Espera
  <2>4. UnAviso(c)'
    <3>1. SUFFICES ASSUME ~cpu[c].desfasada
                   PROVE  /\ cpu[c].modo = "esperando"
                          /\ ~Hay(aKernel'[c], Espera)
                          /\ Unico(aKernel'[c], Espera) /\ Unico(aCPU'[c], Avisos)
      BY DEF UnAviso
    <3>2. /\ cpu[c].modo = "esperando" /\ ~Hay(aCPU[c], Avisos)
          /\ Unico(aKernel[c], Espera) /\ Unico(aCPU[c], Avisos)
      BY <2>3, <3>1 DEF TipoInv, UnAviso
    <3>3. QED
      BY <1>3, <1>5, <2>2, <3>2 DEF Espera
  <2>5. QED
    BY <1>2, <2>1, <2>4, AvisosDeLosOtros DEF SoloEnAKernel, SoloEnACPU
<1>6. QED
  BY <1>4, <1>5

(* What waitSemaforo does to the queues.                                   *)
LEMMA EfectoDeWait ==
  ASSUME TypeOK, NEW c \in CPUs, waitSemaforo(c)
  PROVE  LET m == Head(aKernel[c]) IN
         /\ m.pid \in Pids /\ m.semaforo \in Semaforos
         /\ aKernel[c] # << >> /\ m.tipo = "WAIT_SEMAFORO" /\ Recibido(c)
         /\ hilo[c].paso = "atendiendo"
         /\ SoloEnHilo(c) /\ hilo'[c].paso = "restando" /\ hilo'[c].pcb = hilo[c].pcb
         /\ hilo'[c].semaforo = m.semaforo
         /\ \/ /\ EstaLibre(valorSemaforo[m.semaforo])
               /\ Notificar(c, "NO_BLOQUEO_POR_SEMAFORO")
               /\ UNCHANGED << colaBloqueado, colaEjecutando, estado >>
            \/ /\ ~EstaLibre(valorSemaforo[m.semaforo])
               /\ ~EstaEn(colaEjecutando, m.pid)
               /\ UNCHANGED << colaBloqueado, colaEjecutando, estado, aCPU >>
            \/ /\ ~EstaLibre(valorSemaforo[m.semaforo])
               /\ Notificar(c, "BLOQUEO_POR_SEMAFORO")
               /\ colaBloqueado' = Append(colaBloqueado, [pid |-> m.pid, semaforo |-> m.semaforo])
               /\ [pid |-> m.pid, semaforo |-> m.semaforo] \in Bloqueos
               /\ \E i \in LugaresDe(colaEjecutando, m.pid) :
                    /\ colaEjecutando' = RemoveAt(colaEjecutando, i)
                    /\ estado' = IF colaEjecutando[i].original
                                 THEN [estado EXCEPT ![m.pid] = "BLOQUEADO"] ELSE estado
<1> DEFINE m == Head(aKernel[c])
           i == LugarDePid(colaEjecutando, m.pid)
<1>1. aKernel[c] # << >> /\ m.tipo = "WAIT_SEMAFORO" /\ hilo[c].paso = "atendiendo"
  BY DEF waitSemaforo, Atendiendo
<1>2. m.semaforo \in Semaforos /\ Recibido(c)
  BY DEF waitSemaforo
<1>3. m.pid \in Pids
  BY <1>1, <1>2, EfectoRecibido
<1>4. /\ SoloEnHilo(c) /\ hilo'[c].paso = "restando" /\ hilo'[c].pcb = hilo[c].pcb
      /\ hilo'[c].semaforo = m.semaforo
  <2>1. hilo' = [hilo EXCEPT ![c].paso = "restando", ![c].semaforo = m.semaforo]
    BY DEF waitSemaforo
  <2> HIDE DEF m
  <2>2. QED
    BY <1>2, <2>1, CambioDePasoYSemaforo DEF Pasos
<1>5. [pid |-> m.pid, semaforo |-> m.semaforo] \in Bloqueos
  BY <1>2, <1>3 DEF Bloqueos
<1>6. /\ i = 0 => ~EstaEn(colaEjecutando, m.pid)
      /\ i # 0 => i \in LugaresDe(colaEjecutando, m.pid)
  BY ElLugarDePid DEF TypeOK, LugaresDe
<1>7. IF EstaLibre(valorSemaforo[m.semaforo])
      THEN /\ Notificar(c, "NO_BLOQUEO_POR_SEMAFORO")
           /\ UNCHANGED << colaBloqueado, colaEjecutando, estado >>
      ELSE BloquearProceso(c, m.pid, m.semaforo)
  BY DEF waitSemaforo
<1>8. BloquearProceso(c, m.pid, m.semaforo) =>
        IF i = 0
        THEN UNCHANGED << colaBloqueado, colaEjecutando, estado, aCPU >>
        ELSE /\ colaBloqueado' = Append(colaBloqueado, [pid |-> m.pid, semaforo |-> m.semaforo])
             /\ estado' = IF colaEjecutando[i].original
                          THEN [estado EXCEPT ![m.pid] = "BLOQUEADO"] ELSE estado
             /\ colaEjecutando' = RemoveAt(colaEjecutando, i)
             /\ Notificar(c, "BLOQUEO_POR_SEMAFORO")
  BY DEF BloquearProceso
<1> HIDE DEF m, i
<1>9. QED
  BY <1>1, <1>2, <1>3, <1>4, <1>5, <1>6, <1>7, <1>8 DEF m

(* And signalSemaforo, when it does not die.                               *)
LEMMA EfectoDeSignal ==
  ASSUME TypeOK, NEW c \in CPUs, signalSemaforo(c), kernel' = kernel, kernel = "vivo"
  PROVE  LET m == Head(aKernel[c]) IN
         /\ m.semaforo \in Semaforos
         /\ aKernel[c] # << >> /\ m.tipo = "SIGNAL_SEMAFORO" /\ Recibido(c)
         /\ hilo[c].paso = "atendiendo"
         /\ SoloEnHilo(c) /\ hilo'[c].paso = "sumando" /\ hilo'[c].pcb = hilo[c].pcb
         /\ hilo'[c].semaforo = m.semaforo
         /\ UNCHANGED << colaNuevo, colaEjecutando, colaFinalizado, pidActual, liberados,
                         rechazados, config, aCPU, valorSemaforo, planificador, cpu >>
         /\ \/ /\ valorSemaforo[m.semaforo] < 0
               /\ \E i \in DOMAIN colaBloqueado :
                    /\ colaBloqueado[i].semaforo = m.semaforo /\ colaBloqueado[i].pid \in Pids
                    /\ Original(colaBloqueado[i].pid) \in PCBs
                    /\ colaBloqueado' = RemoveAt(colaBloqueado, i)
                    /\ colaListo' = Append(colaListo, Original(colaBloqueado[i].pid))
                    /\ estado' = [estado EXCEPT ![colaBloqueado[i].pid] = "LISTO"]
            \/ /\ UNCHANGED << estado, colaListo, colaBloqueado >>
               /\ \/ ~(valorSemaforo[m.semaforo] < 0)
                  \/ ~\E i \in DOMAIN colaBloqueado : colaBloqueado[i].semaforo = m.semaforo
<1> DEFINE m == Head(aKernel[c])
           i == LugarDeSemaforo(colaBloqueado, m.semaforo)
<1>1. aKernel[c] # << >> /\ m.tipo = "SIGNAL_SEMAFORO" /\ hilo[c].paso = "atendiendo"
  BY DEF signalSemaforo, Atendiendo
<1>2. /\ IF valorSemaforo[m.semaforo] < 0 /\ i # 0
         THEN Despertar(i) ELSE UNCHANGED << estado, colaListo, colaBloqueado >>
      /\ Recibido(c)
      /\ hilo' = [hilo EXCEPT ![c].paso = "sumando", ![c].semaforo = m.semaforo]
      /\ UNCHANGED << colaNuevo, colaEjecutando, colaFinalizado, pidActual,
                      liberados, rechazados, config, aCPU, valorSemaforo,
                      planificador, cpu, kernel >>
  BY DEF signalSemaforo, Caer
<1>3. m.semaforo \in Semaforos
  BY DEF signalSemaforo
<1>4. /\ SoloEnHilo(c) /\ hilo'[c].paso = "sumando" /\ hilo'[c].pcb = hilo[c].pcb
      /\ hilo'[c].semaforo = m.semaforo
  <2> HIDE DEF m, i
  <2>1. QED
    BY <1>2, <1>3, CambioDePasoYSemaforo DEF Pasos
<1>5. /\ i = 0 => ~\E k \in DOMAIN colaBloqueado : colaBloqueado[k].semaforo = m.semaforo
      /\ i # 0 => i \in DOMAIN colaBloqueado /\ colaBloqueado[i].semaforo = m.semaforo
  BY ElLugarDeSemaforo DEF TypeOK
<1>6. i # 0 => colaBloqueado[i].pid \in Pids
  <2>1. colaBloqueado \in Seq(Bloqueos)
    BY DEF TypeOK, Bloqueos
  <2> HIDE DEF i
  <2>2. i # 0 => colaBloqueado[i] \in Bloqueos
    BY <1>5, <2>1, ElementOfSeq, LenProperties
  <2>3. QED
    BY <2>2 DEF Bloqueos
<1>7. i # 0 => Original(colaBloqueado[i].pid) \in PCBs
  BY <1>6 DEF Original, PCBs
<1> HIDE DEF m, i
<1>8. CASE valorSemaforo[m.semaforo] < 0 /\ i # 0
  <2>1. /\ colaBloqueado' = RemoveAt(colaBloqueado, i)
        /\ colaListo' = Append(colaListo, Original(colaBloqueado[i].pid))
        /\ estado' = [estado EXCEPT ![colaBloqueado[i].pid] = "LISTO"]
    BY <1>2, <1>8 DEF Despertar
  <2>2. QED
    BY <1>1, <1>2, <1>3, <1>4, <1>5, <1>6, <1>7, <1>8, <2>1 DEF m
<1>9. CASE ~(valorSemaforo[m.semaforo] < 0 /\ i # 0)
  BY <1>1, <1>2, <1>3, <1>4, <1>5, <1>9 DEF m
<1>10. QED
  BY <1>8, <1>9

(* The three ways in which a turn ends.                                    *)
FinDeTurno(c) == Finaliza(c) \/ QuedaBloqueado(c) \/ FinalizaRafaga(c)

LEMMA EfectoDeFinDeTurno ==
  ASSUME TypeOK, NEW c \in CPUs, FinDeTurno(c)
  PROVE  LET m == Head(aKernel[c]) IN
         /\ aKernel[c] # << >> /\ Recibido(c) /\ m.pid \in Pids
         /\ m = Cierre(m.tipo, m.pid)
         /\ hilo[c].paso = "atendiendo"
         /\ SoloEnHilo(c) /\ hilo'[c].paso = "buscando" /\ hilo'[c].pcb = hilo[c].pcb
         /\ UNCHANGED << colaNuevo, colaEjecutando, procesos, config, aCPU, valorSemaforo,
                         planificador, cpu, kernel >>
         /\ \/ /\ m.tipo \in {"PROCESO_ABORTADO", "PROCESO_FINALIZADO"}
               /\ colaFinalizado' = colaFinalizado \cup {m.pid}
               /\ UNCHANGED << colaListo, colaBloqueado >>
            \/ /\ m.tipo = "PROCESO_BLOQUEADO"
               /\ [pid |-> m.pid, semaforo |-> CRUDA] \in Bloqueos
               /\ colaBloqueado' = Append(colaBloqueado, [pid |-> m.pid, semaforo |-> CRUDA])
               /\ UNCHANGED << colaListo, colaFinalizado >>
            \/ /\ m.tipo = "PROCESO_BLOQUEADO"
               /\ \E i \in DOMAIN colaBloqueado :
                    colaBloqueado[i] = [pid |-> m.pid, semaforo |-> CRUDA]
               /\ UNCHANGED << colaListo, colaBloqueado, colaFinalizado >>
            \/ /\ m.tipo = "PROCESO_FINALIZO_RAFAGA"
               /\ Copia(m.pid) \in PCBs
               /\ colaListo' = Append(colaListo, Copia(m.pid))
               /\ UNCHANGED << colaBloqueado, colaFinalizado >>
<1> DEFINE m == Head(aKernel[c])
<1>1. /\ aKernel[c] # << >> /\ hilo[c].paso = "atendiendo" /\ TerminaTurno(c)
      /\ m.tipo \in Marcas \cup {"PROCESO_FINALIZO_RAFAGA"}
  BY DEF FinDeTurno, Finaliza, QuedaBloqueado, FinalizaRafaga, Atendiendo, Marcas
<1>2. /\ Recibido(c) /\ hilo' = [hilo EXCEPT ![c].paso = "buscando"]
      /\ UNCHANGED << colaNuevo, colaEjecutando, procesos, config, aCPU, valorSemaforo,
                      planificador, cpu, kernel >>
  BY <1>1 DEF TerminaTurno
<1>3. SoloEnHilo(c) /\ hilo'[c].paso = "buscando" /\ hilo'[c].pcb = hilo[c].pcb
  BY <1>2, CambioDePaso DEF Pasos
<1>4. m \in Mensajes /\ m.pid \in Pids
  BY <1>1, <1>2, EfectoRecibido
<1> HIDE DEF m
<1>5. m = Cierre(m.tipo, m.pid)
  BY <1>1, <1>4 DEF Mensajes, Cierre, Marcas
<1>6. [pid |-> m.pid, semaforo |-> CRUDA] \in Bloqueos /\ Copia(m.pid) \in PCBs
  BY <1>4 DEF Bloqueos, Copia, PCBs
<1>7. CASE Finaliza(c)
  <2>1. /\ m.tipo \in {"PROCESO_ABORTADO", "PROCESO_FINALIZADO"}
        /\ colaFinalizado' = colaFinalizado \cup {m.pid}
        /\ UNCHANGED << colaListo, colaBloqueado >>
    BY <1>7 DEF Finaliza, Atendiendo, m
  <2>2. QED
    BY <1>1, <1>2, <1>3, <1>4, <1>5, <2>1 DEF m
<1>8. CASE FinalizaRafaga(c)
  <2>1. /\ m.tipo = "PROCESO_FINALIZO_RAFAGA"
        /\ colaListo' = Append(colaListo, Copia(m.pid))
        /\ UNCHANGED << colaBloqueado, colaFinalizado >>
    BY <1>8 DEF FinalizaRafaga, Atendiendo, AlFinal, m
  <2>2. QED
    BY <1>1, <1>2, <1>3, <1>4, <1>5, <1>6, <2>1 DEF m
<1>9. CASE QuedaBloqueado(c)
  <2> DEFINE cruda == [pid |-> m.pid, semaforo |-> CRUDA]
             iguales == {i \in DOMAIN colaBloqueado : colaBloqueado[i] = cruda}
  <2>1. /\ m.tipo = "PROCESO_BLOQUEADO"
        /\ colaBloqueado' = PonerAcotado(colaBloqueado, cruda, iguales)
        /\ UNCHANGED << colaListo, colaFinalizado >>
    BY <1>9 DEF QuedaBloqueado, Atendiendo, m
  <2>2. CASE Cardinality(iguales) >= MaxRepetidas
    <3>1. MaxRepetidas \in Nat /\ MaxRepetidas # 0
      BY ConfigAssumption
    <3>2. iguales # {}
      BY <2>2, <3>1, FS_EmptySet
    <3>3. colaBloqueado' = colaBloqueado /\ \E i \in DOMAIN colaBloqueado : colaBloqueado[i] = cruda
      BY <2>1, <2>2, <3>2 DEF PonerAcotado
    <3> HIDE DEF iguales
    <3>4. QED
      BY <1>1, <1>2, <1>3, <1>4, <1>5, <2>1, <3>3 DEF m
  <2>3. CASE ~(Cardinality(iguales) >= MaxRepetidas)
    <3>1. colaBloqueado' = Append(colaBloqueado, cruda)
      BY <2>1, <2>3 DEF PonerAcotado
    <3> HIDE DEF iguales
    <3>2. QED
      BY <1>1, <1>2, <1>3, <1>4, <1>5, <1>6, <2>1, <3>1 DEF m
  <2>4. QED
    BY <2>2, <2>3
<1>10. QED
  BY <1>7, <1>8, <1>9 DEF FinDeTurno

(* A message about a semaphore that is not there.                          *)
LEMMA EfectoDeInexistente ==
  ASSUME TypeOK, NEW c \in CPUs, NEW tipo, SemaforoInexistente(c, tipo)
  PROVE  LET m == Head(aKernel[c]) IN
         /\ aKernel[c] # << >> /\ Recibido(c) /\ m.tipo = tipo /\ m.pid \in Pids
         /\ m \in Mensajes /\ m.semaforo \notin Semaforos
         /\ finalizarProceso(m.pid)
         /\ UNCHANGED << pidActual, rechazados, colaEjecutando, colaFinalizado, config, aCPU,
                         valorSemaforo, planificador, hilo, cpu, kernel >>
<1>1. /\ aKernel[c] # << >> /\ Recibido(c) /\ Head(aKernel[c]).tipo = tipo
      /\ Head(aKernel[c]).semaforo \notin Semaforos
      /\ finalizarProceso(Head(aKernel[c]).pid)
      /\ UNCHANGED << pidActual, rechazados, colaEjecutando, colaFinalizado, config, aCPU,
                      valorSemaforo, planificador, hilo, cpu, kernel >>
  BY DEF SemaforoInexistente, Atendiendo
<1>2. QED
  BY <1>1, EfectoRecibido

CambiaValor(c) == RestarValor(c) \/ SumarValor(c)

LEMMA EfectoDeCambiarValor ==
  ASSUME TypeOK, NEW c \in CPUs, CambiaValor(c)
  PROVE  /\ valorSemaforo' \in [Semaforos -> Int]
         /\ hilo[c].paso \in {"restando", "sumando"}
         /\ valorSemaforo' = [valorSemaforo EXCEPT
              ![hilo[c].semaforo] = @ + (IF hilo[c].paso = "restando" THEN -1 ELSE 1)]
         /\ SoloEnHilo(c) /\ hilo'[c].paso = "atendiendo" /\ hilo'[c].pcb = hilo[c].pcb
         /\ hilo'[c].semaforo = hilo[c].semaforo
         /\ UNCHANGED << colas, procesos, config, canales, planificador, cpu, kernel >>
<1> DEFINE delta == IF hilo[c].paso = "restando" THEN -1 ELSE 1
<1>1. /\ hilo[c].paso \in {"restando", "sumando"}
      /\ valorSemaforo' = [valorSemaforo EXCEPT ![hilo[c].semaforo] = @ + delta]
      /\ hilo' = [hilo EXCEPT ![c].paso = "atendiendo"]
      /\ UNCHANGED << colas, procesos, config, canales, planificador, cpu, kernel >>
  BY DEF CambiaValor, RestarValor, SumarValor, CambiarValor
<1>2. valorSemaforo' \in [Semaforos -> Int]
  <2>1. delta \in Int /\ valorSemaforo \in [Semaforos -> Int]
    BY DEF TypeOK
  <2>2. ASSUME NEW x, NEW d \in Int, NEW f \in [Semaforos -> Int]
        PROVE  [f EXCEPT ![x] = @ + d] \in [Semaforos -> Int]
    <3>1. CASE x \in Semaforos
      BY <2>2, <3>1
    <3>2. CASE x \notin Semaforos
      <4>1. ASSUME NEW y
            PROVE  [f EXCEPT ![x] = y] = f
        BY <2>2, <3>2
      <4>2. QED
        BY <2>2, <4>1
    <3>3. QED
      BY <3>1, <3>2
  <2>3. valorSemaforo' = [valorSemaforo EXCEPT ![hilo[c].semaforo] = @ + delta]
    BY <1>1
  <2> HIDE DEF delta
  <2>4. QED
    BY <2>1, <2>2, <2>3
<1>3. QED
  BY <1>1, <1>2, CambioDePaso DEF Pasos

LEMMA TipoCorrido ==
  ASSUME TipoInv, NEW c \in CPUs, RecibirCorrido(c)
  PROVE  TipoInv'
<1>1. TypeOK
  BY DEF TipoInv
<1>2. /\ SoloEnHilo(c) /\ SoloEnAKernel(c) /\ aKernel[c] \in Seq(Mensajes)
      /\ Sobran(aKernel[c], aKernel'[c])
      /\ UNCHANGED << colas, procesos, config, aCPU, valorSemaforo, planificador, cpu, kernel >>
  BY <1>1, EfectoDeCorrido
<1>3. PICK n \in Nat :
        \A i \in DOMAIN aKernel'[c] : i + n \in DOMAIN aKernel[c] /\ aKernel'[c][i] = aKernel[c][i + n]
  <2> DEFINE s == aKernel[c]
             t == aKernel'[c]
  <2>1. s \in Seq(Mensajes) /\ Sobran(s, t)
    BY <1>2
  <2> HIDE DEF s, t
  <2>2. \E n \in Nat : \A i \in DOMAIN t : i + n \in DOMAIN s /\ t[i] = s[i + n]
    BY <2>1, LosQueSobran
  <2>3. QED
    BY <2>2 DEF s, t
<1>4. DOMAIN aKernel'[c] \subseteq Int
  BY <1>2, LenProperties DEF SoloEnAKernel
<1>5. Hay(aKernel'[c], Espera) => Hay(aKernel[c], Espera)
  BY <1>3 DEF Hay
<1>6. Unico(aKernel[c], Espera) => Unico(aKernel'[c], Espera)
  <2> SUFFICES ASSUME Unico(aKernel[c], Espera),
                      NEW i \in DOMAIN aKernel'[c], NEW j \in DOMAIN aKernel'[c],
                      aKernel'[c][i].tipo \in Espera, aKernel'[c][j].tipo \in Espera
               PROVE  i = j
    BY DEF Unico
  <2>1. i + n = j + n
    BY <1>3 DEF Unico
  <2>2. i \in Int /\ j \in Int
    BY <1>4
  <2>3. QED
    BY <2>1, <2>2
<1>7. UnAviso(c)'
  BY <1>2, <1>5, <1>6 DEF TipoInv, UnAviso
<1>8. \A d \in CPUs : UnAviso(d)'
  BY <1>2, <1>7, AvisosDeLosOtros DEF SoloEnAKernel
<1>9. TypeOK'
  BY <1>1, <1>2 DEF TypeOK, SoloEnHilo, SoloEnAKernel, colas, procesos, config
<1>10. QED
  BY <1>8, <1>9 DEF TipoInv

LEMMA TipoManejador ==
  ASSUME TipoInv, NEW c \in CPUs, manejadorCPU(c), kernel = "vivo"
  PROVE  TipoInv'
<1> USE DEF colas, procesos, config, canales
<1>1. TypeOK
  BY DEF TipoInv
<1>2. CASE TomarListo(c) \/ MirarListo(c) \/ EnviarSinTomar(c)
  BY <1>2, TipoTomarListo
<1>3. ASSUME NEW tipo, SemaforoInexistente(c, tipo)
      PROVE  TipoInv'
  <2> DEFINE p == Head(aKernel[c]).pid
  <2>1. /\ aKernel[c] # << >> /\ Recibido(c) /\ p \in Pids
        /\ finalizarProceso(p)
        /\ UNCHANGED << pidActual, rechazados, colaEjecutando, colaFinalizado, config, aCPU,
                        valorSemaforo, planificador, hilo, cpu, kernel >>
    BY <1>1, <1>3, EfectoDeInexistente
  <2> HIDE DEF p
  <2>2. SoloEnAKernel(c)
    BY <1>1, <2>1, EfectoRecibido
  <2>3. /\ colaNuevo' \in Seq(Pids) /\ colaListo' \in Seq(PCBs)
        /\ colaBloqueado' \in Seq(Bloqueos)
    BY <1>1, <2>1, EfectoDeFinalizar, SacarQuita DEF TypeOK, Bloqueos, LugaresDe
  <2>4. /\ liberados' \subseteq Pids
        /\ estado' \in [Pids -> {"ninguno", "NUEVO", "LISTO", "BLOQUEADO", "FINALIZADO"}]
    BY <1>1, <2>1, EfectoDeFinalizar DEF TypeOK
  <2>5. TypeOK'
    BY <1>1, <2>1, <2>2, <2>3, <2>4 DEF TypeOK, Bloqueos, SoloEnAKernel
  <2>6. QED
    BY <2>1, <2>5, AvisosTrasRecibir DEF TipoInv
<1>4. CASE waitSemaforo(c)
  <2> DEFINE m == Head(aKernel[c])
             e == [pid |-> m.pid, semaforo |-> m.semaforo]
  <2>1. /\ m.pid \in Pids /\ aKernel[c] # << >> /\ m.tipo = "WAIT_SEMAFORO" /\ Recibido(c)
        /\ SoloEnHilo(c) /\ SoloEnAKernel(c)
    BY <1>1, <1>4, EfectoDeWait, EfectoRecibido
  <2>2. /\ UNCHANGED << colaNuevo, colaListo, colaFinalizado, pidActual, liberados,
                        rechazados, config, valorSemaforo, planificador, cpu, kernel >>
    BY <1>4 DEF waitSemaforo
  <2>3. \/ Notificar(c, "NO_BLOQUEO_POR_SEMAFORO") /\ UNCHANGED << colaBloqueado, colaEjecutando, estado >>
        \/ UNCHANGED << colaBloqueado, colaEjecutando, estado, aCPU >>
        \/ /\ Notificar(c, "BLOQUEO_POR_SEMAFORO")
           /\ colaBloqueado' = Append(colaBloqueado, e) /\ e \in Bloqueos
           /\ \E i \in LugaresDe(colaEjecutando, m.pid) :
                /\ colaEjecutando' = RemoveAt(colaEjecutando, i)
                /\ estado' = IF colaEjecutando[i].original
                             THEN [estado EXCEPT ![m.pid] = "BLOQUEADO"] ELSE estado
    BY <1>1, <1>4, EfectoDeWait
  <2>4. /\ aCPU' = aCPU \/ \E n \in Avisos : Notificar(c, n)
        /\ aCPU' \in [CPUs -> Seq(Envios)]
    <3>1. aCPU' = aCPU \/ \E n \in Avisos : Notificar(c, n)
      BY <2>3 DEF Avisos
    <3>2. QED
      BY <1>1, <3>1, EfectoNotificar DEF TypeOK, SoloEnACPU
  <2> HIDE DEF m
  <2>5. /\ colaBloqueado' \in Seq(Bloqueos)
        /\ colaEjecutando' \in Seq(PCBs)
        /\ estado' \in [Pids -> {"ninguno", "NUEVO", "LISTO", "BLOQUEADO", "FINALIZADO"}]
    <3>1. colaBloqueado \in Seq(Bloqueos) /\ colaEjecutando \in Seq(PCBs)
          /\ DOMAIN colaEjecutando = 1 .. Len(colaEjecutando)
          /\ estado \in [Pids -> {"ninguno", "NUEVO", "LISTO", "BLOQUEADO", "FINALIZADO"}]
      BY <1>1, LenProperties DEF TypeOK, Bloqueos
    <3>2. CASE UNCHANGED << colaBloqueado, colaEjecutando, estado >>
      BY <3>1, <3>2
    <3> HIDE DEF e
    <3>3. CASE /\ colaBloqueado' = Append(colaBloqueado, e) /\ e \in Bloqueos
               /\ \E i \in LugaresDe(colaEjecutando, m.pid) :
                    /\ colaEjecutando' = RemoveAt(colaEjecutando, i)
                    /\ estado' = IF colaEjecutando[i].original
                                 THEN [estado EXCEPT ![m.pid] = "BLOQUEADO"] ELSE estado
      <4>1. PICK i \in LugaresDe(colaEjecutando, m.pid) :
                    /\ colaEjecutando' = RemoveAt(colaEjecutando, i)
                    /\ estado' = IF colaEjecutando[i].original
                                 THEN [estado EXCEPT ![m.pid] = "BLOQUEADO"] ELSE estado
        BY <3>3
      <4>2. i \in 1 .. Len(colaEjecutando)
        BY <3>1 DEF LugaresDe
      <4>3. colaEjecutando' \in Seq(PCBs)
        BY <3>1, <4>1, <4>2, SacarUna
      <4>4. colaBloqueado' \in Seq(Bloqueos)
        BY <3>1, <3>3, PonerAlFinal
      <4>5. QED
        BY <3>1, <4>1, <4>3, <4>4
    <3>4. QED
      BY <2>3, <3>2, <3>3
  <2>6. TypeOK'
    BY <1>1, <2>1, <2>2, <2>4, <2>5 DEF TypeOK, Bloqueos, SoloEnAKernel, SoloEnHilo
  <2>7. \A d \in CPUs : UnAviso(d)'
    BY <2>1, <2>2, <2>4, AvisosTrasRecibir DEF m
  <2>8. QED
    BY <2>6, <2>7 DEF TipoInv
<1>5. CASE CambiaValor(c)
  <2>1. /\ valorSemaforo' \in [Semaforos -> Int] /\ SoloEnHilo(c)
        /\ UNCHANGED << colas, procesos, config, canales, planificador, cpu, kernel >>
    BY <1>1, <1>5, EfectoDeCambiarValor
  <2>2. TypeOK'
    BY <1>1, <2>1 DEF TypeOK, SoloEnHilo
  <2>3. QED
    BY <2>1, <2>2, AvisosIguales DEF TipoInv
<1>6. ASSUME Caer
      PROVE  TipoInv'
  <2>1. TypeOK'
    BY <1>1, <1>6 DEF Caer, TypeOK
  <2>2. QED
    BY <1>6, <2>1, AvisosIguales DEF Caer, TipoInv
<1>7. CASE signalSemaforo(c)
  <2>1. CASE kernel' = kernel
    <3> DEFINE m == Head(aKernel[c])
    <3>1. /\ aKernel[c] # << >> /\ Recibido(c) /\ SoloEnHilo(c) /\ SoloEnAKernel(c)
          /\ UNCHANGED << colaNuevo, colaEjecutando, colaFinalizado, pidActual, liberados,
                          rechazados, config, aCPU, valorSemaforo, planificador, cpu >>
      BY <1>1, <1>7, <2>1, EfectoDeSignal, EfectoRecibido
    <3>2. /\ colaBloqueado' \in Seq(Bloqueos) /\ colaListo' \in Seq(PCBs)
          /\ estado' \in [Pids -> {"ninguno", "NUEVO", "LISTO", "BLOQUEADO", "FINALIZADO"}]
      <4>1. \/ \E i \in DOMAIN colaBloqueado :
                 /\ colaBloqueado[i].pid \in Pids
                 /\ Original(colaBloqueado[i].pid) \in PCBs
                 /\ colaBloqueado' = RemoveAt(colaBloqueado, i)
                 /\ colaListo' = Append(colaListo, Original(colaBloqueado[i].pid))
                 /\ estado' = [estado EXCEPT ![colaBloqueado[i].pid] = "LISTO"]
            \/ UNCHANGED << estado, colaListo, colaBloqueado >>
        BY <1>1, <1>7, <2>1, EfectoDeSignal
      <4>2. colaBloqueado \in Seq(Bloqueos) /\ colaListo \in Seq(PCBs)
            /\ DOMAIN colaBloqueado = 1 .. Len(colaBloqueado)
            /\ estado \in [Pids -> {"ninguno", "NUEVO", "LISTO", "BLOQUEADO", "FINALIZADO"}]
        BY <1>1, LenProperties DEF TypeOK, Bloqueos
      <4>3. CASE UNCHANGED << estado, colaListo, colaBloqueado >>
        BY <4>2, <4>3
      <4>4. ASSUME NEW i \in DOMAIN colaBloqueado, colaBloqueado[i].pid \in Pids,
                   Original(colaBloqueado[i].pid) \in PCBs,
                   colaBloqueado' = RemoveAt(colaBloqueado, i),
                   colaListo' = Append(colaListo, Original(colaBloqueado[i].pid)),
                   estado' = [estado EXCEPT ![colaBloqueado[i].pid] = "LISTO"]
            PROVE  /\ colaBloqueado' \in Seq(Bloqueos) /\ colaListo' \in Seq(PCBs)
                   /\ estado' \in [Pids -> {"ninguno", "NUEVO", "LISTO", "BLOQUEADO", "FINALIZADO"}]
        <5>1. colaBloqueado' \in Seq(Bloqueos)
          BY <4>2, <4>4, SacarUna
        <5>2. colaListo' \in Seq(PCBs)
          BY <4>2, <4>4, PonerAlFinal
        <5>3. QED
          BY <4>2, <4>4, <5>1, <5>2
      <4>5. QED
        BY <4>1, <4>3, <4>4
    <3>3. TypeOK'
      BY <1>1, <2>1, <3>1, <3>2 DEF TypeOK, Bloqueos, SoloEnAKernel, SoloEnHilo
    <3>4. QED
      BY <3>1, <3>3, AvisosTrasRecibir DEF TipoInv
  <2>2. CASE kernel' # kernel
    BY <1>6, <1>7, <2>2 DEF signalSemaforo
  <2>3. QED
    BY <2>1, <2>2
<1>8. CASE FinDeTurno(c)
  <2> DEFINE m == Head(aKernel[c])
  <2>1. /\ aKernel[c] # << >> /\ Recibido(c) /\ m.pid \in Pids /\ SoloEnHilo(c) /\ SoloEnAKernel(c)
        /\ UNCHANGED << colaNuevo, colaEjecutando, procesos, config, aCPU, valorSemaforo,
                        planificador, cpu, kernel >>
    BY <1>1, <1>8, EfectoDeFinDeTurno, EfectoRecibido
  <2>2. /\ colaFinalizado' \in {colaFinalizado, colaFinalizado \cup {m.pid}}
        /\ \/ colaBloqueado' = colaBloqueado
           \/ \E e \in Bloqueos : colaBloqueado' = Append(colaBloqueado, e)
        /\ colaListo' = colaListo \/ \E e \in PCBs : colaListo' = Append(colaListo, e)
    BY <1>1, <1>8, EfectoDeFinDeTurno
  <2>3. /\ colaFinalizado' \subseteq Pids
        /\ colaBloqueado' \in Seq(Bloqueos) /\ colaListo' \in Seq(PCBs)
    <3>1. /\ colaFinalizado \subseteq Pids
          /\ colaBloqueado \in Seq(Bloqueos) /\ colaListo \in Seq(PCBs)
      BY <1>1 DEF TypeOK, Bloqueos
    <3>2. colaFinalizado' \subseteq Pids
      BY <2>1, <2>2, <3>1
    <3> HIDE DEF m
    <3>3. colaBloqueado' \in Seq(Bloqueos)
      BY <2>2, <3>1, PonerAlFinal
    <3>4. colaListo' \in Seq(PCBs)
      BY <2>2, <3>1, PonerAlFinal
    <3>5. QED
      BY <3>2, <3>3, <3>4
  <2>4. TypeOK'
    BY <1>1, <2>1, <2>3 DEF TypeOK, Bloqueos, SoloEnAKernel, SoloEnHilo
  <2>5. QED
    BY <2>1, <2>4, AvisosTrasRecibir DEF TipoInv
<1>9. CASE CPUPerdida(c)
  BY <1>6, <1>9 DEF CPUPerdida
<1>10. CASE RecibirCorrido(c)
  BY <1>10, TipoCorrido
<1>11. QED
  BY <1>2, <1>3, <1>4, <1>5, <1>7, <1>8, <1>9, <1>10 DEF manejadorCPU, FinDeTurno, CambiaValor

-----------------------------------------------------------------------------
(* The CPU processes.                                                      *)
LEMMA EfectoRecibirPCB ==
  ASSUME TipoInv, NEW c \in CPUs, recibirPCBDeKernel(c)
  PROVE  /\ cpu[c].modo = "libre" /\ aCPU[c] # << >> /\ aCPU[c] \in Seq(Envios)
         /\ SoloEnCPU(c) /\ cpu'[c].desfasada = cpu[c].desfasada
         /\ cpu'[c].sigusr1 = cpu[c].sigusr1
         /\ UNCHANGED << SoloCPU, aKernel >>
         /\ \/ /\ ~cpu[c].desfasada
               /\ Head(aCPU[c]).pid \in Pids /\ Head(aCPU[c]).tipo = "MENSAJE_PCB"
               /\ cpu'[c].modo = "ejecutando" /\ cpu'[c].pid = Head(aCPU[c]).pid
               /\ cpu'[c].marca = "" /\ cpu'[c].quantum = QUANTUM
               /\ SoloEnACPU(c) /\ aCPU'[c] = Tail(aCPU[c])
            \/ /\ cpu[c].desfasada /\ cpu'[c].modo = "muerta" /\ cpu'[c].pid = cpu[c].pid
               /\ aCPU' = aCPU
<1>1. TypeOK /\ UnAviso(c)
  BY DEF TipoInv
<1>2. cpu[c] \in EstadosCPU /\ aCPU \in [CPUs -> Seq(Envios)] /\ aCPU[c] \in Seq(Envios)
  BY <1>1 DEF TypeOK
<1>3. cpu[c].modo = "libre" /\ aCPU[c] # << >> /\ UNCHANGED << SoloCPU, aKernel >>
  BY DEF recibirPCBDeKernel
<1>4. CASE ~cpu[c].desfasada
  <2> DEFINE e == [cpu[c] EXCEPT !.modo = "ejecutando", !.pid = Head(aCPU[c]).pid,
                                 !.quantum = QUANTUM, !.marca = ""]
  <2>1. /\ cpu' = [cpu EXCEPT ![c].modo = "ejecutando", ![c].pid = Head(aCPU[c]).pid,
                              ![c].quantum = QUANTUM, ![c].marca = ""]
        /\ aCPU' = [aCPU EXCEPT ![c] = Tail(aCPU[c])]
    BY <1>4 DEF recibirPCBDeKernel
  <2>2. Head(aCPU[c]).pid \in Pids /\ Head(aCPU[c]).tipo = "MENSAJE_PCB"
    <3>1. Head(aCPU[c]) \in Envios /\ 1 \in DOMAIN aCPU[c] /\ aCPU[c][1] = Head(aCPU[c])
      BY <1>2, <1>3, SacarElPrimero
    <3>2. ~Hay(aCPU[c], Avisos)
      BY <1>1, <1>3, <1>4 DEF UnAviso
    <3>3. Head(aCPU[c]).tipo \notin Avisos
      BY <3>1, <3>2 DEF Hay
    <3>4. QED
      BY <3>1, <3>3 DEF Envios
  <2>3. cpu' = [cpu EXCEPT ![c] = e]
    BY <1>1, <2>1 DEF TypeOK
  <2>4. /\ e \in EstadosCPU /\ e.modo = "ejecutando" /\ e.pid = Head(aCPU[c]).pid
        /\ e.marca = "" /\ e.quantum = QUANTUM
        /\ e.desfasada = cpu[c].desfasada /\ e.sigusr1 = cpu[c].sigusr1
    <3>1. QUANTUM \in Int
      BY ConfigAssumption
    <3>2. QED
      BY <1>2, <2>2, <3>1 DEF EstadosCPU
  <2>5. SoloEnACPU(c) /\ aCPU'[c] = Tail(aCPU[c])
    <3>1. Tail(aCPU[c]) \in Seq(Envios)
      BY <1>2, <1>3, SacarElPrimero
    <3>2. QED
      BY <1>2, <2>1, <3>1 DEF SoloEnACPU
  <2> HIDE DEF e
  <2>6. QED
    BY <1>1, <1>2, <1>3, <1>4, <2>2, <2>3, <2>4, <2>5, CambioDeCPU
<1>5. CASE cpu[c].desfasada
  <2> DEFINE e == [cpu[c] EXCEPT !.modo = "muerta"]
  <2>1. cpu' = [cpu EXCEPT ![c] = e] /\ aCPU' = aCPU
    BY <1>5 DEF recibirPCBDeKernel
  <2>2. /\ e \in EstadosCPU /\ e.modo = "muerta" /\ e.pid = cpu[c].pid
        /\ e.desfasada = cpu[c].desfasada /\ e.sigusr1 = cpu[c].sigusr1
    BY <1>2 DEF EstadosCPU
  <2> HIDE DEF e
  <2>3. QED
    BY <1>1, <1>2, <1>3, <1>5, <2>1, <2>2, CambioDeCPU
<1>6. QED
  BY <1>4, <1>5

LEMMA GastadoTipo ==
  ASSUME NEW q \in Int
  PROVE  Gastado(q) \in Int
BY DEF Gastado

(* The lines that leave the CPU executing.                                 *)
Linea(c) ==
  LineaComun(c) \/ LineaFinal(c) \/ \E s \in Nombres : pedirSignal(c, s)

LEMMA EfectoDeLinea ==
  ASSUME TypeOK, NEW c \in CPUs, Linea(c)
  PROVE  /\ SigueEjecutando(c) /\ SoloEnCPU(c) /\ UNCHANGED SoloCPU
         /\ cpu'[c].modo = "ejecutando" /\ cpu'[c].pid = cpu[c].pid
         /\ cpu'[c].desfasada = cpu[c].desfasada /\ cpu'[c].sigusr1 = cpu[c].sigusr1
         /\ cpu'[c].quantum = Gastado(cpu[c].quantum)
         /\ \/ cpu'[c].marca = "" /\ UNCHANGED canales
            \/ /\ cpu'[c].marca \in {"PROCESO_FINALIZADO", "PROCESO_ABORTADO"}
               /\ UNCHANGED canales
            \/ /\ cpu'[c].marca = ""
               /\ \E s \in Nombres :
                    LET e == [tipo |-> "SIGNAL_SEMAFORO", pid |-> cpu[c].pid, semaforo |-> s] IN
                    e \in Mensajes /\ Enviar(c, <<e>>)
<1>1. cpu[c] \in EstadosCPU /\ Gastado(cpu[c].quantum) \in Int
  BY GastadoTipo DEF TypeOK, EstadosCPU
<1>2. SigueEjecutando(c) /\ UNCHANGED SoloCPU /\ cpu[c].modo = "ejecutando" /\ cpu[c].marca = ""
  BY DEF Linea, LineaComun, LineaFinal, pedirSignal, SigueEjecutando
<1>3. cpu[c].pid \in Pids
  BY <1>2 DEF TypeOK
<1> DEFINE q == Gastado(cpu[c].quantum)
           e == [cpu[c] EXCEPT !.quantum = q]
<1>4. /\ e \in EstadosCPU /\ e.modo = "ejecutando" /\ e.pid = cpu[c].pid
      /\ e.desfasada = cpu[c].desfasada /\ e.sigusr1 = cpu[c].sigusr1
      /\ e.quantum = q /\ e.marca = ""
  <2> HIDE DEF q
  <2>1. q \in Int
    BY <1>1 DEF q
  <2>2. QED
    BY <1>1, <1>2, <2>1 DEF EstadosCPU
<1>5. ASSUME cpu' = [cpu EXCEPT ![c] = e]
      PROVE  /\ SoloEnCPU(c) /\ cpu'[c].modo = "ejecutando" /\ cpu'[c].pid = cpu[c].pid
             /\ cpu'[c].desfasada = cpu[c].desfasada /\ cpu'[c].sigusr1 = cpu[c].sigusr1
             /\ cpu'[c].quantum = q /\ cpu'[c].marca = ""
  <2> HIDE DEF e, q
  <2>1. SoloEnCPU(c) /\ cpu'[c] = e
    BY <1>4, <1>5, CambioDeCPU
  <2>2. QED
    BY <1>4, <2>1
<1>6. CASE LineaComun(c)
  <2>1. cpu' = [cpu EXCEPT ![c] = e] /\ UNCHANGED canales
    BY <1>6 DEF LineaComun, canales
  <2>2. QED
    BY <1>2, <1>5, <2>1
<1>7. CASE \E s \in Nombres : pedirSignal(c, s)
  <2>1. PICK s \in Nombres : pedirSignal(c, s)
    BY <1>7
  <2> DEFINE m == [tipo |-> "SIGNAL_SEMAFORO", pid |-> cpu[c].pid, semaforo |-> s]
  <2>2. m \in Mensajes
    BY <1>3 DEF Mensajes
  <2>3. cpu' = [cpu EXCEPT ![c] = e] /\ Enviar(c, <<m>>)
    BY <2>1 DEF pedirSignal
  <2>4. QED
    BY <1>2, <1>5, <2>2, <2>3
<1>8. CASE LineaFinal(c)
  <2>1. PICK par \in {<<"finalizar", "PROCESO_FINALIZADO">>, <<"aborta", "PROCESO_ABORTADO">>} :
          cpu' = [cpu EXCEPT ![c].quantum = Gastado(@), ![c].marca = par[2]]
    BY <1>8 DEF LineaFinal
  <2>2. par[2] \in {"PROCESO_FINALIZADO", "PROCESO_ABORTADO"} /\ UNCHANGED canales
    BY <1>8 DEF LineaFinal, canales
  <2> DEFINE f == [cpu[c] EXCEPT !.quantum = q, !.marca = par[2]]
  <2>3. cpu' = [cpu EXCEPT ![c] = f]
    BY <2>1 DEF TypeOK
  <2>4. /\ f \in EstadosCPU /\ f.modo = "ejecutando" /\ f.pid = cpu[c].pid
        /\ f.desfasada = cpu[c].desfasada /\ f.sigusr1 = cpu[c].sigusr1
        /\ f.quantum = q /\ f.marca = par[2]
    <3> HIDE DEF q
    <3>1. q \in Int
      BY <1>1 DEF q
    <3>2. QED
      BY <1>1, <1>2, <2>2, <3>1 DEF EstadosCPU, Marcas
  <2>5. SoloEnCPU(c) /\ cpu'[c] = f
    <3> HIDE DEF f
    <3>1. QED
      BY <2>3, <2>4, CambioDeCPU
  <2> HIDE DEF f
  <2>6. QED
    BY <1>2, <2>2, <2>4, <2>5
<1>9. QED
  BY <1>6, <1>7, <1>8 DEF Linea

LEMMA EfectoPedirWait ==
  ASSUME TypeOK, NEW c \in CPUs, NEW s \in Nombres, pedirWait(c, s)
  PROVE  LET e == [tipo |-> "WAIT_SEMAFORO", pid |-> cpu[c].pid, semaforo |-> s] IN
         /\ SigueEjecutando(c) /\ SoloEnCPU(c) /\ UNCHANGED SoloCPU
         /\ cpu'[c].modo = "esperando" /\ cpu'[c].pid = cpu[c].pid /\ cpu'[c].marca = ""
         /\ cpu'[c].desfasada = cpu[c].desfasada /\ cpu'[c].sigusr1 = cpu[c].sigusr1
         /\ cpu'[c].quantum = cpu[c].quantum
         /\ e \in Mensajes /\ Enviar(c, <<e>>)
<1> DEFINE m == [tipo |-> "WAIT_SEMAFORO", pid |-> cpu[c].pid, semaforo |-> s]
           e == [cpu[c] EXCEPT !.modo = "esperando"]
<1>1. /\ SigueEjecutando(c) /\ UNCHANGED SoloCPU /\ cpu[c].modo = "ejecutando"
      /\ cpu[c].marca = "" /\ Enviar(c, <<m>>)
      /\ cpu' = [cpu EXCEPT ![c] = e]
  BY DEF pedirWait, SigueEjecutando
<1>2. cpu[c] \in EstadosCPU /\ cpu[c].pid \in Pids
  BY <1>1 DEF TypeOK
<1>3. m \in Mensajes
  BY <1>2 DEF Mensajes
<1>4. /\ e \in EstadosCPU /\ e.modo = "esperando" /\ e.pid = cpu[c].pid /\ e.marca = ""
      /\ e.desfasada = cpu[c].desfasada /\ e.sigusr1 = cpu[c].sigusr1
      /\ e.quantum = cpu[c].quantum
  BY <1>1, <1>2 DEF EstadosCPU
<1>5. SoloEnCPU(c) /\ cpu'[c] = e
  <2> HIDE DEF e
  <2>1. QED
    BY <1>1, <1>4, CambioDeCPU
<1> HIDE DEF e
<1>6. QED
  BY <1>1, <1>3, <1>4, <1>5

(* The answer a CPU takes is one of the two, unless it has taken or takes  *)
(* a PCB for it.                                                           *)
LEMMA EfectoRespuestaWait ==
  ASSUME TypeOK, NEW c \in CPUs, RespuestaWait(c)
  PROVE  /\ cpu[c].modo = "esperando" /\ SoloEnCPU(c) /\ UNCHANGED << SoloCPU, aKernel >>
         /\ cpu'[c].modo = "ejecutando" /\ cpu'[c].pid = cpu[c].pid
         /\ cpu'[c].sigusr1 = cpu[c].sigusr1
         /\ cpu'[c].quantum = Gastado(cpu[c].quantum)
         /\ cpu'[c].marca \in {"", "PROCESO_BLOQUEADO"}
         /\ aCPU[c] # << >> /\ aCPU[c] \in Seq(Envios) /\ SoloEnACPU(c)
         /\ \/ cpu[c].desfasada /\ cpu'[c].desfasada /\ aCPU' = aCPU
            \/ ~cpu[c].desfasada /\ cpu'[c].desfasada /\ Head(aCPU[c]).tipo = "MENSAJE_PCB"
            \/ /\ ~cpu[c].desfasada /\ ~cpu'[c].desfasada
               /\ Head(aCPU[c]).tipo \in Avisos /\ Head(aCPU[c]).pid = 0
               /\ aCPU'[c] = Tail(aCPU[c])
               /\ cpu'[c].marca = IF Head(aCPU[c]).tipo = "BLOQUEO_POR_SEMAFORO"
                                  THEN "PROCESO_BLOQUEADO" ELSE ""
<1> DEFINE tipo == IF cpu[c].desfasada THEN "resto de una PCB" ELSE Head(aCPU[c]).tipo
           q == Gastado(cpu[c].quantum)
           marca == IF tipo = "BLOQUEO_POR_SEMAFORO" THEN "PROCESO_BLOQUEADO" ELSE ""
           desf == cpu[c].desfasada \/ tipo = "MENSAJE_PCB"
           e == [cpu[c] EXCEPT !.modo = "ejecutando", !.quantum = q, !.marca = marca,
                               !.desfasada = desf]
<1>1. /\ cpu[c].modo = "esperando" /\ aCPU[c] # << >> /\ UNCHANGED << SoloCPU, aKernel >>
      /\ aCPU' = IF tipo = "resto de una PCB" THEN aCPU ELSE [aCPU EXCEPT ![c] = Tail(@)]
      /\ cpu' = [cpu EXCEPT ![c].modo = "ejecutando", ![c].quantum = Gastado(@),
                            ![c].marca = marca, ![c].desfasada = @ \/ tipo = "MENSAJE_PCB"]
  BY DEF RespuestaWait
<1>2. /\ cpu \in [CPUs -> EstadosCPU] /\ cpu[c] \in EstadosCPU
      /\ aCPU \in [CPUs -> Seq(Envios)] /\ aCPU[c] \in Seq(Envios)
  BY DEF TypeOK
<1>3. cpu' = [cpu EXCEPT ![c] = e]
  <2> HIDE DEF tipo, marca
  <2>1. QED
    BY <1>1, <1>2 DEF EstadosCPU
<1>4. /\ e \in EstadosCPU /\ e.modo = "ejecutando" /\ e.pid = cpu[c].pid
      /\ e.sigusr1 = cpu[c].sigusr1 /\ e.quantum = q /\ e.marca = marca
      /\ e.desfasada = desf
  <2>1. q \in Int /\ marca \in Marcas \cup {""} /\ desf \in BOOLEAN
    BY <1>2, GastadoTipo DEF EstadosCPU, Marcas
  <2> HIDE DEF q, marca, desf
  <2>2. QED
    BY <1>2, <2>1 DEF EstadosCPU
<1>5. SoloEnCPU(c) /\ cpu'[c] = e
  <2> HIDE DEF e
  <2>1. QED
    BY <1>3, <1>4, CambioDeCPU
<1>6. Head(aCPU[c]) \in Envios /\ Tail(aCPU[c]) \in Seq(Envios)
  BY <1>1, <1>2, SacarElPrimero
<1>7. /\ Head(aCPU[c]).tipo # "resto de una PCB"
      /\ Head(aCPU[c]).tipo # "MENSAJE_PCB" => Head(aCPU[c]).tipo \in Avisos /\ Head(aCPU[c]).pid = 0
  BY <1>6 DEF Envios, Avisos
<1>8. SoloEnACPU(c)
  <2>1. CASE aCPU' = aCPU
    BY <1>2, <2>1 DEF SoloEnACPU
  <2>2. CASE aCPU' = [aCPU EXCEPT ![c] = Tail(@)]
    BY <1>2, <1>6, <2>2 DEF SoloEnACPU
  <2>3. QED
    BY <1>1, <2>1, <2>2
<1>9. /\ SoloEnCPU(c) /\ cpu'[c].modo = "ejecutando" /\ cpu'[c].pid = cpu[c].pid
      /\ cpu'[c].sigusr1 = cpu[c].sigusr1 /\ cpu'[c].quantum = q
      /\ cpu'[c].marca = marca /\ cpu'[c].desfasada = desf
      /\ marca \in {"", "PROCESO_BLOQUEADO"}
  <2> HIDE DEF q, marca, desf, e
  <2>1. marca \in {"", "PROCESO_BLOQUEADO"}
    BY DEF marca
  <2>2. QED
    BY <1>4, <1>5, <2>1
<1>10. CASE cpu[c].desfasada
  <2>1. desf /\ aCPU' = aCPU
    BY <1>1, <1>10
  <2>2. QED
    BY <1>1, <1>2, <1>8, <1>9, <1>10, <2>1
<1>11. CASE ~cpu[c].desfasada
  <2>1. tipo = Head(aCPU[c]).tipo /\ aCPU' = [aCPU EXCEPT ![c] = Tail(@)]
    BY <1>1, <1>7, <1>11
  <2>2. aCPU'[c] = Tail(aCPU[c])
    BY <1>2, <2>1
  <2>3. CASE Head(aCPU[c]).tipo = "MENSAJE_PCB"
    <3>1. desf
      BY <2>1, <2>3
    <3>2. QED
      BY <1>1, <1>2, <1>8, <1>9, <1>11, <2>3, <3>1
  <2>4. CASE Head(aCPU[c]).tipo # "MENSAJE_PCB"
    <3>1. ~desf
      BY <1>11, <2>1, <2>4
    <3>2. QED
      BY <1>1, <1>2, <1>7, <1>8, <1>9, <1>11, <2>1, <2>2, <2>4, <3>1
  <2>5. QED
    BY <2>3, <2>4
<1>12. QED
  BY <1>10, <1>11

LEMMA JuntarMotivos ==
  ASSUME NEW a, NEW b
  PROVE  /\ << >> \o <<b>> = <<b>> /\ <<a>> \o << >> = <<a>>
         /\ <<a>> \o <<b>> = <<a, b>>
<1> DEFINE S == {a, b}
<1>1. <<a>> \in Seq(S) /\ <<b>> \in Seq(S)
  OBVIOUS
<1>2. <<a>> \o << >> = <<a>> /\ << >> \o <<b>> = <<b>>
  BY <1>1, ConcatEmptySeq
<1>3. <<a>> \o <<b>> = Append(<<a>>, b)
  BY <1>1, AppendIsConcat
<1>4. Append(<<a>>, b) = <<a, b>>
  <2> DEFINE s == <<a>>
  <2>1. s \in Seq(S) /\ Len(s) = 1 /\ s[1] = a /\ b \in S
    OBVIOUS
  <2>2. <<a, b>> \in Seq(S) /\ Len(<<a, b>>) = 2 /\ <<a, b>>[1] = a /\ <<a, b>>[2] = b
    OBVIOUS
  <2> HIDE DEF s, S
  <2>3. s \in Seq(S) /\ b \in S /\ Len(s) = 1
    BY <2>1
  <2>4. Append(s, b) \in Seq(S) /\ Len(Append(s, b)) = 2
            /\ Append(s, b)[1] = a /\ Append(s, b)[2] = b
    <3>1. Append(s, b) \in Seq(S)
      BY <2>3, AppendProperties
    <3>2. Len(Append(s, b)) = Len(s) + 1
      BY <2>3, AppendProperties
    <3>3. 1 \in 1 .. Len(s) /\ Append(s, b)[1] = s[1]
      BY <2>3
    <3>4. Append(s, b)[Len(s) + 1] = b
      BY <2>3, AppendProperties
    <3>5. QED
      BY <2>1, <3>1, <3>2, <3>3, <3>4
  <2> DEFINE t == <<a, b>>
            u == Append(s, b)
  <2>5. t \in Seq(S) /\ Len(t) = 2 /\ t[1] = a /\ t[2] = b
    BY <2>2
  <2>6. u \in Seq(S) /\ Len(u) = 2 /\ u[1] = a /\ u[2] = b
    BY <2>4
  <2>7. t = << a, b >> /\ u = Append(s, b)
    OBVIOUS
  <2> HIDE DEF t, u
  <2>8. \A i \in 1 .. Len(u) : u[i] = t[i]
    BY <2>5, <2>6
  <2>9. u = t
    BY <2>5, <2>6, <2>8, SeqEqual
  <2>10. QED
    BY <2>7, <2>9 DEF s
<1>5. QED
  BY <1>2, <1>3, <1>4

LEMMA UnCierre ==
  ASSUME NEW a, NEW p
  PROVE  [i \in DOMAIN <<a>> |-> Cierre(<<a>>[i], p)] = << Cierre(a, p) >>
<1> DEFINE s == <<a>>
<1>1. DOMAIN s = 1 .. 1 /\ s[1] = a
  OBVIOUS
<1>2. [i \in DOMAIN s |-> Cierre(s[i], p)] = [i \in 1 .. 1 |-> Cierre(a, p)]
  <2> HIDE DEF s
  <2>1. QED
    BY <1>1
<1>3. [i \in 1 .. 1 |-> Cierre(a, p)] = << Cierre(a, p) >>
  OBVIOUS
<1>4. QED
  BY <1>2, <1>3

LEMMA DosCierres ==
  ASSUME NEW a, NEW b, NEW p
  PROVE  [i \in DOMAIN <<a, b>> |-> Cierre(<<a, b>>[i], p)] = << Cierre(a, p), Cierre(b, p) >>
<1> DEFINE s == <<a, b>>
<1>1. DOMAIN s = 1 .. 2 /\ s[1] = a /\ s[2] = b
  OBVIOUS
<1>2. [i \in DOMAIN s |-> Cierre(s[i], p)] = [i \in 1 .. 2 |-> IF i = 1 THEN Cierre(a, p) ELSE Cierre(b, p)]
  <2> HIDE DEF s
  <2>1. QED
    BY <1>1
<1>3. [i \in 1 .. 2 |-> IF i = 1 THEN Cierre(a, p) ELSE Cierre(b, p)] = << Cierre(a, p), Cierre(b, p) >>
  OBVIOUS
<1>4. QED
  BY <1>2, <1>3

LEMMA UnMensaje ==
  ASSUME NEW S, NEW x \in S
  PROVE  <<x>> \in Seq(S) /\ <<x>> # << >> /\ DOMAIN <<x>> = {1} /\ <<x>>[1] = x /\ Len(<<x>>) = 1
  OBVIOUS

LEMMA DosMensajes ==
  ASSUME NEW S, NEW x \in S, NEW y \in S
  PROVE  /\ <<x, y>> \in Seq(S) /\ <<x, y>> # << >> /\ DOMAIN <<x, y>> = {1, 2}
         /\ <<x, y>>[1] = x /\ <<x, y>>[2] = y
  OBVIOUS

(* The messages a CPU may send when its turn ends, all of them about the   *)
(* process it executed.                                                    *)
LEMMA LosMotivos ==
  ASSUME TypeOK, NEW c \in CPUs, cpu[c].modo = "ejecutando", ~SigueEjecutando(c),
         NEW m, m = [i \in DOMAIN Motivos(c) |-> Cierre(Motivos(c)[i], cpu[c].pid)]
  PROVE  /\ m \in Seq(Mensajes) /\ m # << >> /\ <<m[1]>> \in Seq(Mensajes)
         /\ \A i \in DOMAIN m : m[i] \in Mensajes /\ m[i] = Cierre(m[i].tipo, cpu[c].pid)
         /\ cpu[c].quantum # 0 => m = << Cierre(cpu[c].marca, cpu[c].pid) >> /\ cpu[c].marca \in Marcas
         /\ cpu[c].quantum # 0 => Len(m) = 1
         /\ \A i \in DOMAIN m : m[i].tipo \in {cpu[c].marca, "PROCESO_FINALIZO_RAFAGA"}
<1> DEFINE marca == cpu[c].marca
           p == cpu[c].pid
           RAFAGA == "PROCESO_FINALIZO_RAFAGA"
<1>1. /\ p \in Pids /\ marca \in Marcas \cup {""}
      /\ marca # "" \/ cpu[c].quantum = 0
  BY DEF TypeOK, EstadosCPU, SigueEjecutando
<1>2. /\ \A t \in Marcas \cup {RAFAGA} :
           /\ Cierre(t, p) \in Mensajes
           /\ Cierre(t, p) = Cierre(Cierre(t, p).tipo, p)
           /\ Cierre(t, p).tipo = t
  BY <1>1 DEF Cierre, Mensajes
<1> HIDE DEF p
<1>3. CASE marca # "" /\ cpu[c].quantum = 0
  <2> DEFINE a == Cierre(marca, p)
             b == Cierre(RAFAGA, p)
  <2>1. Motivos(c) = << marca, RAFAGA >>
    BY <1>3, JuntarMotivos DEF Motivos
  <2>2. m = << a, b >>
    <3> HIDE DEF marca, RAFAGA
    <3>1. m = [i \in DOMAIN << marca, RAFAGA >> |-> Cierre(<< marca, RAFAGA >>[i], p)]
      BY <2>1 DEF p
    <3>2. QED
      BY <3>1, DosCierres
  <2>3. /\ a \in Mensajes /\ b \in Mensajes /\ a = Cierre(a.tipo, p) /\ b = Cierre(b.tipo, p)
        /\ a.tipo = marca /\ b.tipo = RAFAGA
    BY <1>1, <1>2, <1>3
  <2> HIDE DEF marca, RAFAGA, a, b
  <2>4. /\ m \in Seq(Mensajes) /\ m # << >> /\ DOMAIN m = {1, 2} /\ m[1] = a /\ m[2] = b
    <3>1. a \in Mensajes /\ b \in Mensajes
      BY <2>3
    <3>2. /\ << a, b >> \in Seq(Mensajes) /\ << a, b >> # << >> /\ DOMAIN << a, b >> = {1, 2}
          /\ << a, b >>[1] = a /\ << a, b >>[2] = b
      BY <3>1, DosMensajes
    <3>3. QED
      BY <2>2, <3>2
  <2>5. <<m[1]>> \in Seq(Mensajes)
    BY <2>3, <2>4, UnMensaje
  <2>6. QED
    BY <1>3, <2>3, <2>4, <2>5 DEF p, marca, RAFAGA
<1>4. CASE marca # "" /\ cpu[c].quantum # 0
  <2> DEFINE a == Cierre(marca, p)
  <2>1. Motivos(c) = << marca >>
    BY <1>4, JuntarMotivos DEF Motivos
  <2>2. m = << a >>
    <3> HIDE DEF marca
    <3>1. m = [i \in DOMAIN << marca >> |-> Cierre(<< marca >>[i], p)]
      BY <2>1 DEF p
    <3>2. QED
      BY <3>1, UnCierre
  <2>3. a \in Mensajes /\ a = Cierre(a.tipo, p) /\ marca \in Marcas /\ a.tipo = marca
    BY <1>1, <1>2, <1>4
  <2>4. m = << Cierre(cpu[c].marca, cpu[c].pid) >> /\ cpu[c].marca \in Marcas
    BY <2>2, <2>3 DEF p
  <2> HIDE DEF marca, a
  <2>5. /\ m \in Seq(Mensajes) /\ m # << >> /\ DOMAIN m = {1} /\ m[1] = a /\ Len(m) = 1
        /\ <<m[1]>> \in Seq(Mensajes)
    BY <2>2, <2>3, UnMensaje
  <2>6. QED
    BY <2>3, <2>4, <2>5 DEF p, marca
<1>5. CASE marca = "" /\ cpu[c].quantum = 0
  <2> DEFINE b == Cierre(RAFAGA, p)
  <2>1. Motivos(c) = << RAFAGA >>
    BY <1>5, JuntarMotivos DEF Motivos
  <2>2. m = << b >>
    <3> HIDE DEF RAFAGA
    <3>1. m = [i \in DOMAIN << RAFAGA >> |-> Cierre(<< RAFAGA >>[i], p)]
      BY <2>1 DEF p
    <3>2. QED
      BY <3>1, UnCierre
  <2>3. b \in Mensajes /\ b = Cierre(b.tipo, p) /\ b.tipo = RAFAGA
    BY <1>2
  <2> HIDE DEF RAFAGA, b
  <2>4. /\ m \in Seq(Mensajes) /\ m # << >> /\ DOMAIN m = {1} /\ m[1] = b
        /\ <<m[1]>> \in Seq(Mensajes)
    BY <2>2, <2>3, UnMensaje
  <2>5. QED
    BY <1>5, <2>3, <2>4 DEF p, RAFAGA
<1>6. QED
  BY <1>1, <1>3, <1>4, <1>5

LEMMA EfectoTerminarTurno ==
  ASSUME TypeOK, NEW c \in CPUs, TerminarTurno(c)
  PROVE  /\ cpu[c].modo = "ejecutando" /\ ~SigueEjecutando(c)
         /\ SoloEnCPU(c) /\ UNCHANGED SoloCPU
         /\ cpu'[c].modo \in {"libre", "muerta"} /\ cpu'[c].pid = cpu[c].pid
         /\ cpu'[c].desfasada = cpu[c].desfasada /\ cpu'[c].quantum = cpu[c].quantum
         /\ cpu'[c].marca = cpu[c].marca
         /\ \E m \in Seq(Mensajes) :
              /\ Enviar(c, m) /\ m # << >>
              /\ \A i \in DOMAIN m :
                   /\ m[i] = Cierre(m[i].tipo, cpu[c].pid)
                   /\ m[i].tipo \in {cpu[c].marca, "PROCESO_FINALIZO_RAFAGA"}
              /\ cpu[c].quantum # 0 =>
                   m = << Cierre(cpu[c].marca, cpu[c].pid) >> /\ cpu[c].marca \in Marcas
<1> DEFINE m == [i \in DOMAIN Motivos(c) |-> Cierre(Motivos(c)[i], cpu[c].pid)]
<1>1. cpu[c].modo = "ejecutando" /\ ~SigueEjecutando(c) /\ UNCHANGED SoloCPU
  BY DEF TerminarTurno
<1>2. \/ /\ Enviar(c, m)
         /\ cpu' = [cpu EXCEPT ![c].modo = IF cpu[c].sigusr1 THEN "muerta" ELSE "libre"]
      \/ /\ Len(m) = 2 /\ Enviar(c, <<m[1]>>)
         /\ cpu' = [cpu EXCEPT ![c].modo = "muerta"]
  BY DEF TerminarTurno
<1> HIDE DEF m
<1>3. /\ m \in Seq(Mensajes) /\ m # << >> /\ <<m[1]>> \in Seq(Mensajes)
      /\ \A i \in DOMAIN m : m[i] \in Mensajes /\ m[i] = Cierre(m[i].tipo, cpu[c].pid)
      /\ cpu[c].quantum # 0 => m = << Cierre(cpu[c].marca, cpu[c].pid) >> /\ cpu[c].marca \in Marcas
      /\ cpu[c].quantum # 0 => Len(m) = 1
      /\ \A i \in DOMAIN m : m[i].tipo \in {cpu[c].marca, "PROCESO_FINALIZO_RAFAGA"}
  BY <1>1, LosMotivos DEF m
<1>4. ASSUME NEW modo \in {"libre", "muerta"}, cpu' = [cpu EXCEPT ![c].modo = modo]
      PROVE  /\ SoloEnCPU(c)
             /\ cpu'[c].modo \in {"libre", "muerta"} /\ cpu'[c].pid = cpu[c].pid
             /\ cpu'[c].desfasada = cpu[c].desfasada /\ cpu'[c].quantum = cpu[c].quantum
             /\ cpu'[c].marca = cpu[c].marca
  <2> DEFINE e == [cpu[c] EXCEPT !.modo = modo]
  <2>1. /\ e \in EstadosCPU /\ e.modo = modo /\ e.pid = cpu[c].pid
        /\ e.desfasada = cpu[c].desfasada /\ e.quantum = cpu[c].quantum
        /\ e.marca = cpu[c].marca
    BY DEF TypeOK, EstadosCPU
  <2>2. cpu' = [cpu EXCEPT ![c] = e]
    BY <1>4
  <2> HIDE DEF e
  <2>3. QED
    BY <2>1, <2>2, CambioDeCPU
<1>5. CASE /\ Enviar(c, m)
           /\ cpu' = [cpu EXCEPT ![c].modo = IF cpu[c].sigusr1 THEN "muerta" ELSE "libre"]
  <2> DEFINE modo == IF cpu[c].sigusr1 THEN "muerta" ELSE "libre"
  <2>1. modo \in {"libre", "muerta"} /\ cpu' = [cpu EXCEPT ![c].modo = modo]
    BY <1>5
  <2> HIDE DEF modo
  <2>2. QED
    BY <1>1, <1>3, <1>4, <1>5, <2>1
<1>6. CASE /\ Len(m) = 2 /\ Enviar(c, <<m[1]>>)
           /\ cpu' = [cpu EXCEPT ![c].modo = "muerta"]
  <2>1. cpu[c].quantum = 0
    BY <1>3, <1>6
  <2>2. 1 \in DOMAIN m
    BY <1>3, SacarElPrimero
  <2>3. <<m[1]>> # << >> /\ \A i \in DOMAIN <<m[1]>> :
          /\ <<m[1]>>[i] = Cierre(<<m[1]>>[i].tipo, cpu[c].pid)
          /\ <<m[1]>>[i].tipo \in {cpu[c].marca, "PROCESO_FINALIZO_RAFAGA"}
    BY <1>3, <2>2
  <2>4. QED
    BY <1>1, <1>3, <1>4, <1>6, <2>1, <2>3
<1>7. QED
  BY <1>2, <1>5, <1>6

(* A request about a semaphore hands no process back.                      *)
LEMMA PedidoNoEsCierre ==
  ASSUME NEW m \in Mensajes,
         m.semaforo \in Semaforos \/ m.tipo \in {"WAIT_SEMAFORO", "SIGNAL_SEMAFORO"},
         NEW t, NEW p
  PROVE  m # Cierre(t, p)
<1>1. Cierre(t, p).semaforo = ""
  BY DEF Cierre
<1>2. "" \notin Semaforos /\ "" \notin Nombres
  BY SemaforosAssumption
<1>3. CASE m \in [tipo : {"WAIT_SEMAFORO", "SIGNAL_SEMAFORO"}, pid : Pids, semaforo : Nombres]
  BY <1>1, <1>2, <1>3
<1>4. CASE m \in [tipo : Marcas \cup {"PROCESO_FINALIZO_RAFAGA"}, pid : Pids, semaforo : {""}]
  BY <1>1, <1>2, <1>4 DEF Marcas
<1>5. QED
  BY <1>3, <1>4 DEF Mensajes

LEMMA CierresSinEspera ==
  ASSUME NEW m \in Seq(Mensajes), NEW p,
         \A i \in DOMAIN m : m[i] = Cierre(m[i].tipo, p)
  PROVE  ~Hay(m, Espera)
<1>1. DOMAIN m = 1 .. Len(m) /\ \A i \in 1 .. Len(m) : m[i] \in Mensajes
  BY LenProperties, ElementOfSeq
<1>2. ASSUME NEW i \in DOMAIN m
      PROVE  m[i].tipo \notin Espera
  BY <1>1, <1>2, PedidoNoEsCierre DEF Espera
<1>3. QED
  BY <1>2 DEF Hay

LEMMA TipoCicloCPU ==
  ASSUME TipoInv, NEW c \in CPUs, CicloCPU(c)
  PROVE  TipoInv'
<1> USE DEF colas, procesos, config, canales
<1>1. TypeOK /\ UnAviso(c)
  BY DEF TipoInv
<1>2. ASSUME NEW m \in Seq(Mensajes), Enviar(c, m)
      PROVE  /\ aCPU' = aCPU /\ SoloEnAKernel(c)
             /\ ~Hay(m, Espera) =>
                  /\ Hay(aKernel'[c], Espera) <=> Hay(aKernel[c], Espera)
                  /\ Unico(aKernel[c], Espera) => Unico(aKernel'[c], Espera)
  <2>1. /\ SoloEnAKernel(c) /\ aKernel[c] \in Seq(Mensajes) /\ aCPU' = aCPU
        /\ aKernel'[c] = aKernel[c] \o m
    BY <1>1, <1>2, EfectoEnviar
  <2>2. QED
    BY <1>2, <2>1, PonerVarios
<1>3. ASSUME UNCHANGED SoloCPU, SoloEnCPU(c),
             aCPU' \in [CPUs -> Seq(Envios)], aKernel' \in [CPUs -> Seq(Mensajes)],
             cpu'[c].modo \in {"ejecutando", "esperando"} => cpu'[c].pid \in Pids
      PROVE  TypeOK'
  BY <1>1, <1>3 DEF TypeOK, SoloCPU, SoloEnCPU
<1>4. /\ aCPU \in [CPUs -> Seq(Envios)] /\ aKernel \in [CPUs -> Seq(Mensajes)]
      /\ cpu[c].modo \in {"ejecutando", "esperando"} => cpu[c].pid \in Pids
  BY <1>1 DEF TypeOK
<1>5. CASE recibirPCBDeKernel(c)
  <2>1. /\ cpu[c].modo = "libre" /\ aCPU[c] # << >> /\ aCPU[c] \in Seq(Envios)
        /\ SoloEnCPU(c) /\ cpu'[c].desfasada = cpu[c].desfasada
        /\ UNCHANGED << SoloCPU, aKernel >>
        /\ \/ /\ cpu'[c].modo = "ejecutando" /\ cpu'[c].pid \in Pids
              /\ SoloEnACPU(c) /\ aCPU'[c] = Tail(aCPU[c])
           \/ cpu[c].desfasada /\ cpu'[c].modo = "muerta" /\ aCPU' = aCPU
    BY <1>5, EfectoRecibirPCB
  <2>2. aCPU' \in [CPUs -> Seq(Envios)]
    BY <1>4, <2>1 DEF SoloEnACPU
  <2>3. TypeOK'
    BY <1>3, <1>4, <2>1, <2>2
  <2>4. Hay(Tail(aCPU[c]), Avisos) => Hay(aCPU[c], Avisos)
    BY <2>1, SacarMensaje
  <2>5. Unico(aCPU[c], Avisos) => Unico(Tail(aCPU[c]), Avisos)
    BY <2>1, SacarMensaje
  <2>6. UnAviso(c)'
    BY <1>1, <2>1, <2>4, <2>5 DEF UnAviso
  <2>7. QED
    BY <2>1, <2>3, <2>6, AvisosDeLosOtros DEF TipoInv, SoloEnCPU, SoloEnACPU
<1>6. CASE Linea(c)
  <2>1. /\ cpu[c].modo = "ejecutando" /\ SoloEnCPU(c) /\ UNCHANGED SoloCPU
        /\ cpu'[c].modo = "ejecutando" /\ cpu'[c].pid = cpu[c].pid
        /\ cpu'[c].desfasada = cpu[c].desfasada
        /\ \/ UNCHANGED canales
           \/ \E s \in Nombres :
                LET e == [tipo |-> "SIGNAL_SEMAFORO", pid |-> cpu[c].pid, semaforo |-> s] IN
                e \in Mensajes /\ Enviar(c, <<e>>)
    BY <1>1, <1>6, EfectoDeLinea DEF SigueEjecutando
  <2>2. CASE UNCHANGED canales
    <3>1. TypeOK'
      BY <1>3, <1>4, <2>1, <2>2
    <3>2. UnAviso(c)'
      BY <1>1, <2>1, <2>2 DEF UnAviso
    <3>3. QED
      BY <2>1, <2>2, <3>1, <3>2, AvisosDeLosOtros DEF TipoInv, SoloEnCPU
  <2>3. ASSUME NEW e \in Mensajes, e.tipo = "SIGNAL_SEMAFORO", Enviar(c, <<e>>)
        PROVE  TipoInv'
    <3>1. <<e>> \in Seq(Mensajes) /\ ~Hay(<<e>>, Espera)
      BY <2>3, UnMensaje DEF Hay, Espera
    <3>2. /\ aCPU' = aCPU /\ SoloEnAKernel(c)
          /\ Hay(aKernel'[c], Espera) <=> Hay(aKernel[c], Espera)
          /\ Unico(aKernel[c], Espera) => Unico(aKernel'[c], Espera)
      BY <1>2, <2>3, <3>1
    <3>3. TypeOK'
      BY <1>3, <1>4, <2>1, <3>2 DEF SoloEnAKernel
    <3>4. UnAviso(c)'
      BY <1>1, <2>1, <3>2 DEF UnAviso
    <3>5. QED
      BY <2>1, <3>2, <3>3, <3>4, AvisosDeLosOtros DEF TipoInv, SoloEnCPU, SoloEnAKernel
  <2>4. QED
    BY <2>1, <2>2, <2>3
<1>7. ASSUME NEW s \in Nombres, pedirWait(c, s)
      PROVE  TipoInv'
  <2> DEFINE e == [tipo |-> "WAIT_SEMAFORO", pid |-> cpu[c].pid, semaforo |-> s]
  <2>1. /\ cpu[c].modo = "ejecutando" /\ SoloEnCPU(c) /\ UNCHANGED SoloCPU
        /\ cpu'[c].modo = "esperando" /\ cpu'[c].pid = cpu[c].pid
        /\ cpu'[c].desfasada = cpu[c].desfasada
        /\ e \in Mensajes /\ Enviar(c, <<e>>)
    BY <1>1, <1>7, EfectoPedirWait DEF SigueEjecutando
  <2> HIDE DEF e
  <2>2. /\ SoloEnAKernel(c) /\ aKernel[c] \in Seq(Mensajes) /\ aCPU' = aCPU
        /\ aKernel'[c] = aKernel[c] \o <<e>>
    BY <1>1, <2>1, EfectoEnviar, UnMensaje
  <2>3. aKernel'[c] = Append(aKernel[c], e)
    BY <2>1, <2>2, AppendIsConcat
  <2>4. Unico(aKernel[c], Espera) /\ ~Hay(aKernel[c], Espera) => Unico(aKernel'[c], Espera)
    BY <2>1, <2>2, <2>3, PonerMensaje
  <2>5. TypeOK'
    BY <1>3, <1>4, <2>1, <2>2 DEF SoloEnAKernel
  <2>6. UnAviso(c)'
    BY <1>1, <2>1, <2>2, <2>4 DEF UnAviso
  <2>7. QED
    BY <2>1, <2>2, <2>5, <2>6, AvisosDeLosOtros DEF TipoInv, SoloEnCPU, SoloEnAKernel
<1>8. CASE RespuestaWait(c)
  <2>1. /\ cpu[c].modo = "esperando" /\ SoloEnCPU(c) /\ UNCHANGED << SoloCPU, aKernel >>
        /\ cpu'[c].modo = "ejecutando" /\ cpu'[c].pid = cpu[c].pid
        /\ aCPU[c] # << >> /\ aCPU[c] \in Seq(Envios) /\ SoloEnACPU(c)
        /\ \/ cpu'[c].desfasada
           \/ /\ ~cpu[c].desfasada
              /\ Head(aCPU[c]).tipo \in Avisos /\ aCPU'[c] = Tail(aCPU[c])
    BY <1>1, <1>8, EfectoRespuestaWait
  <2>2. TypeOK'
    BY <1>3, <1>4, <2>1 DEF SoloEnACPU
  <2>3. Hay(Tail(aCPU[c]), Avisos) => Hay(aCPU[c], Avisos)
    BY <2>1, SacarMensaje
  <2>4. /\ Unico(aCPU[c], Avisos) => Unico(Tail(aCPU[c]), Avisos)
        /\ Unico(aCPU[c], Avisos) /\ Head(aCPU[c]).tipo \in Avisos => ~Hay(Tail(aCPU[c]), Avisos)
    BY <2>1, SacarMensaje
  <2>5. Head(aCPU[c]).tipo \in Avisos => Hay(aCPU[c], Avisos)
    <3>1. 1 \in DOMAIN aCPU[c] /\ aCPU[c][1] = Head(aCPU[c])
      BY <2>1, SacarElPrimero
    <3>2. QED
      BY <3>1 DEF Hay
  <2>6. UnAviso(c)'
    BY <1>1, <2>1, <2>3, <2>4, <2>5 DEF UnAviso
  <2>7. QED
    BY <2>1, <2>2, <2>6, AvisosDeLosOtros DEF TipoInv, SoloEnCPU, SoloEnACPU
<1>9. CASE TerminarTurno(c)
  <2>1. /\ cpu[c].modo = "ejecutando" /\ SoloEnCPU(c) /\ UNCHANGED SoloCPU
        /\ cpu'[c].modo \in {"libre", "muerta"} /\ cpu'[c].desfasada = cpu[c].desfasada
    BY <1>1, <1>9, EfectoTerminarTurno
  <2>2. PICK m \in Seq(Mensajes) :
          /\ Enviar(c, m)
          /\ \A i \in DOMAIN m : m[i] = Cierre(m[i].tipo, cpu[c].pid)
    BY <1>1, <1>9, EfectoTerminarTurno
  <2>3. ~Hay(m, Espera)
    BY <2>2, CierresSinEspera
  <2>4. /\ aCPU' = aCPU /\ SoloEnAKernel(c)
        /\ Hay(aKernel'[c], Espera) <=> Hay(aKernel[c], Espera)
        /\ Unico(aKernel[c], Espera) => Unico(aKernel'[c], Espera)
    BY <1>2, <2>2, <2>3
  <2>5. TypeOK'
    BY <1>3, <1>4, <2>1, <2>4 DEF SoloEnAKernel
  <2>6. UnAviso(c)'
    BY <1>1, <2>1, <2>4 DEF UnAviso
  <2>7. QED
    BY <2>1, <2>4, <2>5, <2>6, AvisosDeLosOtros DEF TipoInv, SoloEnCPU, SoloEnAKernel
<1>10. QED
  BY <1>5, <1>6, <1>7, <1>8, <1>9 DEF CicloCPU, Linea

LEMMA TipoSiguiente == TipoInv /\ [Next]_vars => TipoInv'
<1> SUFFICES ASSUME TipoInv, [Next]_vars
             PROVE  TipoInv'
  OBVIOUS
<1>1. CASE UNCHANGED vars
  <2>1. TypeOK'
    BY <1>1 DEF TipoInv, TypeOK, vars, colas, procesos, config, canales
  <2>2. QED
    BY <1>1, <2>1, AvisosIguales DEF TipoInv, vars, colas, procesos, config, canales
<1>2. CASE Next
  BY <1>2, TipoOperadores, TipoPlanificador, TipoManejador, TipoCicloCPU DEF Next
<1>3. QED
  BY <1>1, <1>2

LEMMA TipoSiempre == Spec => []TipoInv
BY TipoInicial, TipoSiguiente, PTL DEF Spec

(* Everything keeps its type, also what travels between a thread and its   *)
(* CPU; the pid of a PCB a CPU receives is always that of a program, as    *)
(* the answers to the waits are not left behind in the socket.             *)
THEOREM TipoDelPlanificador == Spec => []TypeOK
BY TipoSiempre, PTL DEF TipoInv

-----------------------------------------------------------------------------
(* The first turn of a CPU.  Until its thread is in step nothing it sends  *)
(* is served: no wait is answered, and what there is on the way is of the  *)
(* process of the turn.                                                    *)
Pedidos == {"WAIT_SEMAFORO", "SIGNAL_SEMAFORO"}

DePid(canal, p) == \A i \in DOMAIN canal : canal[i].pid = p

SoloPedidos(canal) == \A i \in DOMAIN canal : canal[i].tipo \in Pedidos

(* The last message hands the process back, if there is any message.       *)
TerminaEnCierre(canal) == canal # << >> => canal[Len(canal)].tipo \notin Pedidos

Enviada(c) ==
  /\ cpu[c].modo = "libre" /\ aKernel[c] = << >>
  /\ aCPU[c] = << [tipo |-> "MENSAJE_PCB", pid |-> hilo[c].pcb.pid] >>

EnMarcha(c) ==
  /\ cpu[c].modo \in {"ejecutando", "esperando"} /\ cpu[c].pid = hilo[c].pcb.pid
  /\ aCPU[c] = << >> /\ SoloPedidos(aKernel[c])

Devuelta(c) ==
  cpu[c].modo \in {"libre", "muerta"} /\ aCPU[c] = << >> /\ TerminaEnCierre(aKernel[c])

SinEmpezar(c) ==
  /\ hilo[c].paso \in {"buscando", "vioListo"} /\ hilo[c].pcb = SinPCB
  /\ cpu[c].modo = "libre" /\ aCPU[c] = << >> /\ aKernel[c] = << >>

EnElPrimero(c) ==
  /\ hilo[c].paso = "atendiendo"
  /\ DePid(aKernel[c], hilo[c].pcb.pid) /\ ~Hay(aKernel[c], {"PROCESO_BLOQUEADO"})
  /\ Enviada(c) \/ EnMarcha(c) \/ Devuelta(c)

PrimerTurno(c) ==
  hilo[c].lectura # "enPaso" =>
    /\ ~cpu[c].desfasada /\ cpu[c].marca # "PROCESO_BLOQUEADO"
    /\ SinEmpezar(c) \/ EnElPrimero(c)

Primeros == \A c \in CPUs : PrimerTurno(c)

(* The steps that touch a single thread and its CPU.                       *)
SoloDe(c) ==
  \A d \in CPUs \ {c} :
    hilo'[d] = hilo[d] /\ cpu'[d] = cpu[d] /\ aCPU'[d] = aCPU[d] /\ aKernel'[d] = aKernel[d]

LEMMA PrimerTurnoIgual ==
  ASSUME NEW d, PrimerTurno(d), hilo'[d] = hilo[d], aCPU'[d] = aCPU[d],
         aKernel'[d] = aKernel[d], cpu'[d].modo = cpu[d].modo, cpu'[d].pid = cpu[d].pid,
         cpu'[d].desfasada = cpu[d].desfasada, cpu'[d].marca = cpu[d].marca
  PROVE  PrimerTurno(d)'
<1>1. /\ Enviada(d) => Enviada(d)'
      /\ EnMarcha(d) => EnMarcha(d)'
      /\ Devuelta(d) => Devuelta(d)'
      /\ SinEmpezar(d) => SinEmpezar(d)'
  BY DEF Enviada, EnMarcha, Devuelta, SinEmpezar
<1>2. EnElPrimero(d) => EnElPrimero(d)'
  BY <1>1 DEF EnElPrimero
<1>3. QED
  BY <1>1, <1>2 DEF PrimerTurno

LEMMA PrimerosDeUno ==
  ASSUME Primeros, NEW c \in CPUs, SoloDe(c), PrimerTurno(c)'
  PROVE  Primeros'
<1>1. ASSUME NEW d \in CPUs \ {c}
      PROVE  PrimerTurno(d)'
  <2>1. hilo'[d] = hilo[d] /\ cpu'[d] = cpu[d] /\ aCPU'[d] = aCPU[d] /\ aKernel'[d] = aKernel[d]
    BY DEF SoloDe
  <2>2. QED
    BY <2>1, PrimerTurnoIgual DEF Primeros
<1>2. QED
  BY <1>1 DEF Primeros

LEMMA PrimerosIniciales == Init => Primeros
<1> SUFFICES ASSUME Init, NEW c \in CPUs
             PROVE  PrimerTurno(c)
  BY DEF Primeros
<1>1. /\ hilo[c].paso = "buscando" /\ hilo[c].pcb = SinPCB
      /\ cpu[c].modo = "libre" /\ ~cpu[c].desfasada /\ cpu[c].marca = ""
      /\ aCPU[c] = << >> /\ aKernel[c] = << >>
  BY DEF Init
<1>2. QED
  BY <1>1 DEF PrimerTurno, SinEmpezar

(* What is left of the requests, or of what ends in a closing message.     *)
LEMMA LoQueQueda ==
  ASSUME NEW s \in Seq(Mensajes), NEW t, Sobran(s, t)
  PROVE  /\ t \in Seq(Mensajes)
         /\ \A p : DePid(s, p) => DePid(t, p)
         /\ \A T : Hay(t, T) => Hay(s, T)
         /\ SoloPedidos(s) => SoloPedidos(t)
         /\ TerminaEnCierre(s) => TerminaEnCierre(t)
<1>1. PICK n \in Nat :
        /\ Len(t) = Len(s) - n
        /\ \A i \in DOMAIN t : i + n \in DOMAIN s /\ t[i] = s[i + n]
  BY LosQueSobran
<1>2. t \in Seq(Mensajes)
  BY LosQueSobran
<1>3. \A T : Hay(t, T) => Hay(s, T)
  BY <1>1 DEF Hay
<1>4. /\ \A p : DePid(s, p) => DePid(t, p)
      /\ SoloPedidos(s) => SoloPedidos(t)
  BY <1>1 DEF DePid, SoloPedidos
<1>5. ASSUME TerminaEnCierre(s), t # << >>
      PROVE  t[Len(t)].tipo \notin Pedidos
  <2>1. Len(t) \in DOMAIN t /\ Len(t) + n = Len(s) /\ Len(s) \in Nat
    BY <1>1, <1>2, <1>5, EmptySeq, LenProperties
  <2>2. s # << >> /\ t[Len(t)] = s[Len(s)]
    BY <1>1, <2>1
  <2>3. QED
    BY <1>5, <2>2 DEF TerminaEnCierre
<1>6. QED
  BY <1>2, <1>3, <1>4, <1>5 DEF TerminaEnCierre

(* The step of a thread that is in step leaves it in step.                 *)
LEMMA LecturaQuieta ==
  ASSUME TypeOK, NEW c \in CPUs, manejadorCPU(c), ~RecibirCorrido(c)
  PROVE  /\ hilo'[c].lectura = hilo[c].lectura
         /\ \/ hilo[c].lectura = "enPaso"
            \/ hilo[c].paso \in {"restando", "sumando"}
            \/ MirarListo(c) \/ TomarListo(c) \/ EnviarSinTomar(c) \/ CPUPerdida(c)
<1>1. hilo \in [CPUs -> EstadosHilo] /\ "lectura" \in DOMAIN hilo[c]
  BY DEF TypeOK, EstadosHilo
<1>2. CASE MirarListo(c) \/ TomarListo(c) \/ EnviarSinTomar(c) \/ CPUPerdida(c)
  BY <1>1, <1>2 DEF MirarListo, TomarListo, EnviarSinTomar, CPUPerdida, Caer
<1>3. CASE RestarValor(c) \/ SumarValor(c)
  BY <1>1, <1>3 DEF RestarValor, SumarValor, CambiarValor
<1>4. CASE waitSemaforo(c)
  BY <1>1, <1>4 DEF waitSemaforo, Atendiendo
<1>5. CASE signalSemaforo(c)
  BY <1>1, <1>5 DEF signalSemaforo, Atendiendo, Caer
<1>6. CASE SemaforoInexistente(c, "WAIT_SEMAFORO") \/ SemaforoInexistente(c, "SIGNAL_SEMAFORO")
  BY <1>1, <1>6 DEF SemaforoInexistente, Atendiendo
<1>7. CASE Finaliza(c) \/ QuedaBloqueado(c) \/ FinalizaRafaga(c)
  BY <1>1, <1>7 DEF Finaliza, QuedaBloqueado, FinalizaRafaga, TerminaTurno, Atendiendo
<1>8. QED
  BY <1>2, <1>3, <1>4, <1>5, <1>6, <1>7 DEF manejadorCPU

(* A thread touches nothing of the others.                                 *)
LEMMA ElHiloSoloLoSuyo ==
  ASSUME TypeOK, NEW c \in CPUs, manejadorCPU(c)
  PROVE  SoloDe(c) /\ cpu' = cpu
<1> USE DEF canales
<1>1. ASSUME hilo' = hilo \/ SoloEnHilo(c), aCPU' = aCPU \/ SoloEnACPU(c),
             aKernel' = aKernel \/ SoloEnAKernel(c), cpu' = cpu
      PROVE  SoloDe(c) /\ cpu' = cpu
  BY <1>1 DEF SoloDe, SoloEnHilo, SoloEnACPU, SoloEnAKernel
<1>2. CASE Caer
  BY <1>1, <1>2 DEF Caer
<1>3. CASE MirarListo(c)
  BY <1>1, <1>3, CambioDePaso DEF MirarListo, Pasos
<1>4. CASE TomarListo(c) /\ colaListo # << >>
  <2>1. /\ Head(colaListo).pid \in Pids /\ SoloEnHilo(c) /\ cpu' = cpu
        /\ enviarPCB(c, Head(colaListo).pid)
    BY <1>4, EfectoTomarListo
  <2>2. SoloEnACPU(c) /\ aKernel' = aKernel
    BY <2>1, EfectoEnviarPCB
  <2>3. QED
    BY <1>1, <2>1, <2>2
<1>5. CASE EnviarSinTomar(c) /\ ~Caer
  <2>1. /\ hilo[c].pcb # SinPCB /\ enviarPCB(c, hilo[c].pcb.pid) /\ cpu' = cpu /\ hilo' = hilo
    BY <1>5 DEF EnviarSinTomar
  <2>2. hilo[c].pcb.pid \in Pids
    BY <2>1 DEF TypeOK, EstadosHilo, PCBs
  <2>3. SoloEnACPU(c) /\ aKernel' = aKernel
    BY <2>1, <2>2, EfectoEnviarPCB
  <2>4. QED
    BY <1>1, <2>1, <2>3
<1>6. CASE CambiaValor(c)
  BY <1>1, <1>6, EfectoDeCambiarValor
<1>7. ASSUME aKernel[c] # << >>, Recibido(c), hilo' = hilo \/ SoloEnHilo(c), cpu' = cpu,
             aCPU' = aCPU \/ \E n \in Avisos : Notificar(c, n)
      PROVE  SoloDe(c) /\ cpu' = cpu
  BY <1>1, <1>7, EfectoRecibido, EfectoNotificar
<1>8. CASE waitSemaforo(c)
  <2>1. /\ aKernel[c] # << >> /\ Recibido(c) /\ SoloEnHilo(c)
        /\ aCPU' = aCPU \/ \E n \in Avisos : Notificar(c, n)
    BY <1>8, EfectoDeWait DEF Avisos
  <2>2. cpu' = cpu
    BY <1>8 DEF waitSemaforo
  <2>3. QED
    BY <1>7, <2>1, <2>2
<1>9. CASE signalSemaforo(c) /\ ~Caer
  <2>1. /\ aKernel[c] # << >> /\ aCPU' = aCPU /\ cpu' = cpu /\ Recibido(c)
    BY <1>9 DEF signalSemaforo, Atendiendo
  <2>2. PICK s \in Semaforos : hilo' = [hilo EXCEPT ![c].paso = "sumando", ![c].semaforo = s]
    BY <1>9 DEF signalSemaforo
  <2>3. SoloEnHilo(c)
    BY <2>2, CambioDePasoYSemaforo DEF Pasos
  <2>4. QED
    BY <1>7, <2>1, <2>3
<1>10. ASSUME NEW tipo, SemaforoInexistente(c, tipo)
       PROVE  SoloDe(c) /\ cpu' = cpu
  BY <1>7, <1>10, EfectoDeInexistente
<1>11. CASE FinDeTurno(c)
  BY <1>7, <1>11, EfectoDeFinDeTurno
<1>12. CASE RecibirCorrido(c)
  BY <1>1, <1>12, EfectoDeCorrido
<1>13. QED
  BY <1>2, <1>3, <1>4, <1>5, <1>6, <1>8, <1>9, <1>10, <1>11, <1>12
     DEF manejadorCPU, TomarListo, CPUPerdida, CambiaValor, FinDeTurno

LEMMA PrimerosManejador ==
  ASSUME TipoInv, Primeros, NEW c \in CPUs, manejadorCPU(c)
  PROVE  Primeros'
<1>1. TypeOK /\ PrimerTurno(c) /\ SoloDe(c) /\ cpu' = cpu
  BY ElHiloSoloLoSuyo DEF TipoInv, Primeros
<1>2. CASE RecibirCorrido(c)
  <2>1. /\ hilo[c].paso = "atendiendo" /\ hilo[c].lectura # "enPaso"
        /\ hilo'[c].paso = "atendiendo" /\ hilo'[c].pcb = hilo[c].pcb
        /\ aKernel[c] \in Seq(Mensajes) /\ Sobran(aKernel[c], aKernel'[c]) /\ aCPU' = aCPU
    BY <1>1, <1>2, EfectoDeCorrido
  <2>2. EnElPrimero(c) /\ ~cpu[c].desfasada /\ cpu[c].marca # "PROCESO_BLOQUEADO"
    BY <1>1, <2>1 DEF PrimerTurno, SinEmpezar
  <2>3. /\ \A p : DePid(aKernel[c], p) => DePid(aKernel'[c], p)
        /\ \A T : Hay(aKernel'[c], T) => Hay(aKernel[c], T)
        /\ SoloPedidos(aKernel[c]) => SoloPedidos(aKernel'[c])
        /\ TerminaEnCierre(aKernel[c]) => TerminaEnCierre(aKernel'[c])
    BY <2>1, LoQueQueda
  <2>4. ~Enviada(c)
    <3>1. aKernel[c] # << >>
      BY <2>1 DEF Sobran
    <3>2. QED
      BY <3>1 DEF Enviada
  <2>5. EnMarcha(c) \/ Devuelta(c)
    BY <2>2, <2>4 DEF EnElPrimero
  <2>6. EnMarcha(c)' \/ Devuelta(c)'
    BY <1>1, <2>1, <2>3, <2>5 DEF EnMarcha, Devuelta
  <2>7. EnElPrimero(c)'
    BY <2>1, <2>2, <2>3, <2>6 DEF EnElPrimero
  <2>8. PrimerTurno(c)'
    BY <1>1, <2>2, <2>7 DEF PrimerTurno
  <2>9. QED
    BY <1>1, <2>8, PrimerosDeUno
<1>3. CASE ~RecibirCorrido(c)
  <2>1. hilo'[c].lectura = hilo[c].lectura
    BY <1>1, <1>3, LecturaQuieta
  <2>2. CASE hilo[c].lectura = "enPaso"
    BY <1>1, <2>1, <2>2, PrimerosDeUno DEF PrimerTurno
  <2>3. CASE hilo[c].lectura # "enPaso"
    <3>1. SinEmpezar(c) \/ EnElPrimero(c)
      BY <1>1, <2>3 DEF PrimerTurno
    <3>2. hilo[c].paso \notin {"restando", "sumando"}
      BY <3>1 DEF SinEmpezar, EnElPrimero
    <3>3. ASSUME UNCHANGED << hilo, aCPU, aKernel >>
          PROVE  Primeros'
      BY <1>1, <3>3, PrimerTurnoIgual, PrimerosDeUno
    <3>4. CASE CPUPerdida(c) \/ Caer
      BY <3>3, <3>4 DEF CPUPerdida, Caer, canales
    <3>5. CASE MirarListo(c)
      <4>1. /\ hilo[c].paso = "buscando" /\ SoloEnHilo(c) /\ hilo'[c].paso = "vioListo"
            /\ hilo'[c].pcb = hilo[c].pcb /\ aCPU' = aCPU /\ aKernel' = aKernel
        BY <1>1, <3>5, CambioDePaso DEF MirarListo, Pasos, canales
      <4>2. SinEmpezar(c)
        BY <3>1, <4>1 DEF EnElPrimero
      <4>3. SinEmpezar(c)'
        BY <1>1, <4>1, <4>2 DEF SinEmpezar
      <4>4. PrimerTurno(c)'
        BY <1>1, <2>3, <4>3 DEF PrimerTurno
      <4>5. QED
        BY <1>1, <4>4, PrimerosDeUno
    <3>6. CASE TomarListo(c) /\ colaListo # << >>
      <4>1. /\ Head(colaListo).pid \in Pids
            /\ hilo'[c].paso = "atendiendo" /\ hilo'[c].pcb = Head(colaListo)
            /\ enviarPCB(c, Head(colaListo).pid)
        BY <1>1, <3>6, EfectoTomarListo
      <4>2. /\ aKernel' = aKernel
            /\ aCPU'[c] = Append(aCPU[c], [tipo |-> "MENSAJE_PCB", pid |-> Head(colaListo).pid])
        BY <1>1, <4>1, EfectoEnviarPCB
      <4>3. SinEmpezar(c)
        BY <3>1, <3>6 DEF EnElPrimero, TomarListo
      <4>4. aCPU'[c] = << [tipo |-> "MENSAJE_PCB", pid |-> hilo'[c].pcb.pid] >>
        BY <4>1, <4>2, <4>3 DEF SinEmpezar
      <4>5. Enviada(c)'
        BY <1>1, <4>2, <4>3, <4>4 DEF SinEmpezar, Enviada
      <4>6. DePid(aKernel'[c], hilo'[c].pcb.pid) /\ ~Hay(aKernel'[c], {"PROCESO_BLOQUEADO"})
        BY <4>2, <4>3 DEF SinEmpezar, DePid, Hay
      <4>7. EnElPrimero(c)'
        BY <4>1, <4>5, <4>6 DEF EnElPrimero
      <4>8. PrimerTurno(c)'
        BY <1>1, <2>3, <4>7 DEF PrimerTurno
      <4>9. QED
        BY <1>1, <4>8, PrimerosDeUno
    <3>7. CASE TomarListo(c) /\ colaListo = << >>
      BY <3>4, <3>7 DEF TomarListo
    <3>8. CASE EnviarSinTomar(c)
      <4>1. SinEmpezar(c)
        BY <3>1, <3>8 DEF EnElPrimero, EnviarSinTomar
      <4>2. QED
        BY <3>4, <3>8, <4>1 DEF SinEmpezar, EnviarSinTomar
    <3>9. QED
      BY <1>1, <1>3, <2>3, <3>2, <3>4, <3>5, <3>6, <3>7, <3>8, LecturaQuieta
  <2>4. QED
    BY <2>2, <2>3
<1>4. QED
  BY <1>2, <1>3

(* What a CPU sends in its first turn is of its process.                   *)
LEMMA TrasEnviarPedido ==
  ASSUME TypeOK, NEW c \in CPUs, NEW e \in Mensajes, Enviar(c, <<e>>), e.tipo \in Pedidos,
         NEW p, e.pid = p, DePid(aKernel[c], p), ~Hay(aKernel[c], {"PROCESO_BLOQUEADO"}),
         SoloPedidos(aKernel[c])
  PROVE  /\ aCPU' = aCPU /\ SoloEnAKernel(c)
         /\ DePid(aKernel'[c], p) /\ ~Hay(aKernel'[c], {"PROCESO_BLOQUEADO"})
         /\ SoloPedidos(aKernel'[c])
<1>1. <<e>> \in Seq(Mensajes)
  BY UnMensaje
<1>2. /\ SoloEnAKernel(c) /\ aKernel[c] \in Seq(Mensajes) /\ aCPU' = aCPU
      /\ aKernel'[c] = aKernel[c] \o <<e>>
  BY <1>1, EfectoEnviar
<1>3. aKernel'[c] = Append(aKernel[c], e)
  BY <1>2, AppendIsConcat
<1>4. /\ DOMAIN Append(aKernel[c], e) = DOMAIN aKernel[c] \cup {Len(aKernel[c]) + 1}
      /\ Append(aKernel[c], e)[Len(aKernel[c]) + 1] = e
      /\ \A i \in DOMAIN aKernel[c] : Append(aKernel[c], e)[i] = aKernel[c][i]
  BY <1>2, PonerAlFinal
<1>5. DePid(aKernel'[c], p) /\ SoloPedidos(aKernel'[c])
  BY <1>3, <1>4 DEF DePid, SoloPedidos
<1>6. ~Hay(aKernel'[c], {"PROCESO_BLOQUEADO"})
  BY <1>5 DEF SoloPedidos, Pedidos, Hay
<1>7. QED
  BY <1>2, <1>5, <1>6

LEMMA TrasEnviarCierres ==
  ASSUME TypeOK, NEW c \in CPUs, NEW m \in Seq(Mensajes), Enviar(c, m), m # << >>,
         NEW p, DePid(aKernel[c], p), ~Hay(aKernel[c], {"PROCESO_BLOQUEADO"}),
         \A i \in DOMAIN m :
           m[i] = Cierre(m[i].tipo, p) /\ m[i].tipo # "PROCESO_BLOQUEADO"
  PROVE  /\ aCPU' = aCPU /\ SoloEnAKernel(c)
         /\ DePid(aKernel'[c], p) /\ ~Hay(aKernel'[c], {"PROCESO_BLOQUEADO"})
         /\ TerminaEnCierre(aKernel'[c])
<1> DEFINE s == aKernel[c]
           t == s \o m
<1>1. /\ SoloEnAKernel(c) /\ s \in Seq(Mensajes) /\ aCPU' = aCPU /\ aKernel'[c] = t
  BY EfectoEnviar
<1> HIDE DEF s
<1>2. /\ Len(s) \in Nat /\ DOMAIN s = 1 .. Len(s)
      /\ Len(m) \in Nat /\ DOMAIN m = 1 .. Len(m)
      /\ t \in Seq(Mensajes) /\ DOMAIN t = 1 .. Len(s) + Len(m) /\ Len(t) = Len(s) + Len(m)
      /\ \A i \in 1 .. Len(s) + Len(m) : t[i] = IF i <= Len(s) THEN s[i] ELSE m[i - Len(s)]
  BY <1>1, ConcatProperties, LenProperties
<1>3. Len(m) >= 1
  BY <1>2, EmptySeq
<1> HIDE DEF t
<1>4. ASSUME NEW i \in DOMAIN t
      PROVE  (\E j \in DOMAIN s : t[i] = s[j]) \/ (\E j \in DOMAIN m : t[i] = m[j])
  <2>1. CASE i <= Len(s)
    BY <1>2, <1>4, <2>1
  <2>2. CASE ~(i <= Len(s))
    <3>1. i - Len(s) \in DOMAIN m /\ t[i] = m[i - Len(s)]
      BY <1>2, <1>4, <2>2
    <3>2. QED
      BY <3>1
  <2>3. QED
    BY <2>1, <2>2
<1>5. ASSUME NEW j \in DOMAIN m
      PROVE  m[j].pid = p /\ m[j].tipo # "PROCESO_BLOQUEADO" /\ m[j].tipo \notin Pedidos
  <2>1. m[j] \in Mensajes
    BY <1>5, ElementOfSeq, LenProperties
  <2>2. m[j] = Cierre(m[j].tipo, p)
    BY <1>5
  <2>3. Cierre(m[j].tipo, p).pid = p
    BY DEF Cierre
  <2>4. m[j].tipo \notin Pedidos
    BY <2>1, <2>2, PedidoNoEsCierre DEF Pedidos
  <2>5. QED
    BY <1>5, <2>2, <2>3, <2>4
<1>6. DePid(t, p)
  BY <1>4, <1>5 DEF DePid, s
<1>7. ~Hay(t, {"PROCESO_BLOQUEADO"})
  BY <1>4, <1>5 DEF Hay, s
<1>8. TerminaEnCierre(t)
  <2>1. Len(t) \in 1 .. Len(s) + Len(m) /\ ~(Len(t) <= Len(s)) /\ Len(t) - Len(s) = Len(m)
    BY <1>2, <1>3
  <2>2. t[Len(t)] = m[Len(m)] /\ Len(m) \in DOMAIN m
    BY <1>2, <1>3, <2>1
  <2>3. QED
    BY <1>5, <2>2 DEF TerminaEnCierre
<1>9. QED
  BY <1>1, <1>6, <1>7, <1>8

LEMMA PrimerosCicloCPU ==
  ASSUME TipoInv, Primeros, NEW c \in CPUs, CicloCPU(c)
  PROVE  Primeros'
<1> USE DEF canales
<1>1. TypeOK /\ PrimerTurno(c)
  BY DEF TipoInv, Primeros
<1>2. ASSUME UNCHANGED hilo, SoloEnCPU(c), aCPU' = aCPU \/ SoloEnACPU(c),
             aKernel' = aKernel \/ SoloEnAKernel(c), PrimerTurno(c)'
      PROVE  Primeros'
  BY <1>2, PrimerosDeUno DEF SoloDe, SoloEnCPU, SoloEnACPU, SoloEnAKernel
<1>3. ASSUME UNCHANGED hilo, hilo[c].lectura # "enPaso", DePid(aKernel'[c], hilo[c].pcb.pid),
             ~Hay(aKernel'[c], {"PROCESO_BLOQUEADO"}), hilo[c].paso = "atendiendo",
             ~cpu'[c].desfasada, cpu'[c].marca # "PROCESO_BLOQUEADO",
             EnMarcha(c)' \/ Devuelta(c)'
      PROVE  PrimerTurno(c)'
  <2>1. EnElPrimero(c)'
    BY <1>3 DEF EnElPrimero
  <2>2. QED
    BY <1>3, <2>1 DEF PrimerTurno
<1>4. hilo[c].lectura = "enPaso" /\ UNCHANGED hilo => PrimerTurno(c)'
  BY DEF PrimerTurno
<1>5. ASSUME hilo[c].lectura # "enPaso"
      PROVE  /\ ~cpu[c].desfasada /\ cpu[c].marca # "PROCESO_BLOQUEADO"
             /\ SinEmpezar(c) \/ EnElPrimero(c)
  BY <1>1, <1>5 DEF PrimerTurno
<1>6. CASE recibirPCBDeKernel(c)
  <2>1. /\ cpu[c].modo = "libre" /\ aCPU[c] # << >> /\ SoloEnCPU(c)
        /\ cpu'[c].desfasada = cpu[c].desfasada /\ UNCHANGED << SoloCPU, aKernel >>
        /\ \/ /\ ~cpu[c].desfasada
              /\ cpu'[c].modo = "ejecutando" /\ cpu'[c].pid = Head(aCPU[c]).pid
              /\ cpu'[c].marca = "" /\ SoloEnACPU(c) /\ aCPU'[c] = Tail(aCPU[c])
           \/ cpu[c].desfasada /\ aCPU' = aCPU
    BY <1>1, <1>6, EfectoRecibirPCB
  <2>2. hilo' = hilo
    BY <2>1 DEF SoloCPU
  <2>3. ASSUME hilo[c].lectura # "enPaso"
        PROVE  PrimerTurno(c)'
    <3>1. Enviada(c) /\ EnElPrimero(c)
      BY <1>5, <2>1, <2>3 DEF SinEmpezar, EnElPrimero, EnMarcha, Devuelta
    <3> DEFINE e == [tipo |-> "MENSAJE_PCB", pid |-> hilo[c].pcb.pid]
    <3>2. aCPU[c] = <<e>> /\ e.pid = hilo[c].pcb.pid /\ aKernel[c] = << >>
      BY <3>1 DEF Enviada
    <3> HIDE DEF e
    <3>3. Head(<<e>>) = e /\ Tail(<<e>>) = << >>
      OBVIOUS
    <3>4. ~cpu[c].desfasada
      BY <1>5, <2>3
    <3>5. cpu'[c].pid = hilo[c].pcb.pid /\ aCPU'[c] = << >>
      BY <2>1, <3>2, <3>3, <3>4
    <3>6. SoloPedidos(<< >>)
      BY DEF SoloPedidos
    <3>7. EnMarcha(c)'
      BY <2>1, <2>2, <3>2, <3>4, <3>5, <3>6 DEF EnMarcha
    <3>8. QED
      BY <1>3, <1>5, <2>1, <2>2, <2>3, <3>1, <3>2, <3>7 DEF EnElPrimero
  <2>4. QED
    BY <1>2, <1>4, <2>1, <2>2, <2>3
<1>7. ASSUME hilo[c].lectura # "enPaso", cpu[c].modo \in {"ejecutando", "esperando"}
      PROVE  /\ EnElPrimero(c) /\ EnMarcha(c) /\ ~cpu[c].desfasada
             /\ DePid(aKernel[c], hilo[c].pcb.pid) /\ ~Hay(aKernel[c], {"PROCESO_BLOQUEADO"})
             /\ hilo[c].paso = "atendiendo" /\ SoloPedidos(aKernel[c])
             /\ cpu[c].pid = hilo[c].pcb.pid /\ aCPU[c] = << >>
  BY <1>5, <1>7 DEF SinEmpezar, EnElPrimero, Enviada, EnMarcha, Devuelta
<1>8. CASE Linea(c)
  <2>1. /\ cpu[c].modo = "ejecutando" /\ SoloEnCPU(c) /\ UNCHANGED SoloCPU
        /\ cpu'[c].modo = "ejecutando" /\ cpu'[c].pid = cpu[c].pid
        /\ cpu'[c].desfasada = cpu[c].desfasada
        /\ cpu'[c].marca # "PROCESO_BLOQUEADO"
        /\ \/ UNCHANGED canales
           \/ \E s \in Nombres :
                LET e == [tipo |-> "SIGNAL_SEMAFORO", pid |-> cpu[c].pid, semaforo |-> s] IN
                e \in Mensajes /\ Enviar(c, <<e>>)
    BY <1>1, <1>8, EfectoDeLinea DEF SigueEjecutando
  <2>2. hilo' = hilo
    BY <2>1 DEF SoloCPU
  <2>3. CASE UNCHANGED canales
    <3>1. ASSUME hilo[c].lectura # "enPaso"
          PROVE  PrimerTurno(c)'
      <4>1. EnMarcha(c)'
        BY <1>7, <2>1, <2>2, <2>3, <3>1 DEF EnMarcha
      <4>2. QED
        BY <1>3, <1>7, <2>1, <2>2, <2>3, <3>1, <4>1
    <3>2. QED
      BY <1>2, <1>4, <2>1, <2>2, <2>3, <3>1
  <2>4. ASSUME NEW e \in Mensajes, e.tipo = "SIGNAL_SEMAFORO", e.pid = cpu[c].pid,
               Enviar(c, <<e>>)
        PROVE  Primeros'
    <3>1. SoloEnAKernel(c) /\ aCPU' = aCPU
      BY <1>1, <2>4, UnMensaje, EfectoEnviar
    <3>2. ASSUME hilo[c].lectura # "enPaso"
          PROVE  PrimerTurno(c)'
      <4>1. /\ DePid(aKernel'[c], hilo[c].pcb.pid) /\ ~Hay(aKernel'[c], {"PROCESO_BLOQUEADO"})
            /\ SoloPedidos(aKernel'[c])
        BY <1>1, <1>7, <2>1, <2>4, <3>2, TrasEnviarPedido DEF Pedidos
      <4>2. EnMarcha(c)'
        BY <1>7, <2>1, <2>2, <3>1, <3>2, <4>1 DEF EnMarcha
      <4>3. QED
        BY <1>3, <1>7, <2>1, <2>2, <3>2, <4>1, <4>2
    <3>3. QED
      BY <1>2, <1>4, <2>1, <2>2, <3>1, <3>2
  <2>5. QED
    BY <2>1, <2>3, <2>4
<1>9. ASSUME NEW s \in Nombres, pedirWait(c, s)
      PROVE  Primeros'
  <2> DEFINE e == [tipo |-> "WAIT_SEMAFORO", pid |-> cpu[c].pid, semaforo |-> s]
  <2>1. /\ cpu[c].modo = "ejecutando" /\ SoloEnCPU(c) /\ UNCHANGED SoloCPU
        /\ cpu'[c].modo = "esperando" /\ cpu'[c].pid = cpu[c].pid /\ cpu'[c].marca = ""
        /\ cpu'[c].desfasada = cpu[c].desfasada
        /\ e \in Mensajes /\ Enviar(c, <<e>>)
    BY <1>1, <1>9, EfectoPedirWait DEF SigueEjecutando
  <2>2. hilo' = hilo /\ e.tipo \in Pedidos /\ e.pid = cpu[c].pid
    BY <2>1 DEF SoloCPU, Pedidos
  <2> HIDE DEF e
  <2>3. SoloEnAKernel(c) /\ aCPU' = aCPU
    BY <1>1, <2>1, UnMensaje, EfectoEnviar
  <2>4. ASSUME hilo[c].lectura # "enPaso"
        PROVE  PrimerTurno(c)'
    <3>1. /\ DePid(aKernel'[c], hilo[c].pcb.pid) /\ ~Hay(aKernel'[c], {"PROCESO_BLOQUEADO"})
          /\ SoloPedidos(aKernel'[c])
      BY <1>1, <1>7, <2>1, <2>2, <2>4, TrasEnviarPedido
    <3>2. EnMarcha(c)'
      BY <1>7, <2>1, <2>2, <2>3, <2>4, <3>1 DEF EnMarcha
    <3>3. QED
      BY <1>3, <1>7, <2>1, <2>2, <2>4, <3>1, <3>2
  <2>5. QED
    BY <1>2, <1>4, <2>1, <2>2, <2>3, <2>4
<1>10. CASE RespuestaWait(c)
  <2>1. /\ cpu[c].modo = "esperando" /\ SoloEnCPU(c) /\ UNCHANGED << SoloCPU, aKernel >>
        /\ aCPU[c] # << >> /\ SoloEnACPU(c)
    BY <1>1, <1>10, EfectoRespuestaWait
  <2>2. hilo' = hilo /\ aKernel' = aKernel
    BY <2>1 DEF SoloCPU
  <2>3. hilo[c].lectura = "enPaso"
    BY <1>7, <2>1
  <2>4. QED
    BY <1>2, <1>4, <2>1, <2>2, <2>3
<1>11. CASE TerminarTurno(c)
  <2>1. /\ cpu[c].modo = "ejecutando" /\ SoloEnCPU(c) /\ UNCHANGED SoloCPU
        /\ cpu'[c].modo \in {"libre", "muerta"} /\ cpu'[c].desfasada = cpu[c].desfasada
        /\ cpu'[c].marca = cpu[c].marca
    BY <1>1, <1>11, EfectoTerminarTurno
  <2>2. PICK m \in Seq(Mensajes) :
          /\ Enviar(c, m) /\ m # << >>
          /\ \A i \in DOMAIN m :
               /\ m[i] = Cierre(m[i].tipo, cpu[c].pid)
               /\ m[i].tipo \in {cpu[c].marca, "PROCESO_FINALIZO_RAFAGA"}
    BY <1>1, <1>11, EfectoTerminarTurno
  <2>3. hilo' = hilo
    BY <2>1 DEF SoloCPU
  <2>4. SoloEnAKernel(c) /\ aCPU' = aCPU
    BY <1>1, <2>2, EfectoEnviar
  <2>5. ASSUME hilo[c].lectura # "enPaso"
        PROVE  PrimerTurno(c)'
    <3>1. cpu[c].marca # "PROCESO_BLOQUEADO"
      BY <1>5, <2>5
    <3>2. \A i \in DOMAIN m : m[i] = Cierre(m[i].tipo, hilo[c].pcb.pid) /\ m[i].tipo # "PROCESO_BLOQUEADO"
      BY <1>7, <2>1, <2>2, <2>5, <3>1
    <3>3. DePid(aKernel[c], hilo[c].pcb.pid) /\ ~Hay(aKernel[c], {"PROCESO_BLOQUEADO"})
      BY <1>7, <2>1, <2>5
    <3>4. /\ DePid(aKernel'[c], hilo[c].pcb.pid) /\ ~Hay(aKernel'[c], {"PROCESO_BLOQUEADO"})
          /\ TerminaEnCierre(aKernel'[c])
      BY <1>1, <2>2, <3>2, <3>3, TrasEnviarCierres
    <3>5. Devuelta(c)'
      BY <1>7, <2>1, <2>4, <2>5, <3>4 DEF Devuelta
    <3>6. QED
      BY <1>3, <1>7, <2>1, <2>3, <2>5, <3>1, <3>4, <3>5
  <2>6. QED
    BY <1>2, <1>4, <2>1, <2>3, <2>4, <2>5
<1>12. QED
  BY <1>6, <1>8, <1>9, <1>10, <1>11 DEF CicloCPU, Linea

LEMMA PrimerosSiguiente ==
  ASSUME TipoInv, Primeros, [Next]_vars
  PROVE  Primeros'
<1>1. ASSUME UNCHANGED << hilo, aCPU, aKernel >>,
             \A d \in CPUs : /\ cpu'[d].modo = cpu[d].modo /\ cpu'[d].pid = cpu[d].pid
                             /\ cpu'[d].desfasada = cpu[d].desfasada
                             /\ cpu'[d].marca = cpu[d].marca
      PROVE  Primeros'
  BY <1>1, PrimerTurnoIgual DEF Primeros
<1>2. CASE Operadores
  <2>1. ASSUME NEW c \in CPUs, SIGUSR1(c)
        PROVE  Primeros'
    <3>1. UNCHANGED << hilo, aCPU, aKernel >>
      BY <2>1 DEF SIGUSR1, SoloCPU, canales
    <3>2. QED
      BY <1>1, <2>1, <3>1, EfectoSIGUSR1 DEF TipoInv
  <2>2. CASE \/ iniciarPCB \/ \E p \in Pids : finalizarPrograma(p)
             \/ detenerPlanificacion \/ reanudarPlanificacion \/ modificarGradoMultiprogramacion
    <3>1. UNCHANGED << hilo, aCPU, aKernel, cpu >>
      BY <2>2 DEF iniciarPCB, finalizarPrograma, detenerPlanificacion, reanudarPlanificacion,
                  modificarGradoMultiprogramacion, canales
    <3>2. QED
      BY <1>1, <3>1
  <2>3. QED
    BY <1>2, <2>1, <2>2 DEF Operadores
<1>3. CASE planificarSistema
  <2>1. UNCHANGED << hilo, aCPU, aKernel, cpu >>
    BY <1>3 DEF planificarSistema, MirarNuevo, GradoCompleto, TomarNuevo, Admitir, Rechazar,
                Caer, canales
  <2>2. QED
    BY <1>1, <2>1
<1>4. CASE UNCHANGED vars
  BY <1>1, <1>4 DEF vars, canales
<1>5. QED
  BY <1>2, <1>3, <1>4, PrimerosManejador, PrimerosCicloCPU DEF Next

-----------------------------------------------------------------------------
(* Nobody is lost.  What is in a queue or in a socket stays there until    *)
(* somebody takes it out.                                                  *)
En(s, x) == \E i \in DOMAIN s : s[i] = x

LEMMA SiguenTrasSacar ==
  ASSUME NEW S, NEW s \in Seq(S), s # << >>, NEW x, En(s, x)
  PROVE  x = Head(s) \/ En(Tail(s), x)
<1>1. PICK k \in DOMAIN s : s[k] = x
  BY DEF En
<1>2. CASE k = 1
  BY <1>1, <1>2, SacarElPrimero
<1>3. CASE k # 1
  <2>1. k - 1 \in DOMAIN Tail(s) /\ Tail(s)[k - 1] = s[k]
    BY <1>1, <1>3, SacarElPrimero
  <2>2. QED
    BY <1>1, <2>1 DEF En
<1>4. QED
  BY <1>2, <1>3

LEMMA SiguenTrasPoner ==
  ASSUME NEW S, NEW s \in Seq(S), NEW e \in S
  PROVE  En(Append(s, e), e) /\ \A x : En(s, x) => En(Append(s, e), x)
<1>1. /\ DOMAIN Append(s, e) = DOMAIN s \cup {Len(s) + 1}
      /\ Append(s, e)[Len(s) + 1] = e
      /\ \A i \in DOMAIN s : Append(s, e)[i] = s[i]
  BY PonerAlFinal
<1>2. QED
  BY <1>1 DEF En

LEMMA SiguenTrasUnir ==
  ASSUME NEW S, NEW s \in Seq(S), NEW m \in Seq(S), NEW x, En(s, x) \/ En(m, x)
  PROVE  En(s \o m, x)
<1>1. /\ s \o m \in Seq(S) /\ Len(s \o m) = Len(s) + Len(m)
      /\ \A i \in 1 .. Len(s) + Len(m) :
           (s \o m)[i] = IF i <= Len(s) THEN s[i] ELSE m[i - Len(s)]
  BY ConcatProperties
<1>2. /\ DOMAIN s = 1 .. Len(s) /\ DOMAIN m = 1 .. Len(m) /\ Len(s) \in Nat /\ Len(m) \in Nat
      /\ DOMAIN (s \o m) = 1 .. Len(s \o m)
  BY <1>1, LenProperties
<1>3. CASE En(s, x)
  <2>1. PICK k \in 1 .. Len(s) : s[k] = x
    BY <1>2, <1>3 DEF En
  <2>2. k \in DOMAIN (s \o m) /\ (s \o m)[k] = x
    BY <1>1, <1>2, <2>1
  <2>3. QED
    BY <2>2 DEF En
<1>4. CASE En(m, x)
  <2>1. PICK k \in 1 .. Len(m) : m[k] = x
    BY <1>2, <1>4 DEF En
  <2>2. Len(s) + k \in DOMAIN (s \o m) /\ (s \o m)[Len(s) + k] = x
    BY <1>1, <1>2, <2>1
  <2>3. QED
    BY <2>2 DEF En
<1>5. QED
  BY <1>3, <1>4

LEMMA SiguenTrasQuitar ==
  ASSUME NEW S, NEW s \in Seq(S), NEW I \in SUBSET DOMAIN s, NEW t, Quita(s, t, I),
         NEW x, En(s, x), \A i \in I : s[i] # x
  PROVE  En(t, x)
<1>1. Len(s) \in Nat /\ DOMAIN s = 1 .. Len(s)
  BY LenProperties
<1>2. CASE t = s
  BY <1>2
<1>3. ASSUME NEW i \in I, t = RemoveAt(s, i)
      PROVE  En(t, x)
  <2>1. /\ t \in Seq(S) /\ Len(t) = Len(s) - 1
        /\ \A n \in 1 .. Len(s) - 1 : t[n] = s[IF n < i THEN n ELSE n + 1]
    BY <1>1, <1>3, SacarUna
  <2>2. DOMAIN t = 1 .. Len(s) - 1
    BY <2>1, LenProperties
  <2>3. PICK k \in 1 .. Len(s) : s[k] = x
    BY <1>1 DEF En
  <2>4. k # i /\ i \in 1 .. Len(s)
    BY <1>1, <1>3, <2>3
  <2>5. CASE k < i
    BY <1>1, <2>1, <2>2, <2>3, <2>4, <2>5 DEF En
  <2>6. CASE k > i
    <3>1. k - 1 \in DOMAIN t /\ t[k - 1] = s[k]
      BY <1>1, <2>1, <2>2, <2>4, <2>6
    <3>2. QED
      BY <2>3, <3>1 DEF En
  <2>7. QED
    BY <2>4, <2>5, <2>6
<1>4. QED
  BY <1>2, <1>3 DEF Quita

LEMMA NadaNuevoTrasQuitar ==
  ASSUME NEW S, NEW s \in Seq(S), NEW I \in SUBSET DOMAIN s, NEW t, Quita(s, t, I),
         NEW x, En(t, x)
  PROVE  En(s, x)
<1>1. Len(s) \in Nat /\ DOMAIN s = 1 .. Len(s)
  BY LenProperties
<1>2. CASE t = s
  BY <1>2
<1>3. ASSUME NEW i \in I, t = RemoveAt(s, i)
      PROVE  En(s, x)
  <2>1. /\ t \in Seq(S) /\ Len(t) = Len(s) - 1 /\ i \in 1 .. Len(s)
        /\ \A n \in 1 .. Len(s) - 1 : t[n] = s[IF n < i THEN n ELSE n + 1]
    BY <1>1, <1>3, SacarUna
  <2>2. DOMAIN t = 1 .. Len(s) - 1
    BY <2>1, LenProperties
  <2>3. PICK n \in 1 .. Len(s) - 1 : t[n] = x
    BY <2>2 DEF En
  <2>4. PICK k \in 1 .. Len(s) : s[k] = x
    <3>1. CASE n < i
      BY <1>1, <2>1, <2>3, <3>1
    <3>2. CASE n >= i
      <4>1. n + 1 \in 1 .. Len(s) /\ t[n] = s[n + 1]
        BY <1>1, <2>1, <2>3, <3>2
      <4>2. QED
        BY <2>3, <4>1
    <3>3. QED
      BY <2>1, <2>3, <3>1, <3>2
  <2>5. QED
    BY <1>1, <2>4 DEF En
<1>4. QED
  BY <1>2, <1>3 DEF Quita

(* Where a process may be.                                                 *)
Cerrado(canal, p) == \E i \in DOMAIN canal : canal[i] = Cierre(canal[i].tipo, p)

EnColas(p) ==
  \/ Contains(colaNuevo, p) \/ planificador.pid = p
  \/ EstaEn(colaListo, p) \/ EstaEn(colaBloqueado, p)

EnCPU(c, p) ==
  \/ cpu[c].modo \in {"ejecutando", "esperando"} /\ cpu[c].pid = p
  \/ EstaEn(aCPU[c], p)
  \/ Cerrado(aKernel[c], p)

Lugar(p) == EnColas(p) \/ \E c \in CPUs : EnCPU(c, p)

Sincronizadas == \A c \in CPUs : ~cpu[c].desfasada

(* The turn of a process whose closing message the thread has lost.        *)
Extraviado(c, p) ==
  /\ hilo[c].paso = "atendiendo" /\ hilo[c].pcb.pid = p
  /\ \/ hilo[c].lectura = "perdida"
     \/ cpu[c].modo \in {"libre", "muerta"} /\ aCPU[c] = << >> /\ aKernel[c] = << >>

Extraviada(p) == \E c \in CPUs : Extraviado(c, p)

Guardados == Sincronizadas => \A p \in Activos : Lugar(p) \/ Extraviada(p)

GuardadosInv == TipoInv /\ Primeros /\ Guardados

LEMMA EnUnaCola ==
  /\ \A s, p : EstaEn(s, p) <=> \E x : En(s, x) /\ x.pid = p
  /\ \A s, p : Cerrado(s, p) <=> \E x : En(s, x) /\ x = Cierre(x.tipo, p)
  /\ \A s \in Seq(Pids), p \in Pids : Contains(s, p) <=> En(s, p)
<1>1. ASSUME NEW s, NEW p
      PROVE  EstaEn(s, p) <=> \E x : En(s, x) /\ x.pid = p
  BY DEF EstaEn, En
<1>2. ASSUME NEW s, NEW p
      PROVE  Cerrado(s, p) <=> \E x : En(s, x) /\ x = Cierre(x.tipo, p)
  BY DEF Cerrado, En
<1>3. ASSUME NEW s \in Seq(Pids), NEW p \in Pids
      PROVE  Contains(s, p) <=> En(s, p)
  BY LenProperties DEF En, Contains
<1>4. QED
  BY <1>1, <1>2, <1>3

(* The places of a process do not change when only others are moved.       *)
LEMMA MismasCPUs ==
  ASSUME NEW p, UNCHANGED << cpu, canales >>
  PROVE  \A c \in CPUs : EnCPU(c, p) => EnCPU(c, p)'
BY DEF EnCPU, canales

LEMMA MismasColas ==
  ASSUME NEW p, UNCHANGED << colaNuevo, planificador, colaListo, colaBloqueado >>
  PROVE  EnColas(p) => EnColas(p)'
BY DEF EnColas

LEMMA MismosActivos ==
  ASSUME NEW p \in Activos', UNCHANGED << pidActual, estado >>,
         colaFinalizado \subseteq colaFinalizado', rechazados \subseteq rechazados'
  PROVE  p \in Activos
BY DEF Activos, Creados

LEMMA TrasFinalizar ==
  ASSUME TypeOK, NEW q \in Pids, finalizarProceso(q), UNCHANGED planificador,
         NEW p \in Pids, p # q, EnColas(p)
  PROVE  EnColas(p)'
<1>1. /\ Quita(colaNuevo, colaNuevo', {i \in DOMAIN colaNuevo : colaNuevo[i] = q})
      /\ Quita(colaListo, colaListo', LugaresDe(colaListo, q))
      /\ Quita(colaBloqueado, colaBloqueado',
               {i \in LugaresDe(colaBloqueado, q) : colaBloqueado[i].semaforo = CRUDA})
  BY EfectoDeFinalizar
<1>2. /\ colaNuevo \in Seq(Pids) /\ colaListo \in Seq(PCBs) /\ colaBloqueado \in Seq(Bloqueos)
  BY DEF TypeOK, Bloqueos
<1>3. CASE Contains(colaNuevo, p)
  <2>1. En(colaNuevo, p)
    BY <1>2, <1>3, EnUnaCola
  <2>2. En(colaNuevo', p)
    BY <1>1, <1>2, <2>1, SiguenTrasQuitar
  <2>3. colaNuevo' \in Seq(Pids)
    BY <1>1, <1>2, SacarQuita
  <2>4. Contains(colaNuevo', p)
    BY <2>2, <2>3, EnUnaCola
  <2>5. QED
    BY <2>4 DEF EnColas
<1>4. CASE EstaEn(colaListo, p)
  <2>1. PICK x : En(colaListo, x) /\ x.pid = p
    BY <1>4, EnUnaCola
  <2>2. En(colaListo', x)
    BY <1>1, <1>2, <2>1, SiguenTrasQuitar DEF LugaresDe
  <2>3. QED
    BY <2>1, <2>2, EnUnaCola DEF EnColas
<1>5. CASE EstaEn(colaBloqueado, p)
  <2>1. PICK x : En(colaBloqueado, x) /\ x.pid = p
    BY <1>5, EnUnaCola
  <2>2. En(colaBloqueado', x)
    BY <1>1, <1>2, <2>1, SiguenTrasQuitar DEF LugaresDe
  <2>3. QED
    BY <2>1, <2>2, EnUnaCola DEF EnColas
<1>6. QED
  BY <1>3, <1>4, <1>5 DEF EnColas

LEMMA LosPids == Pids \subseteq Nat /\ 0 \notin Pids
<1>1. Cardinality(Pids) \in Nat
  BY PidsAssumption, FS_CardinalityType
<1>2. QED
  BY <1>1, PidsAssumption

LEMMA GuardaOperadores ==
  ASSUME GuardadosInv, Operadores, Sincronizadas', NEW p \in Activos', ~Extraviada(p)
  PROVE  Lugar(p)'
<1> USE DEF colas, procesos, config
<1>1. TypeOK /\ p \in Pids
  BY DEF GuardadosInv, TipoInv, Activos, Creados
<1>2. ASSUME Sincronizadas, p \in Activos
      PROVE  Lugar(p)
  BY <1>2 DEF GuardadosInv, Guardados
<1>3. CASE iniciarPCB
  <2>1. /\ pidActual \in Pids /\ colaNuevo \in Seq(Pids) /\ Sincronizadas
        /\ colaNuevo' = Append(colaNuevo, pidActual) /\ pidActual' = pidActual + 1
        /\ estado' = [estado EXCEPT ![pidActual] = "NUEVO"]
        /\ UNCHANGED << planificador, colaListo, colaBloqueado, cpu, canales, rechazados,
                        colaFinalizado >>
    BY <1>1, <1>3 DEF iniciarPCB, TypeOK, Sincronizadas
  <2>2. colaNuevo' \in Seq(Pids)
    BY <2>1, PonerAlFinal
  <2>3. CASE p = pidActual
    <3>1. Contains(colaNuevo', p)
      BY <2>1, <2>2, <2>3, SiguenTrasPoner, EnUnaCola
    <3>2. QED
      BY <3>1 DEF Lugar, EnColas
  <2>4. CASE p # pidActual
    <3>1. p < pidActual
      BY <1>1, <2>1, <2>4, LosPids DEF Activos, Creados
    <3>2. p \in Activos
      BY <1>1, <2>1, <2>4, <3>1 DEF Activos, Creados, TypeOK
    <3>3. Lugar(p)
      BY <1>2, <2>1, <3>2
    <3>4. Contains(colaNuevo, p) => Contains(colaNuevo', p)
      BY <1>1, <2>1, <2>2, SiguenTrasPoner, EnUnaCola
    <3>5. EnColas(p) => EnColas(p)'
      BY <2>1, <3>4 DEF EnColas
    <3>6. QED
      BY <2>1, <3>3, <3>5, MismasCPUs DEF Lugar
  <2>5. QED
    BY <2>3, <2>4
<1>4. ASSUME NEW q \in Pids, finalizarPrograma(q)
      PROVE  Lugar(p)'
  <2>1. /\ finalizarProceso(q) /\ Sincronizadas
        /\ UNCHANGED << pidActual, rechazados, colaFinalizado, planificador, cpu, canales >>
    BY <1>4 DEF finalizarPrograma, Sincronizadas
  <2>2. p \in Activos /\ (p = q => (EnColas(p) => EnColas(p)'))
    <3>1. CASE /\ estado' = estado /\ colaNuevo' = colaNuevo /\ colaListo' = colaListo
               /\ colaBloqueado' = colaBloqueado
      <4>1. p \in Activos
        BY <2>1, <3>1, MismosActivos
      <4>2. QED
        BY <2>1, <3>1, <4>1, MismasColas
    <3>2. CASE estado' = [estado EXCEPT ![q] = "FINALIZADO"]
      BY <1>1, <2>1, <3>2 DEF Activos, Creados, TypeOK
    <3>3. QED
      BY <1>1, <1>4, <2>1, <3>1, <3>2, EfectoDeFinalizar
  <2>3. EnColas(p) => EnColas(p)'
    BY <1>1, <1>4, <2>1, <2>2, TrasFinalizar
  <2>4. QED
    BY <1>2, <2>1, <2>2, <2>3, MismasCPUs DEF Lugar
<1>5. CASE detenerPlanificacion \/ reanudarPlanificacion \/ modificarGradoMultiprogramacion
  <2>1. /\ Sincronizadas
        /\ UNCHANGED << colaNuevo, planificador, colaListo, colaBloqueado, pidActual, estado,
                        colaFinalizado, rechazados, cpu, canales >>
    BY <1>5 DEF detenerPlanificacion, reanudarPlanificacion, modificarGradoMultiprogramacion,
                Sincronizadas
  <2>2. QED
    BY <1>2, <2>1, MismosActivos, MismasColas, MismasCPUs DEF Lugar
<1>6. ASSUME NEW c \in CPUs, SIGUSR1(c)
      PROVE  Lugar(p)'
  <2>1. /\ UNCHANGED << colaNuevo, planificador, colaListo, colaBloqueado, pidActual, estado,
                        colaFinalizado, rechazados, canales >>
        /\ \A d \in CPUs : /\ cpu'[d].modo = cpu[d].modo /\ cpu'[d].pid = cpu[d].pid
                           /\ cpu'[d].desfasada = cpu[d].desfasada
    BY <1>1, <1>6, EfectoSIGUSR1 DEF SIGUSR1, SoloCPU
  <2>2. Sincronizadas /\ \A d \in CPUs : EnCPU(d, p) => EnCPU(d, p)'
    BY <2>1 DEF Sincronizadas, EnCPU, canales
  <2>3. QED
    BY <1>2, <2>1, <2>2, MismosActivos, MismasColas DEF Lugar
<1>7. QED
  BY <1>3, <1>4, <1>5, <1>6 DEF Operadores

LEMMA GuardaPlanificador ==
  ASSUME GuardadosInv, planificarSistema, Sincronizadas', NEW p \in Activos', ~Extraviada(p)
  PROVE  Lugar(p)'
<1> USE DEF colas, procesos, config
<1>1. TypeOK /\ p \in Pids /\ p # 0
  BY LosPids DEF GuardadosInv, TipoInv, Activos, Creados
<1>2. UNCHANGED << pidActual, estado, colaFinalizado, colaBloqueado, cpu, canales >>
  BY DEF planificarSistema, MirarNuevo, GradoCompleto, TomarNuevo, Admitir, Rechazar, Caer
<1>3. Sincronizadas /\ \A c \in CPUs : EnCPU(c, p) => EnCPU(c, p)'
  BY <1>2, MismasCPUs DEF Sincronizadas
<1>4. rechazados \subseteq rechazados'
  BY DEF planificarSistema, MirarNuevo, GradoCompleto, TomarNuevo, Admitir, Rechazar, Caer
<1>5. Lugar(p)
  <2>1. p \in Activos
    BY <1>2, <1>4, MismosActivos
  <2>2. QED
    BY <1>3, <2>1 DEF GuardadosInv, Guardados
<1>6. /\ colaNuevo \in Seq(Pids) /\ colaListo \in Seq(PCBs)
      /\ planificador.paso # "pidiendo" => planificador.pid = 0
  BY <1>1 DEF TypeOK
<1>7. EnColas(p) => EnColas(p)'
  <2>1. CASE TomarNuevo /\ colaNuevo # << >>
    <3>1. /\ planificador' = [paso |-> "pidiendo", pid |-> Head(colaNuevo)]
          /\ colaNuevo' = Tail(colaNuevo) /\ colaListo' = colaListo
          /\ planificador.paso = "vioNuevo"
      BY <2>1 DEF TomarNuevo
    <3>2. Tail(colaNuevo) \in Seq(Pids)
      BY <1>6, <2>1, SacarElPrimero
    <3>3. Contains(colaNuevo, p) => p = Head(colaNuevo) \/ Contains(colaNuevo', p)
      BY <1>1, <1>6, <2>1, <3>1, <3>2, SiguenTrasSacar, EnUnaCola
    <3>4. QED
      BY <1>1, <1>2, <1>6, <3>1, <3>3 DEF EnColas
  <2>2. CASE Admitir
    <3>1. /\ colaListo' = Append(colaListo, Original(planificador.pid))
          /\ colaNuevo' = colaNuevo /\ planificador.pid \in Pids
      BY <1>1, <2>2 DEF Admitir, TypeOK
    <3>2. Original(planificador.pid) \in PCBs /\ Original(planificador.pid).pid = planificador.pid
      BY <3>1 DEF Original, PCBs
    <3>3. EstaEn(colaListo', planificador.pid)
      BY <1>6, <3>1, <3>2, SiguenTrasPoner, EnUnaCola
    <3>4. EstaEn(colaListo, p) => EstaEn(colaListo', p)
      BY <1>6, <3>1, <3>2, SiguenTrasPoner, EnUnaCola
    <3>5. QED
      BY <1>2, <3>1, <3>3, <3>4 DEF EnColas
  <2>3. CASE Rechazar
    <3>1. /\ rechazados' = rechazados \cup {planificador.pid}
          /\ colaNuevo' = colaNuevo /\ colaListo' = colaListo
      BY <2>3 DEF Rechazar
    <3>2. p # planificador.pid
      BY <3>1 DEF Activos
    <3>3. QED
      BY <1>2, <3>1, <3>2 DEF EnColas
  <2>4. CASE MirarNuevo \/ GradoCompleto \/ (TomarNuevo /\ colaNuevo = << >>)
    <3>1. /\ colaNuevo' = colaNuevo /\ colaListo' = colaListo
          /\ planificador' = planificador \/ planificador.paso # "pidiendo"
      BY <2>4 DEF MirarNuevo, GradoCompleto, TomarNuevo, Caer
    <3>2. QED
      BY <1>1, <1>2, <1>6, <3>1 DEF EnColas
  <2>5. QED
    BY <2>1, <2>2, <2>3, <2>4 DEF planificarSistema
<1>8. QED
  BY <1>3, <1>5, <1>7 DEF Lugar

(* A message taken out of a socket: only the process it hands back is no   *)
(* longer there.                                                           *)
LEMMA CPUsTrasRecibir ==
  ASSUME TypeOK, NEW c \in CPUs, aKernel[c] # << >>, Recibido(c), cpu' = cpu,
         aCPU' = aCPU \/ \E n \in Avisos : Notificar(c, n),
         NEW p, NEW d \in CPUs, EnCPU(d, p)
  PROVE  EnCPU(d, p)' \/ Head(aKernel[c]) = Cierre(Head(aKernel[c]).tipo, p)
<1>1. /\ SoloEnAKernel(c) /\ aKernel[c] \in Seq(Mensajes)
      /\ aKernel'[c] = Tail(aKernel[c])
  BY EfectoRecibido
<1>2. EstaEn(aCPU[d], p) => EstaEn(aCPU'[d], p)
  <2>1. CASE aCPU' = aCPU
    BY <2>1
  <2>2. ASSUME NEW n \in Avisos, Notificar(c, n)
        PROVE  EstaEn(aCPU[d], p) => EstaEn(aCPU'[d], p)
    <3>1. /\ SoloEnACPU(c) /\ [tipo |-> n, pid |-> 0] \in Envios /\ aCPU[c] \in Seq(Envios)
          /\ aCPU'[c] = Append(aCPU[c], [tipo |-> n, pid |-> 0])
      BY <2>2, EfectoNotificar
    <3>2. EstaEn(aCPU[c], p) => EstaEn(aCPU'[c], p)
      BY <3>1, SiguenTrasPoner, EnUnaCola
    <3>3. QED
      BY <3>1, <3>2 DEF SoloEnACPU
  <2>3. QED
    BY <2>1, <2>2
<1>3. Cerrado(aKernel[d], p) =>
        Cerrado(aKernel'[d], p) \/ Head(aKernel[c]) = Cierre(Head(aKernel[c]).tipo, p)
  <2>1. CASE d # c
    BY <1>1, <2>1 DEF SoloEnAKernel
  <2>2. ASSUME d = c, Cerrado(aKernel[c], p)
        PROVE  Cerrado(aKernel'[c], p) \/ Head(aKernel[c]) = Cierre(Head(aKernel[c]).tipo, p)
    <3>1. PICK x : En(aKernel[c], x) /\ x = Cierre(x.tipo, p)
      BY <2>2, EnUnaCola
    <3>2. x = Head(aKernel[c]) \/ En(Tail(aKernel[c]), x)
      BY <1>1, <3>1, SiguenTrasSacar
    <3>3. QED
      BY <1>1, <3>1, <3>2, EnUnaCola
  <2>3. QED
    BY <2>1, <2>2
<1>4. QED
  BY <1>2, <1>3 DEF EnCPU

(* A PCB sent to a CPU is in its socket.                                   *)
LEMMA CPUsTrasEnviarPCB ==
  ASSUME TypeOK, NEW c \in CPUs, NEW q \in Pids, enviarPCB(c, q), cpu' = cpu
  PROVE  EnCPU(c, q)' /\ \A p : \A d \in CPUs : EnCPU(d, p) => EnCPU(d, p)'
<1> DEFINE e == [tipo |-> "MENSAJE_PCB", pid |-> q]
<1>1. /\ SoloEnACPU(c) /\ aKernel' = aKernel /\ e \in Envios /\ aCPU[c] \in Seq(Envios)
      /\ aCPU'[c] = Append(aCPU[c], e) /\ e.pid = q
  BY EfectoEnviarPCB
<1> HIDE DEF e
<1>2. EstaEn(aCPU'[c], q) /\ \A p : EstaEn(aCPU[c], p) => EstaEn(aCPU'[c], p)
  BY <1>1, SiguenTrasPoner, EnUnaCola
<1>3. EnCPU(c, q)'
  BY <1>2 DEF EnCPU
<1>4. ASSUME NEW p, NEW d \in CPUs, EnCPU(d, p)
      PROVE  EnCPU(d, p)'
  BY <1>1, <1>2, <1>4 DEF EnCPU, SoloEnACPU
<1>5. QED
  BY <1>3, <1>4

LEMMA GuardaTomarListo ==
  ASSUME GuardadosInv, NEW c \in CPUs, MirarListo(c) \/ TomarListo(c) \/ EnviarSinTomar(c),
         Sincronizadas', NEW p \in Activos', ~Extraviada(p)
  PROVE  Lugar(p)'
<1> USE DEF colas, procesos, config
<1>1. TypeOK /\ p \in Pids
  BY DEF GuardadosInv, TipoInv, Activos, Creados
<1>2. UNCHANGED << pidActual, estado, colaFinalizado, rechazados, colaNuevo, planificador,
                   colaBloqueado, cpu >>
  BY DEF MirarListo, TomarListo, EnviarSinTomar, Caer
<1>3. Sincronizadas
  BY <1>2 DEF Sincronizadas
<1>4. p \in Activos
  BY <1>2, MismosActivos
<1>5. Lugar(p)
  BY <1>3, <1>4 DEF GuardadosInv, Guardados
<1>6. CASE UNCHANGED << colaListo, canales >>
  <2>1. EnColas(p) => EnColas(p)'
    BY <1>2, <1>6 DEF EnColas
  <2>2. QED
    BY <1>2, <1>5, <1>6, <2>1, MismasCPUs DEF Lugar
<1>7. ASSUME NEW q \in Pids, enviarPCB(c, q), colaListo' = colaListo
      PROVE  Lugar(p)'
  <2>1. EnColas(p) => EnColas(p)'
    BY <1>2, <1>7 DEF EnColas
  <2>2. \A d \in CPUs : EnCPU(d, p) => EnCPU(d, p)'
    BY <1>1, <1>2, <1>7, CPUsTrasEnviarPCB
  <2>3. QED
    BY <1>5, <2>1, <2>2 DEF Lugar
<1>8. CASE TomarListo(c) /\ colaListo # << >>
  <2>1. /\ Head(colaListo).pid \in Pids /\ colaListo' = Tail(colaListo)
        /\ enviarPCB(c, Head(colaListo).pid)
    BY <1>1, <1>8, EfectoTomarListo
  <2>2. PICK q \in Pids : q = Head(colaListo).pid
    BY <2>1
  <2>3. EnCPU(c, q)' /\ \A d \in CPUs : EnCPU(d, p) => EnCPU(d, p)'
    BY <1>1, <1>2, <2>1, <2>2, CPUsTrasEnviarPCB
  <2>4. EstaEn(colaListo, p) => p = q \/ EstaEn(colaListo', p)
    <3>1. colaListo \in Seq(PCBs)
      BY <1>1 DEF TypeOK
    <3>2. ASSUME NEW x, En(colaListo, x)
          PROVE  x = Head(colaListo) \/ En(colaListo', x)
      BY <1>8, <2>1, <3>1, <3>2, SiguenTrasSacar
    <3>3. QED
      BY <2>2, <3>2, EnUnaCola
  <2>5. EnColas(p) => EnColas(p)' \/ p = q
    BY <1>2, <2>4 DEF EnColas
  <2>6. QED
    BY <1>5, <2>3, <2>5 DEF Lugar
<1>9. CASE MirarListo(c) \/ (TomarListo(c) /\ colaListo = << >>)
  BY <1>6, <1>9 DEF MirarListo, TomarListo, Caer
<1>10. CASE EnviarSinTomar(c)
  <2>1. CASE Caer
    BY <1>6, <2>1 DEF Caer
  <2>2. CASE hilo[c].pcb # SinPCB /\ enviarPCB(c, hilo[c].pcb.pid) /\ colaListo' = colaListo
    <3>1. hilo[c].pcb.pid \in Pids
      BY <1>1, <2>2 DEF TypeOK, EstadosHilo, PCBs
    <3>2. QED
      BY <1>7, <2>2, <3>1
  <2>3. QED
    BY <1>10, <2>1, <2>2 DEF EnviarSinTomar
<1>11. QED
  BY <1>8, <1>9, <1>10

LEMMA GuardaManejador ==
  ASSUME GuardadosInv, NEW c \in CPUs, manejadorCPU(c), ~RecibirCorrido(c), kernel = "vivo",
         Sincronizadas', NEW p \in Activos', ~Extraviada(p)
  PROVE  Lugar(p)'
<1> USE DEF colas, procesos, config
<1>1. TypeOK /\ p \in Pids
  BY DEF GuardadosInv, TipoInv, Activos, Creados
<1>2. ASSUME Sincronizadas, p \in Activos
      PROVE  Lugar(p)
  BY <1>2 DEF GuardadosInv, Guardados
<1>3. /\ colaListo \in Seq(PCBs) /\ colaBloqueado \in Seq(Bloqueos)
      /\ aKernel[c] \in Seq(Mensajes)
  BY <1>1 DEF TypeOK, Bloqueos
<1>4. CASE MirarListo(c) \/ TomarListo(c) \/ EnviarSinTomar(c)
  BY <1>4, GuardaTomarListo
<1>5. CASE CPUPerdida(c) \/ CambiaValor(c)
  <2>1. UNCHANGED << colaNuevo, planificador, colaListo, colaBloqueado, pidActual, estado,
                     colaFinalizado, rechazados, cpu, canales >>
    BY <1>5 DEF CPUPerdida, CambiaValor, RestarValor, SumarValor, CambiarValor, Caer
  <2>2. Sincronizadas /\ p \in Activos
    BY <2>1, MismosActivos DEF Sincronizadas
  <2>3. QED
    BY <1>2, <2>1, <2>2, MismasColas, MismasCPUs DEF Lugar
<1>6. ASSUME NEW tipo \in {"WAIT_SEMAFORO", "SIGNAL_SEMAFORO"}, SemaforoInexistente(c, tipo)
      PROVE  Lugar(p)'
  <2>1. PICK q \in Pids : q = Head(aKernel[c]).pid
    BY <1>1, <1>6, EfectoDeInexistente
  <2>2. /\ aKernel[c] # << >> /\ Recibido(c) /\ Head(aKernel[c]) \in Mensajes
        /\ Head(aKernel[c]).tipo = tipo /\ finalizarProceso(q)
        /\ UNCHANGED << pidActual, rechazados, colaFinalizado, planificador, cpu, aCPU >>
    BY <1>1, <1>6, <2>1, EfectoDeInexistente
  <2>3. Sincronizadas
    BY <2>2 DEF Sincronizadas
  <2>4. p \in Activos /\ (p = q => (EnColas(p) => EnColas(p)'))
    <3>1. CASE /\ estado' = estado /\ colaNuevo' = colaNuevo /\ colaListo' = colaListo
               /\ colaBloqueado' = colaBloqueado
      <4>1. p \in Activos
        BY <2>2, <3>1, MismosActivos
      <4>2. QED
        BY <2>2, <3>1, <4>1, MismasColas
    <3>2. CASE estado' = [estado EXCEPT ![q] = "FINALIZADO"]
      BY <1>1, <2>2, <3>2 DEF Activos, Creados, TypeOK
    <3>3. QED
      BY <1>1, <2>2, <3>1, <3>2, EfectoDeFinalizar
  <2>5. EnColas(p) => EnColas(p)'
    BY <1>1, <2>2, <2>4, TrasFinalizar
  <2>6. Head(aKernel[c]) # Cierre(Head(aKernel[c]).tipo, p)
    BY <1>6, <2>2, PedidoNoEsCierre
  <2>7. \A d \in CPUs : EnCPU(d, p) => EnCPU(d, p)'
    BY <1>1, <2>2, <2>6, CPUsTrasRecibir
  <2>8. QED
    BY <1>2, <2>3, <2>4, <2>5, <2>7 DEF Lugar
<1>7. CASE waitSemaforo(c)
  <2> DEFINE m == Head(aKernel[c])
  <2>1. /\ m.pid \in Pids /\ m.semaforo \in Semaforos /\ m.tipo = "WAIT_SEMAFORO"
        /\ aKernel[c] # << >> /\ Recibido(c)
        /\ UNCHANGED << colaNuevo, colaListo, colaFinalizado, pidActual, rechazados,
                        planificador, cpu >>
    BY <1>1, <1>7, EfectoDeWait DEF waitSemaforo
  <2>2. \/ /\ UNCHANGED << colaBloqueado, estado >>
           /\ aCPU' = aCPU \/ \E n \in Avisos : Notificar(c, n)
        \/ /\ Notificar(c, "BLOQUEO_POR_SEMAFORO")
           /\ colaBloqueado' = Append(colaBloqueado, [pid |-> m.pid, semaforo |-> m.semaforo])
           /\ [pid |-> m.pid, semaforo |-> m.semaforo] \in Bloqueos
           /\ estado' \in {estado, [estado EXCEPT ![m.pid] = "BLOQUEADO"]}
    BY <1>1, <1>7, EfectoDeWait DEF Avisos
  <2>3. Sincronizadas /\ m \in Mensajes
    BY <1>3, <2>1, SacarElPrimero DEF Sincronizadas
  <2> HIDE DEF m
  <2>4. m # Cierre(m.tipo, p)
    BY <2>1, <2>3, PedidoNoEsCierre
  <2>5. \A d \in CPUs : EnCPU(d, p) => EnCPU(d, p)'
    BY <1>1, <2>1, <2>2, <2>4, CPUsTrasRecibir DEF m, Avisos
  <2>6. CASE UNCHANGED << colaBloqueado, estado >>
    <3>1. p \in Activos
      BY <2>1, <2>6, MismosActivos
    <3>2. QED
      BY <1>2, <2>1, <2>3, <2>5, <2>6, <3>1, MismasColas DEF Lugar
  <2>7. ASSUME NEW e \in Bloqueos, e.pid = m.pid, colaBloqueado' = Append(colaBloqueado, e),
               estado' \in {estado, [estado EXCEPT ![m.pid] = "BLOQUEADO"]}
        PROVE  Lugar(p)'
    <3>1. EstaEn(colaBloqueado', e.pid) /\ \A q : EstaEn(colaBloqueado, q) => EstaEn(colaBloqueado', q)
      BY <1>3, <2>7, SiguenTrasPoner, EnUnaCola
    <3>2. CASE p = m.pid
      BY <2>7, <3>1, <3>2 DEF Lugar, EnColas
    <3>3. CASE p # m.pid
      <4>1. p \in Activos
        BY <1>1, <2>1, <2>7, <3>3 DEF Activos, Creados, TypeOK
      <4>2. EnColas(p) => EnColas(p)'
        BY <2>1, <3>1 DEF EnColas
      <4>3. QED
        BY <1>2, <2>3, <2>5, <4>1, <4>2 DEF Lugar
    <3>4. QED
      BY <3>2, <3>3
  <2>8. QED
    BY <2>2, <2>6, <2>7
<1>8. CASE signalSemaforo(c)
  <2>1. CASE Caer
    <3>1. UNCHANGED << colaNuevo, planificador, colaListo, colaBloqueado, pidActual, estado,
                       colaFinalizado, rechazados, cpu, canales >>
      BY <2>1 DEF Caer
    <3>2. Sincronizadas /\ p \in Activos
      BY <3>1, MismosActivos DEF Sincronizadas
    <3>3. QED
      BY <1>2, <3>1, <3>2, MismasColas, MismasCPUs DEF Lugar
  <2>2. CASE kernel' = kernel
    <3> DEFINE m == Head(aKernel[c])
    <3>1. /\ m.semaforo \in Semaforos /\ aKernel[c] # << >> /\ Recibido(c)
          /\ UNCHANGED << colaNuevo, colaFinalizado, pidActual, rechazados, aCPU,
                          planificador, cpu >>
      BY <1>1, <1>8, <2>2, EfectoDeSignal
    <3>2. \/ \E i \in DOMAIN colaBloqueado :
               /\ colaBloqueado[i].pid \in Pids /\ Original(colaBloqueado[i].pid) \in PCBs
               /\ colaBloqueado' = RemoveAt(colaBloqueado, i)
               /\ colaListo' = Append(colaListo, Original(colaBloqueado[i].pid))
               /\ estado' = [estado EXCEPT ![colaBloqueado[i].pid] = "LISTO"]
          \/ UNCHANGED << estado, colaListo, colaBloqueado >>
      BY <1>1, <1>8, <2>2, EfectoDeSignal
    <3>3. Sincronizadas /\ m \in Mensajes
      BY <1>3, <3>1, SacarElPrimero DEF Sincronizadas
    <3> HIDE DEF m
    <3>4. m # Cierre(m.tipo, p)
      BY <3>1, <3>3, PedidoNoEsCierre
    <3>5. \A d \in CPUs : EnCPU(d, p) => EnCPU(d, p)'
      BY <1>1, <3>1, <3>4, CPUsTrasRecibir DEF m
    <3>6. CASE UNCHANGED << estado, colaListo, colaBloqueado >>
      <4>1. p \in Activos
        BY <3>1, <3>6, MismosActivos
      <4>2. QED
        BY <1>2, <3>1, <3>3, <3>5, <3>6, <4>1, MismasColas DEF Lugar
    <3>7. ASSUME NEW i \in DOMAIN colaBloqueado, NEW q \in Pids, q = colaBloqueado[i].pid,
                 Original(q) \in PCBs,
                 colaBloqueado' = RemoveAt(colaBloqueado, i),
                 colaListo' = Append(colaListo, Original(q)),
                 estado' = [estado EXCEPT ![q] = "LISTO"]
          PROVE  Lugar(p)'
      <4>1. EstaEn(colaListo', q) /\ (EstaEn(colaListo, p) => EstaEn(colaListo', p))
        <5>1. Original(q).pid = q
          BY DEF Original
        <5>2. QED
          BY <1>3, <3>7, <5>1, SiguenTrasPoner, EnUnaCola
      <4>2. CASE p = q
        BY <4>1, <4>2 DEF Lugar, EnColas
      <4>3. CASE p # q
        <5>1. EstaEn(colaBloqueado, p) => EstaEn(colaBloqueado', p)
          <6>1. Quita(colaBloqueado, colaBloqueado', {i})
            BY <3>7 DEF Quita
          <6>2. ASSUME NEW x, En(colaBloqueado, x), x.pid = p
                PROVE  En(colaBloqueado', x)
            BY <1>3, <3>7, <4>3, <6>1, <6>2, SiguenTrasQuitar
          <6>3. QED
            BY <6>2, EnUnaCola
        <5>2. EnColas(p) => EnColas(p)'
          BY <3>1, <4>1, <5>1 DEF EnColas
        <5>3. p \in Activos
          BY <1>1, <3>1, <3>7, <4>3 DEF Activos, Creados, TypeOK
        <5>4. QED
          BY <1>2, <3>3, <3>5, <5>2, <5>3 DEF Lugar
      <4>4. QED
        BY <4>2, <4>3
    <3>8. QED
      BY <3>2, <3>6, <3>7
  <2>3. QED
    BY <1>8, <2>1, <2>2 DEF signalSemaforo
<1>9. CASE FinDeTurno(c)
  <2> DEFINE m == Head(aKernel[c])
  <2>1. /\ aKernel[c] # << >> /\ Recibido(c) /\ m = Cierre(m.tipo, m.pid)
        /\ UNCHANGED << colaNuevo, pidActual, estado, rechazados, aCPU, planificador, cpu >>
    BY <1>1, <1>9, EfectoDeFinDeTurno
  <2>2. /\ colaFinalizado \subseteq colaFinalizado'
        /\ \/ /\ m.pid \in colaFinalizado'
              /\ UNCHANGED << colaListo, colaBloqueado >>
           \/ /\ [pid |-> m.pid, semaforo |-> CRUDA] \in Bloqueos
              /\ colaBloqueado' = Append(colaBloqueado, [pid |-> m.pid, semaforo |-> CRUDA])
              /\ colaListo' = colaListo
           \/ /\ EstaEn(colaBloqueado, m.pid)
              /\ UNCHANGED << colaListo, colaBloqueado >>
           \/ /\ Copia(m.pid) \in PCBs
              /\ colaListo' = Append(colaListo, Copia(m.pid))
              /\ colaBloqueado' = colaBloqueado
    BY <1>1, <1>9, EfectoDeFinDeTurno DEF EstaEn
  <2>3. Sincronizadas /\ p \in Activos
    BY <2>1, <2>2, MismosActivos DEF Sincronizadas
  <2>4. Lugar(p)
    BY <1>2, <2>3
  <2>5. \A d \in CPUs : EnCPU(d, p) => EnCPU(d, p)' \/ m = Cierre(m.tipo, p)
    BY <1>1, <2>1, CPUsTrasRecibir
  <2>6. m = Cierre(m.tipo, p) => m.pid = p
    <3>1. Cierre(m.tipo, p).pid = p
      BY DEF Cierre
    <3>2. QED
      BY <3>1
  <2> HIDE DEF m
  <2>7. (EnColas(p) => EnColas(p)') /\ (m.pid = p => EnColas(p)')
    <3>1. CASE m.pid \in colaFinalizado' /\ UNCHANGED << colaListo, colaBloqueado >>
      <4>1. p # m.pid
        BY <3>1 DEF Activos
      <4>2. QED
        BY <2>1, <3>1, <4>1, MismasColas
    <3>2. ASSUME NEW e \in Bloqueos, e.pid = m.pid, colaBloqueado' = Append(colaBloqueado, e),
                 colaListo' = colaListo
          PROVE  (EnColas(p) => EnColas(p)') /\ (m.pid = p => EnColas(p)')
      <4>1. EstaEn(colaBloqueado', e.pid) /\ (EstaEn(colaBloqueado, p) => EstaEn(colaBloqueado', p))
        BY <1>3, <3>2, SiguenTrasPoner, EnUnaCola
      <4>2. QED
        BY <2>1, <3>2, <4>1 DEF EnColas
    <3>3. CASE EstaEn(colaBloqueado, m.pid) /\ UNCHANGED << colaListo, colaBloqueado >>
      BY <2>1, <3>3 DEF EnColas
    <3>4. ASSUME NEW e \in PCBs, e.pid = m.pid, colaListo' = Append(colaListo, e),
                 colaBloqueado' = colaBloqueado
          PROVE  (EnColas(p) => EnColas(p)') /\ (m.pid = p => EnColas(p)')
      <4>1. EstaEn(colaListo', e.pid) /\ (EstaEn(colaListo, p) => EstaEn(colaListo', p))
        BY <1>3, <3>4, SiguenTrasPoner, EnUnaCola
      <4>2. QED
        BY <2>1, <3>4, <4>1 DEF EnColas
    <3>5. Copia(m.pid).pid = m.pid
      BY DEF Copia
    <3>6. QED
      BY <2>2, <3>1, <3>2, <3>3, <3>4, <3>5
  <2>8. QED
    BY <2>4, <2>5, <2>6, <2>7 DEF Lugar
<1>10. QED
  BY <1>4, <1>5, <1>6, <1>7, <1>8, <1>9 DEF manejadorCPU, FinDeTurno, CambiaValor

(* What a CPU sends stays in its socket, with what was there before.       *)
LEMMA CPUsTrasEnviar ==
  ASSUME TypeOK, NEW c \in CPUs, NEW m \in Seq(Mensajes), Enviar(c, m),
         \A d \in CPUs \ {c} : cpu'[d] = cpu[d], NEW p, NEW d \in CPUs, EnCPU(d, p),
         cpu[c].pid = p => Cerrado(m, p) \/ (cpu'[c].modo \in {"ejecutando", "esperando"} /\ cpu'[c].pid = p)
  PROVE  EnCPU(d, p)'
<1>1. /\ SoloEnAKernel(c) /\ aKernel[c] \in Seq(Mensajes) /\ aCPU' = aCPU
      /\ aKernel'[c] = aKernel[c] \o m
  BY EfectoEnviar
<1>2. CASE d # c
  BY <1>1, <1>2 DEF EnCPU, SoloEnAKernel
<1>3. CASE d = c
  <2>1. Cerrado(aKernel[c], p) \/ Cerrado(m, p) => Cerrado(aKernel'[c], p)
    <3>1. ASSUME NEW x, En(aKernel[c], x) \/ En(m, x)
          PROVE  En(aKernel'[c], x)
      BY <1>1, <3>1, SiguenTrasUnir
    <3>2. QED
      BY <3>1, EnUnaCola
  <2>2. QED
    BY <1>1, <1>3, <2>1 DEF EnCPU
<1>4. QED
  BY <1>2, <1>3

(* And what it takes out of its socket; an answer is of no process.        *)
LEMMA CPUsTrasTomar ==
  ASSUME NEW c \in CPUs, aCPU[c] # << >>, aCPU[c] \in Seq(Envios), SoloEnACPU(c),
         aCPU'[c] = Tail(aCPU[c]), aKernel' = aKernel, SoloEnCPU(c),
         NEW p, NEW d \in CPUs, EnCPU(d, p),
         \/ cpu'[c].modo \in {"ejecutando", "esperando"} /\ cpu'[c].pid = p
         \/ /\ Head(aCPU[c]).pid # p
            /\ ~(cpu[c].modo \in {"ejecutando", "esperando"} /\ cpu[c].pid = p)
  PROVE  EnCPU(d, p)'
<1>1. CASE d # c
  BY <1>1 DEF EnCPU, SoloEnACPU, SoloEnCPU
<1>2. CASE d = c
  <2>1. EstaEn(aCPU[c], p) => Head(aCPU[c]).pid = p \/ EstaEn(aCPU'[c], p)
    <3>1. ASSUME NEW x, En(aCPU[c], x)
          PROVE  x = Head(aCPU[c]) \/ En(aCPU'[c], x)
      BY <3>1, SiguenTrasSacar
    <3>2. QED
      BY <3>1, EnUnaCola
  <2>2. QED
    BY <1>2, <2>1 DEF EnCPU
<1>3. QED
  BY <1>1, <1>2

LEMMA GuardaCicloCPU ==
  ASSUME GuardadosInv, NEW c \in CPUs, CicloCPU(c), Sincronizadas', NEW p \in Activos',
         ~Extraviada(p)
  PROVE  Lugar(p)'
<1> USE DEF colas, procesos, config, canales
<1>1. TypeOK /\ TipoInv /\ p \in Pids /\ p # 0
  BY LosPids DEF GuardadosInv, TipoInv, Activos, Creados
<1>2. ASSUME UNCHANGED SoloCPU, SoloEnCPU(c), cpu[c].desfasada => cpu'[c].desfasada,
             ASSUME NEW d \in CPUs, EnCPU(d, p)
             PROVE  EnCPU(d, p)'
      PROVE  Lugar(p)'
  <2>1. Sincronizadas
    BY <1>2 DEF Sincronizadas, SoloEnCPU
  <2>2. UNCHANGED << colaNuevo, planificador, colaListo, colaBloqueado, pidActual, estado,
                     colaFinalizado, rechazados >>
    BY <1>2 DEF SoloCPU
  <2>3. p \in Activos
    BY <2>2, MismosActivos
  <2>4. Lugar(p)
    BY <2>1, <2>3 DEF GuardadosInv, Guardados
  <2>5. EnColas(p) => EnColas(p)'
    BY <2>2, MismasColas
  <2>6. QED
    BY <1>2, <2>4, <2>5 DEF Lugar
<1>3. CASE recibirPCBDeKernel(c)
  <2>1. /\ cpu[c].modo = "libre" /\ aCPU[c] # << >> /\ aCPU[c] \in Seq(Envios)
        /\ SoloEnCPU(c) /\ cpu'[c].desfasada = cpu[c].desfasada
        /\ UNCHANGED << SoloCPU, aKernel >>
        /\ \/ /\ cpu'[c].modo = "ejecutando" /\ cpu'[c].pid = Head(aCPU[c]).pid
              /\ SoloEnACPU(c) /\ aCPU'[c] = Tail(aCPU[c])
           \/ cpu[c].desfasada
    BY <1>1, <1>3, EfectoRecibirPCB
  <2>2. ~cpu[c].desfasada
    BY <2>1 DEF Sincronizadas
  <2>3. ASSUME NEW d \in CPUs, EnCPU(d, p)
        PROVE  EnCPU(d, p)'
    BY <2>1, <2>2, <2>3, CPUsTrasTomar
  <2>4. QED
    BY <1>2, <2>1, <2>3
<1>4. CASE Linea(c)
  <2>1. /\ SoloEnCPU(c) /\ UNCHANGED SoloCPU
        /\ cpu'[c].modo = "ejecutando" /\ cpu'[c].pid = cpu[c].pid
        /\ cpu'[c].desfasada = cpu[c].desfasada
        /\ \/ UNCHANGED canales
           \/ \E e \in Mensajes : Enviar(c, <<e>>)
    BY <1>1, <1>4, EfectoDeLinea
  <2>2. ASSUME NEW d \in CPUs, EnCPU(d, p)
        PROVE  EnCPU(d, p)'
    <3>1. CASE UNCHANGED canales
      BY <2>1, <2>2, <3>1 DEF EnCPU, SoloEnCPU
    <3>2. ASSUME NEW e \in Mensajes, Enviar(c, <<e>>)
          PROVE  EnCPU(d, p)'
      <4>1. <<e>> \in Seq(Mensajes)
        BY UnMensaje
      <4>2. QED
        BY <1>1, <2>1, <2>2, <3>2, <4>1, CPUsTrasEnviar DEF SoloEnCPU
    <3>3. QED
      BY <2>1, <3>1, <3>2
  <2>3. QED
    BY <1>2, <2>1, <2>2
<1>5. ASSUME NEW s \in Nombres, pedirWait(c, s)
      PROVE  Lugar(p)'
  <2>1. /\ SoloEnCPU(c) /\ UNCHANGED SoloCPU
        /\ cpu'[c].modo = "esperando" /\ cpu'[c].pid = cpu[c].pid
        /\ cpu'[c].desfasada = cpu[c].desfasada
        /\ \E e \in Mensajes : Enviar(c, <<e>>)
    BY <1>1, <1>5, EfectoPedirWait
  <2>2. PICK e \in Mensajes : Enviar(c, <<e>>)
    BY <2>1
  <2>3. <<e>> \in Seq(Mensajes)
    BY UnMensaje
  <2>4. ASSUME NEW d \in CPUs, EnCPU(d, p)
        PROVE  EnCPU(d, p)'
    BY <1>1, <2>1, <2>2, <2>3, <2>4, CPUsTrasEnviar DEF SoloEnCPU
  <2>5. QED
    BY <1>2, <2>1, <2>4
<1>6. CASE RespuestaWait(c)
  <2>1. /\ SoloEnCPU(c) /\ UNCHANGED << SoloCPU, aKernel >>
        /\ cpu'[c].modo = "ejecutando" /\ cpu'[c].pid = cpu[c].pid
        /\ aCPU[c] # << >> /\ aCPU[c] \in Seq(Envios) /\ SoloEnACPU(c)
        /\ \/ cpu'[c].desfasada
           \/ /\ ~cpu[c].desfasada /\ Head(aCPU[c]).pid = 0 /\ aCPU'[c] = Tail(aCPU[c])
    BY <1>1, <1>6, EfectoRespuestaWait
  <2>2. ~cpu'[c].desfasada
    BY DEF Sincronizadas
  <2>3. ASSUME NEW d \in CPUs, EnCPU(d, p)
        PROVE  EnCPU(d, p)'
    BY <1>1, <2>1, <2>2, <2>3, CPUsTrasTomar
  <2>4. QED
    BY <1>2, <2>1, <2>2, <2>3
<1>7. CASE TerminarTurno(c)
  <2>1. /\ SoloEnCPU(c) /\ UNCHANGED SoloCPU /\ cpu'[c].desfasada = cpu[c].desfasada
        /\ \E m \in Seq(Mensajes) :
             /\ Enviar(c, m) /\ m # << >>
             /\ \A i \in DOMAIN m : m[i] = Cierre(m[i].tipo, cpu[c].pid)
    BY <1>1, <1>7, EfectoTerminarTurno
  <2>2. PICK m \in Seq(Mensajes) :
          /\ Enviar(c, m) /\ m # << >>
          /\ \A i \in DOMAIN m : m[i] = Cierre(m[i].tipo, cpu[c].pid)
    BY <2>1
  <2>3. Cerrado(m, cpu[c].pid)
    <3>1. 1 \in DOMAIN m
      BY <2>2, SacarElPrimero
    <3>2. QED
      BY <2>2, <3>1 DEF Cerrado
  <2>4. ASSUME NEW d \in CPUs, EnCPU(d, p)
        PROVE  EnCPU(d, p)'
    <3>1. cpu[c].pid = p => Cerrado(m, p)
      BY <2>3
    <3>2. QED
      BY <1>1, <2>1, <2>2, <2>4, <3>1, CPUsTrasEnviar DEF SoloEnCPU
  <2>5. QED
    BY <1>2, <2>1, <2>4
<1>8. QED
  BY <1>3, <1>4, <1>5, <1>6, <1>7 DEF CicloCPU, Linea

(* The first messages of the first turn are lost: when the one that hands  *)
(* the process back is among them its turn does not end.                   *)
LEMMA GuardaCorrido ==
  ASSUME GuardadosInv, NEW c \in CPUs, RecibirCorrido(c), Sincronizadas', NEW p \in Activos',
         ~Extraviada(p)
  PROVE  Lugar(p)' \/ Extraviada(p)'
<1> USE DEF colas, procesos, config
<1> DEFINE s == aKernel[c]
           t == aKernel'[c]
<1>1. TypeOK /\ PrimerTurno(c)
  BY DEF GuardadosInv, TipoInv, Primeros
<1>2. /\ hilo[c].paso = "atendiendo" /\ hilo[c].lectura # "enPaso"
      /\ hilo'[c].paso = "atendiendo" /\ hilo'[c].pcb = hilo[c].pcb
      /\ SoloEnAKernel(c) /\ s \in Seq(Mensajes) /\ Sobran(s, t)
      /\ UNCHANGED << colas, procesos, aCPU, planificador, cpu >>
  BY <1>1, EfectoDeCorrido
<1>3. EnElPrimero(c)
  BY <1>1, <1>2 DEF PrimerTurno, SinEmpezar
<1>4. /\ t \in Seq(Mensajes)
      /\ \A q : DePid(s, q) => DePid(t, q)
      /\ TerminaEnCierre(s) => TerminaEnCierre(t)
  BY <1>2, LoQueQueda
<1>5. Sincronizadas /\ p \in Activos
  BY <1>2, MismosActivos DEF Sincronizadas
<1>6. Lugar(p)
  BY <1>5 DEF GuardadosInv, Guardados
<1>7. EnColas(p) => EnColas(p)'
  BY <1>2, MismasColas
<1>8. ASSUME Cerrado(s, p)
      PROVE  Cerrado(t, p) \/ Extraviada(p)'
  <2>1. PICK i \in DOMAIN s : s[i] = Cierre(s[i].tipo, p)
    BY <1>8 DEF Cerrado
  <2>2. s[i] \in Mensajes /\ Cierre(s[i].tipo, p).pid = p
    BY <1>2, ElementOfSeq, LenProperties DEF Cierre
  <2>3. s[i].tipo \notin Pedidos
    BY <2>1, <2>2, PedidoNoEsCierre DEF Pedidos
  <2>4. hilo[c].pcb.pid = p
    BY <1>3, <2>1, <2>2 DEF EnElPrimero, DePid
  <2>5. s # << >>
    BY <2>1
  <2>6. Devuelta(c)
    BY <1>3, <2>3, <2>5 DEF EnElPrimero, Enviada, EnMarcha, SoloPedidos
  <2>7. CASE t = << >>
    <3>1. Extraviado(c, p)'
      BY <1>2, <2>4, <2>6, <2>7 DEF Extraviado, Devuelta
    <3>2. QED
      BY <3>1 DEF Extraviada
  <2>8. CASE t # << >>
    <3>1. Len(t) \in DOMAIN t /\ t[Len(t)] \in Mensajes
      BY <1>4, <2>8, EmptySeq, ElementOfSeq, LenProperties
    <3>2. t[Len(t)].tipo \notin Pedidos /\ t[Len(t)].pid = p
      BY <1>3, <1>4, <2>4, <2>6, <2>8, <3>1 DEF Devuelta, TerminaEnCierre, EnElPrimero, DePid
    <3> DEFINE e == t[Len(t)]
    <3> HIDE DEF e
    <3>3. e = Cierre(e.tipo, p)
      BY <3>1, <3>2 DEF Mensajes, Pedidos, Cierre, e
    <3>4. QED
      BY <3>1, <3>3 DEF Cerrado, e
  <2>9. QED
    BY <2>7, <2>8
<1>9. ASSUME NEW d \in CPUs, EnCPU(d, p)
      PROVE  EnCPU(d, p)' \/ Extraviada(p)'
  <2>1. CASE d # c
    BY <1>2, <1>9, <2>1 DEF EnCPU, SoloEnAKernel
  <2>2. CASE d = c
    BY <1>2, <1>8, <1>9, <2>2 DEF EnCPU
  <2>3. QED
    BY <2>1, <2>2
<1>10. QED
  BY <1>6, <1>7, <1>9 DEF Lugar

(* A CPU touches nothing of the others, nor of the threads.                *)
LEMMA LaCPUSoloLoSuyo ==
  ASSUME TipoInv, NEW c \in CPUs, CicloCPU(c)
  PROVE  SoloDe(c) /\ hilo' = hilo
<1> USE DEF canales
<1>1. TypeOK
  BY DEF TipoInv
<1>2. ASSUME SoloEnCPU(c), aCPU' = aCPU \/ SoloEnACPU(c),
             aKernel' = aKernel \/ SoloEnAKernel(c), UNCHANGED SoloCPU
      PROVE  SoloDe(c) /\ hilo' = hilo
  BY <1>2 DEF SoloDe, SoloEnCPU, SoloEnACPU, SoloEnAKernel, SoloCPU
<1>3. CASE recibirPCBDeKernel(c)
  BY <1>2, <1>3, EfectoRecibirPCB
<1>4. CASE Linea(c)
  <2>1. SoloEnCPU(c) /\ UNCHANGED SoloCPU /\ (UNCHANGED canales \/ \E e \in Mensajes : Enviar(c, <<e>>))
    BY <1>1, <1>4, EfectoDeLinea
  <2>2. ASSUME NEW e \in Mensajes, Enviar(c, <<e>>)
        PROVE  SoloEnAKernel(c) /\ aCPU' = aCPU
    BY <1>1, <2>2, UnMensaje, EfectoEnviar
  <2>3. QED
    BY <1>2, <2>1, <2>2
<1>5. ASSUME NEW s \in Nombres, pedirWait(c, s)
      PROVE  SoloDe(c) /\ hilo' = hilo
  <2>1. SoloEnCPU(c) /\ UNCHANGED SoloCPU /\ \E e \in Mensajes : Enviar(c, <<e>>)
    BY <1>1, <1>5, EfectoPedirWait
  <2>2. ASSUME NEW e \in Mensajes, Enviar(c, <<e>>)
        PROVE  SoloEnAKernel(c) /\ aCPU' = aCPU
    BY <1>1, <2>2, UnMensaje, EfectoEnviar
  <2>3. QED
    BY <1>2, <2>1, <2>2
<1>6. CASE RespuestaWait(c)
  BY <1>1, <1>2, <1>6, EfectoRespuestaWait
<1>7. CASE TerminarTurno(c)
  <2>1. SoloEnCPU(c) /\ UNCHANGED SoloCPU /\ \E m \in Seq(Mensajes) : Enviar(c, m)
    BY <1>1, <1>7, EfectoTerminarTurno
  <2>2. SoloEnAKernel(c) /\ aCPU' = aCPU
    BY <1>1, <2>1, EfectoEnviar
  <2>3. QED
    BY <1>2, <2>1, <2>2
<1>8. QED
  BY <1>3, <1>4, <1>5, <1>6, <1>7 DEF CicloCPU, Linea

(* Nothing takes a thread out of a turn whose end it has lost.             *)
LEMMA SigueExtraviado ==
  ASSUME TipoInv, Next, NEW c \in CPUs, NEW p, Extraviado(c, p)
  PROVE  Extraviado(c, p)'
<1>1. TypeOK
  BY DEF TipoInv
<1>2. ASSUME hilo'[c] = hilo[c], cpu'[c].modo = cpu[c].modo, aCPU'[c] = aCPU[c],
             aKernel'[c] = aKernel[c]
      PROVE  Extraviado(c, p)'
  BY <1>2 DEF Extraviado
<1>3. CASE Operadores
  <2>1. ASSUME NEW d \in CPUs, SIGUSR1(d)
        PROVE  Extraviado(c, p)'
    <3>1. UNCHANGED << hilo, aCPU, aKernel >>
      BY <2>1 DEF SIGUSR1, SoloCPU, canales
    <3>2. QED
      BY <1>1, <1>2, <2>1, <3>1, EfectoSIGUSR1
  <2>2. CASE \/ iniciarPCB \/ \E q \in Pids : finalizarPrograma(q)
             \/ detenerPlanificacion \/ reanudarPlanificacion \/ modificarGradoMultiprogramacion
    <3>1. UNCHANGED << hilo, aCPU, aKernel, cpu >>
      BY <2>2 DEF iniciarPCB, finalizarPrograma, detenerPlanificacion, reanudarPlanificacion,
                  modificarGradoMultiprogramacion, canales
    <3>2. QED
      BY <1>2, <3>1
  <2>3. QED
    BY <1>3, <2>1, <2>2 DEF Operadores
<1>4. CASE planificarSistema
  <2>1. UNCHANGED << hilo, aCPU, aKernel, cpu >>
    BY <1>4 DEF planificarSistema, MirarNuevo, GradoCompleto, TomarNuevo, Admitir, Rechazar,
                Caer, canales
  <2>2. QED
    BY <1>2, <2>1
<1>5. ASSUME NEW d \in CPUs, manejadorCPU(d)
      PROVE  Extraviado(c, p)'
  <2>1. SoloDe(d) /\ cpu' = cpu
    BY <1>1, <1>5, ElHiloSoloLoSuyo
  <2>2. CASE d # c
    BY <1>2, <2>1, <2>2 DEF SoloDe
  <2>3. CASE d = c /\ RecibirCorrido(d)
    <3>1. DOMAIN aKernel[c] # {}
      BY <2>3 DEF RecibirCorrido
    <3>2. hilo[c].lectura = "perdida"
      BY <3>1 DEF Extraviado
    <3>3. hilo' = [hilo EXCEPT ![c].lectura = "perdida"]
      BY <2>3, <3>2 DEF RecibirCorrido
    <3>4. hilo'[c].paso = hilo[c].paso /\ hilo'[c].pcb = hilo[c].pcb /\ hilo'[c].lectura = "perdida"
      BY <1>1, <3>3 DEF TypeOK, EstadosHilo
    <3>5. QED
      BY <3>4 DEF Extraviado
  <2>4. CASE d = c /\ CPUPerdida(d)
    BY <1>2, <2>1, <2>4 DEF CPUPerdida, Caer, canales
  <2>5. CASE d = c /\ ~RecibirCorrido(d) /\ ~CPUPerdida(d)
    <3>1. hilo[c].lectura = "enPaso"
      BY <1>1, <1>5, <2>5, LecturaQuieta DEF Extraviado, MirarListo, TomarListo, EnviarSinTomar
    <3>2. aKernel[c] = << >> /\ hilo[c].paso = "atendiendo"
      BY <3>1 DEF Extraviado
    <3>3. QED
      BY <1>5, <2>5, <3>2
         DEF manejadorCPU, MirarListo, TomarListo, EnviarSinTomar, SemaforoInexistente,
             waitSemaforo, RestarValor, signalSemaforo, SumarValor, CambiarValor, Finaliza,
             QuedaBloqueado, FinalizaRafaga, Atendiendo
  <2>6. QED
    BY <2>2, <2>3, <2>4, <2>5
<1>6. ASSUME NEW d \in CPUs, CicloCPU(d)
      PROVE  Extraviado(c, p)'
  <2>1. SoloDe(d) /\ hilo' = hilo
    BY <1>6, LaCPUSoloLoSuyo
  <2>2. CASE d # c \/ hilo[c].lectura = "perdida"
    BY <1>2, <2>1, <2>2 DEF SoloDe, Extraviado
  <2>3. CASE d = c /\ hilo[c].lectura # "perdida"
    BY <1>6, <2>3
       DEF Extraviado, CicloCPU, recibirPCBDeKernel, LineaComun, LineaFinal, pedirSignal,
           pedirWait, RespuestaWait, TerminarTurno, SigueEjecutando
  <2>4. QED
    BY <2>2, <2>3
<1>7. QED
  BY <1>3, <1>4, <1>5, <1>6 DEF Next

LEMMA GuardaSiguiente == GuardadosInv /\ [Next]_vars => GuardadosInv'
<1> SUFFICES ASSUME GuardadosInv, [Next]_vars
             PROVE  GuardadosInv'
  OBVIOUS
<1>1. TipoInv' /\ Primeros'
  BY TipoSiguiente, PrimerosSiguiente DEF GuardadosInv
<1>2. CASE Next
  <2>1. ASSUME Sincronizadas', NEW p \in Activos'
        PROVE  (Lugar(p) \/ Extraviada(p))'
    <3>1. CASE Extraviada(p)
      BY <1>2, <3>1, SigueExtraviado DEF Extraviada, GuardadosInv
    <3>2. CASE ~Extraviada(p)
      BY <1>2, <2>1, <3>2, GuardaOperadores, GuardaPlanificador, GuardaManejador, GuardaCorrido,
         GuardaCicloCPU DEF Next
    <3>3. QED
      BY <3>1, <3>2
  <2>2. QED
    BY <1>1, <2>1 DEF GuardadosInv, Guardados
<1>3. CASE UNCHANGED vars
  <2>1. Sincronizadas' = Sincronizadas /\ Activos' = Activos
    BY <1>3 DEF vars, Sincronizadas, Activos, Creados, colas, procesos
  <2>2. \A p : Lugar(p) => Lugar(p)'
    BY <1>3, MismasColas, MismasCPUs DEF vars, Lugar, colas, procesos
  <2>3. \A p : Extraviada(p) => Extraviada(p)'
    BY <1>3 DEF vars, canales, Extraviada, Extraviado
  <2>4. QED
    BY <1>1, <2>1, <2>2, <2>3 DEF GuardadosInv, Guardados
<1>4. QED
  BY <1>2, <1>3

LEMMA GuardaInicial == Init => GuardadosInv
<1> SUFFICES ASSUME Init
             PROVE  GuardadosInv
  OBVIOUS
<1>1. pidActual = 1
  BY DEF Init
<1>2. ASSUME NEW p \in Pids
      PROVE  ~(p < pidActual)
  BY <1>1, <1>2, LosPids
<1>3. \A p : p \notin Activos
  BY <1>2 DEF Activos, Creados
<1>4. QED
  BY <1>3, TipoInicial, PrimerosIniciales DEF GuardadosInv, Guardados

(* Whatever the operators stop, finish or disconnect, a process that has   *)
(* not ended is in a queue, in a CPU or in a socket, as long as no CPU has *)
(* taken a PCB for the answer to a wait.                                   *)
THEOREM NadieSePierde == Spec => []SinPerdidos
<1>1. GuardadosInv => SinPerdidos
  <2> SUFFICES ASSUME GuardadosInv
               PROVE  SinPerdidos
    OBVIOUS
  <2>1. ASSUME Sincronizadas, NEW p \in Activos
        PROVE  EnColas(p) \/ EnTurno(p) \/ \E c \in CPUs : EnCPU(c, p)
    <3>1. Extraviada(p) => EnTurno(p)
      BY DEF Extraviada, Extraviado, EnTurno
    <3>2. QED
      BY <2>1, <3>1 DEF GuardadosInv, Guardados, Lugar
  <2>2. QED
    BY <2>1 DEF Sincronizadas, SinPerdidos, EnColas, EnCPU, Cerrado
<1>2. QED
  BY <1>1, GuardaInicial, GuardaSiguiente, PTL DEF Spec

-----------------------------------------------------------------------------
(* The degree of multiprogramming, when no program waits.                  *)
Turnos == {c \in CPUs : hilo[c].paso \in {"atendiendo", "restando", "sumando"}}

SinEsperas == \A c \in CPUs : ~Hay(aKernel[c], Espera)

SoloCrudas == \A i \in DOMAIN colaBloqueado : colaBloqueado[i].semaforo = CRUDA

(* The process being admitted counts too.                                  *)
CuentaListos ==
  Len(colaListo) + Cardinality(Turnos) + Uno(planificador.paso = "pidiendo")
    <= GRADO_MULTIPROG + Cardinality(CPUs)

ListosInv == TipoInv /\ SinEsperas /\ SoloCrudas /\ CuentaListos

LEMMA LosTurnos ==
  /\ IsFiniteSet(Turnos) /\ Cardinality(Turnos) \in Nat /\ Cardinality(CPUs) \in Nat
  /\ Cardinality(Turnos) <= Cardinality(CPUs)
<1>1. Turnos \subseteq CPUs
  BY DEF Turnos
<1>2. QED
  BY <1>1, CPUsAssumption, FS_Subset, FS_CardinalityType

LEMMA CuentaDeTurnos ==
  ASSUME NEW c \in CPUs, SoloEnHilo(c)
  PROVE  Cardinality(Turnos') = Cardinality(Turnos) + Uno(c \in Turnos') - Uno(c \in Turnos)
<1>1. /\ IsFiniteSet(Turnos) /\ Cardinality(Turnos) \in Nat
  BY LosTurnos
<1>2. Turnos' \ {c} = Turnos \ {c}
  BY DEF Turnos, SoloEnHilo
<1>3. CASE c \in Turnos /\ c \notin Turnos'
  <2>1. Turnos' = Turnos \ {c}
    BY <1>2, <1>3
  <2>2. QED
    BY <1>1, <1>3, <2>1, FS_RemoveElement DEF Uno
<1>4. CASE c \notin Turnos /\ c \in Turnos'
  <2>1. Turnos' = Turnos \cup {c}
    BY <1>2, <1>4
  <2>2. QED
    BY <1>1, <1>4, <2>1, FS_AddElement DEF Uno
<1>5. CASE (c \in Turnos) = (c \in Turnos')
  <2>1. Turnos' = Turnos
    BY <1>2, <1>5
  <2>2. QED
    BY <1>1, <1>5, <2>1 DEF Uno
<1>6. QED
  BY <1>3, <1>4, <1>5

(* What takes entries out of the queues keeps the three.                   *)
LEMMA ListosTrasFinalizar ==
  ASSUME ListosInv, NEW q \in Pids, finalizarProceso(q)
  PROVE  SoloCrudas' /\ Len(colaListo') <= Len(colaListo) /\ Len(colaListo') \in Nat
<1>1. TypeOK
  BY DEF ListosInv, TipoInv
<1>2. /\ Quita(colaListo, colaListo', LugaresDe(colaListo, q))
      /\ Quita(colaBloqueado, colaBloqueado',
               {i \in LugaresDe(colaBloqueado, q) : colaBloqueado[i].semaforo = CRUDA})
  BY <1>1, EfectoDeFinalizar
<1>3. colaListo \in Seq(PCBs) /\ colaBloqueado \in Seq(Bloqueos)
  BY <1>1 DEF TypeOK, Bloqueos
<1>4. colaListo' \in Seq(PCBs) /\ Len(colaListo') <= Len(colaListo)
  BY <1>2, <1>3, SacarQuita DEF LugaresDe
<1>5. ASSUME NEW x, En(colaBloqueado', x)
      PROVE  En(colaBloqueado, x)
  BY <1>2, <1>3, <1>5, NadaNuevoTrasQuitar DEF LugaresDe
<1>6. QED
  BY <1>4, <1>5, LenProperties DEF ListosInv, SoloCrudas, En

LEMMA ListosOperadores ==
  ASSUME ListosInv, Operadores
  PROVE  SinEsperas' /\ SoloCrudas' /\ CuentaListos'
<1> USE DEF colas, procesos, config, canales
<1>1. Len(colaListo) \in Nat /\ GRADO_MULTIPROG \in Nat
  BY LenProperties, ConfigAssumption DEF ListosInv, TipoInv, TypeOK
<1>2. /\ Cardinality(Turnos) \in Nat /\ Cardinality(CPUs) \in Nat
      /\ Uno(planificador.paso = "pidiendo") \in Nat
  BY LosTurnos DEF Uno
<1>3. UNCHANGED << aKernel, hilo, planificador >>
  BY DEF Operadores, iniciarPCB, finalizarPrograma, detenerPlanificacion,
         reanudarPlanificacion, modificarGradoMultiprogramacion, SIGUSR1, SoloCPU
<1>4. SoloCrudas' /\ Len(colaListo') <= Len(colaListo) /\ Len(colaListo') \in Nat
  <2>1. ASSUME NEW p \in Pids, finalizarPrograma(p)
        PROVE  SoloCrudas' /\ Len(colaListo') <= Len(colaListo) /\ Len(colaListo') \in Nat
    BY <2>1, ListosTrasFinalizar DEF finalizarPrograma
  <2>2. CASE UNCHANGED << colaListo, colaBloqueado >>
    BY <1>1, <2>2 DEF ListosInv, SoloCrudas
  <2>3. QED
    BY <2>1, <2>2 DEF Operadores, iniciarPCB, detenerPlanificacion,
         reanudarPlanificacion, modificarGradoMultiprogramacion, SIGUSR1, SoloCPU
<1>5. SinEsperas' /\ Turnos' = Turnos
  BY <1>3 DEF ListosInv, SinEsperas, Turnos
<1>6. CuentaListos'
  BY <1>1, <1>2, <1>3, <1>4, <1>5 DEF ListosInv, CuentaListos
<1>7. QED
  BY <1>4, <1>5, <1>6

LEMMA ListosPlanificador ==
  ASSUME ListosInv, planificarSistema
  PROVE  SinEsperas' /\ SoloCrudas' /\ CuentaListos'
<1> USE DEF colas, procesos, config, canales
<1>1. /\ colaListo \in Seq(PCBs) /\ Len(colaListo) \in Nat /\ GRADO_MULTIPROG \in Nat
      /\ gradoMultiprog \in 0 .. GRADO_MULTIPROG
  BY LenProperties, ConfigAssumption DEF ListosInv, TipoInv, TypeOK
<1>2. /\ Cardinality(Turnos) \in Nat /\ Cardinality(CPUs) \in Nat
      /\ Cardinality(Turnos) <= Cardinality(CPUs)
  BY LosTurnos
<1>3. UNCHANGED << aKernel, hilo, colaBloqueado >>
  BY DEF planificarSistema, MirarNuevo, GradoCompleto, TomarNuevo, Admitir, Rechazar, Caer
<1>4. SinEsperas' /\ SoloCrudas' /\ Turnos' = Turnos
  BY <1>3 DEF ListosInv, SinEsperas, SoloCrudas, Turnos
<1>5. CuentaListos'
  <2>1. CASE TomarNuevo /\ colaNuevo # << >>
    <3>1. /\ Len(colaListo) < gradoMultiprog /\ colaListo' = colaListo
          /\ planificador' = [paso |-> "pidiendo", pid |-> Head(colaNuevo)]
      BY <2>1 DEF TomarNuevo, HayGrado
    <3>2. QED
      BY <1>1, <1>2, <1>4, <3>1 DEF CuentaListos, Uno
  <2>2. CASE Admitir
    <3>1. /\ planificador.paso = "pidiendo" /\ planificador.pid \in Pids
          /\ planificador' = [paso |-> "mirando", pid |-> 0]
          /\ colaListo' = Append(colaListo, Original(planificador.pid))
      BY <2>2 DEF Admitir, ListosInv, TipoInv, TypeOK
    <3>2. Original(planificador.pid) \in PCBs
      BY <3>1 DEF Original, PCBs
    <3>3. Len(colaListo') = Len(colaListo) + 1
      BY <1>1, <3>1, <3>2, PonerAlFinal
    <3>4. QED
      BY <1>1, <1>2, <1>4, <3>1, <3>3 DEF ListosInv, CuentaListos, Uno
  <2>3. CASE Rechazar \/ MirarNuevo \/ GradoCompleto
    <3>1. planificador'.paso # "pidiendo" /\ colaListo' = colaListo
      BY <2>3 DEF Rechazar, MirarNuevo, GradoCompleto
    <3>2. QED
      BY <1>1, <1>2, <1>4, <3>1 DEF ListosInv, CuentaListos, Uno
  <2>4. CASE TomarNuevo /\ colaNuevo = << >>
    <3>1. planificador' = planificador /\ colaListo' = colaListo
      BY <2>4 DEF TomarNuevo, Caer
    <3>2. QED
      BY <1>1, <1>2, <1>4, <3>1 DEF ListosInv, CuentaListos, Uno
  <2>5. QED
    BY <2>1, <2>2, <2>3, <2>4 DEF planificarSistema
<1>6. QED
  BY <1>4, <1>5

LEMMA SinEsperasTrasRecibir ==
  ASSUME TypeOK, SinEsperas, NEW c \in CPUs, aKernel[c] # << >>, Recibido(c)
  PROVE  SinEsperas' /\ Head(aKernel[c]).tipo # "WAIT_SEMAFORO"
<1>1. /\ SoloEnAKernel(c) /\ aKernel[c] \in Seq(Mensajes)
      /\ aKernel'[c] = Tail(aKernel[c])
  BY EfectoRecibido
<1>2. ~Hay(aKernel[c], Espera)
  BY DEF SinEsperas
<1>3. ~Hay(Tail(aKernel[c]), Espera)
  BY <1>1, <1>2, SacarMensaje
<1>4. Head(aKernel[c]).tipo # "WAIT_SEMAFORO"
  BY <1>1, <1>2, SacarElPrimero DEF Hay, Espera
<1>5. QED
  BY <1>1, <1>3, <1>4 DEF SinEsperas, SoloEnAKernel

LEMMA SinEsperasTrasEnviar ==
  ASSUME TypeOK, SinEsperas, NEW c \in CPUs, NEW m \in Seq(Mensajes), ~Hay(m, Espera),
         Enviar(c, m)
  PROVE  SinEsperas'
<1>1. /\ SoloEnAKernel(c) /\ aKernel[c] \in Seq(Mensajes)
      /\ aKernel'[c] = aKernel[c] \o m
  BY EfectoEnviar
<1>2. ~Hay(aKernel[c], Espera)
  BY DEF SinEsperas
<1>3. ~Hay(aKernel[c] \o m, Espera)
  BY <1>1, <1>2, PonerVarios
<1>4. QED
  BY <1>1, <1>3 DEF SinEsperas, SoloEnAKernel

LEMMA ListosManejador ==
  ASSUME ListosInv, NEW c \in CPUs, manejadorCPU(c), kernel = "vivo"
  PROVE  SinEsperas' /\ SoloCrudas' /\ CuentaListos'
<1> USE DEF colas, procesos, config
<1>1. TypeOK /\ SinEsperas /\ SoloCrudas
  BY DEF ListosInv, TipoInv
<1>2. /\ colaListo \in Seq(PCBs) /\ Len(colaListo) \in Nat /\ GRADO_MULTIPROG \in Nat
      /\ colaBloqueado \in Seq(Bloqueos)
  BY <1>1, LenProperties, ConfigAssumption DEF TypeOK, Bloqueos
<1>3. /\ Cardinality(Turnos) \in Nat /\ Cardinality(CPUs) \in Nat
      /\ Cardinality(Turnos) <= Cardinality(CPUs)
      /\ Uno(planificador.paso = "pidiendo") \in Nat
  BY LosTurnos DEF Uno
<1>4. planificador' = planificador
  BY DEF manejadorCPU, MirarListo, TomarListo, EnviarSinTomar, RecibirCorrido, SemaforoInexistente,
         waitSemaforo, RestarValor, signalSemaforo, SumarValor, CambiarValor, Finaliza,
         QuedaBloqueado, FinalizaRafaga, TerminaTurno, CPUPerdida, Caer
<1>5. ASSUME Len(colaListo') \in Nat,
             Len(colaListo') + Cardinality(Turnos') <= Len(colaListo) + Cardinality(Turnos)
      PROVE  CuentaListos'
  <2>1. Cardinality(Turnos') \in Int
    BY LosTurnos, CPUsAssumption, FS_Subset, FS_CardinalityType DEF Turnos
  <2>2. QED
    BY <1>2, <1>3, <1>4, <1>5, <2>1 DEF ListosInv, CuentaListos
<1>6. CASE Caer
  <2>1. UNCHANGED << colaListo, colaBloqueado, hilo, aKernel >>
    BY <1>6 DEF Caer, canales
  <2>2. SinEsperas' /\ SoloCrudas' /\ Turnos' = Turnos
    BY <1>1, <2>1 DEF SinEsperas, SoloCrudas, Turnos
  <2>3. CuentaListos'
    BY <1>2, <1>3, <1>5, <2>1, <2>2
  <2>4. QED
    BY <2>2, <2>3
<1>7. CASE MirarListo(c)
  <2>1. /\ hilo[c].paso = "buscando" /\ hilo' = [hilo EXCEPT ![c].paso = "vioListo"]
        /\ UNCHANGED << colaListo, colaBloqueado, aKernel >>
    BY <1>7 DEF MirarListo, canales
  <2>2. SoloEnHilo(c) /\ hilo'[c].paso = "vioListo"
    BY <1>1, <2>1, CambioDePaso DEF Pasos
  <2>3. Cardinality(Turnos') = Cardinality(Turnos)
    BY <1>3, <2>1, <2>2, CuentaDeTurnos DEF Turnos, Uno
  <2>4. QED
    BY <1>1, <1>2, <1>3, <1>5, <2>1, <2>3 DEF SinEsperas, SoloCrudas
<1>8. CASE TomarListo(c) /\ colaListo # << >>
  <2>1. /\ hilo[c].paso = "vioListo" /\ colaListo' = Tail(colaListo)
        /\ SoloEnHilo(c) /\ hilo'[c].paso = "atendiendo"
        /\ UNCHANGED << colaBloqueado, aKernel >>
    BY <1>1, <1>8, EfectoTomarListo DEF TomarListo, enviarPCB
  <2>2. Cardinality(Turnos') = Cardinality(Turnos) + 1
    BY <1>3, <2>1, CuentaDeTurnos DEF Turnos, Uno
  <2>3. Len(colaListo') = Len(colaListo) - 1 /\ Len(colaListo') \in Nat
    BY <1>2, <1>8, <2>1, SacarElPrimero, LenProperties
  <2>4. SinEsperas' /\ SoloCrudas'
    BY <1>1, <2>1 DEF SinEsperas, SoloCrudas
  <2>5. CuentaListos'
    BY <1>2, <1>3, <1>5, <2>2, <2>3
  <2>6. QED
    BY <2>4, <2>5
<1>9. CASE EnviarSinTomar(c) /\ ~Caer
  <2>1. UNCHANGED << colaListo, colaBloqueado, aKernel, hilo >>
    BY <1>9 DEF EnviarSinTomar, enviarPCB
  <2>2. QED
    BY <1>1, <1>2, <1>3, <1>5, <2>1 DEF SinEsperas, SoloCrudas, Turnos
<1>10. ASSUME NEW tipo, SemaforoInexistente(c, tipo)
       PROVE  SinEsperas' /\ SoloCrudas' /\ CuentaListos'
  <2>1. PICK q \in Pids : q = Head(aKernel[c]).pid
    BY <1>1, <1>10, EfectoDeInexistente
  <2>2. /\ aKernel[c] # << >> /\ Recibido(c) /\ finalizarProceso(q) /\ hilo' = hilo
    BY <1>1, <1>10, <2>1, EfectoDeInexistente
  <2>3. SoloCrudas' /\ Len(colaListo') <= Len(colaListo) /\ Len(colaListo') \in Nat
    BY <2>2, ListosTrasFinalizar
  <2>4. QED
    BY <1>1, <1>2, <1>3, <1>5, <2>2, <2>3, SinEsperasTrasRecibir DEF Turnos
<1>11. CASE waitSemaforo(c)
  <2>1. aKernel[c] # << >> /\ Head(aKernel[c]).tipo = "WAIT_SEMAFORO" /\ Recibido(c)
    BY <1>1, <1>11, EfectoDeWait
  <2>2. QED
    BY <1>1, <2>1, SinEsperasTrasRecibir
<1>12. CASE CambiaValor(c)
  <2>1. /\ hilo[c].paso \in {"restando", "sumando"}
        /\ SoloEnHilo(c) /\ hilo'[c].paso = "atendiendo"
        /\ UNCHANGED << colaListo, colaBloqueado, aKernel >>
    BY <1>1, <1>12, EfectoDeCambiarValor DEF canales
  <2>2. Cardinality(Turnos') = Cardinality(Turnos)
    BY <1>3, <2>1, CuentaDeTurnos DEF Turnos, Uno
  <2>3. QED
    BY <1>1, <1>2, <1>3, <1>5, <2>1, <2>2 DEF SinEsperas, SoloCrudas
<1>13. CASE signalSemaforo(c) /\ kernel' = kernel
  <2>1. /\ Head(aKernel[c]).semaforo \in Semaforos /\ aKernel[c] # << >> /\ Recibido(c)
        /\ hilo[c].paso = "atendiendo" /\ SoloEnHilo(c) /\ hilo'[c].paso = "sumando"
    BY <1>1, <1>13, EfectoDeSignal
  <2>2. CRUDA \notin Semaforos
    BY SemaforosAssumption
  <2>3. \A i \in DOMAIN colaBloqueado : colaBloqueado[i].semaforo # Head(aKernel[c]).semaforo
    BY <1>1, <2>1, <2>2 DEF SoloCrudas
  <2>4. UNCHANGED << colaListo, colaBloqueado >>
    BY <1>1, <1>13, <2>3, EfectoDeSignal
  <2>5. Cardinality(Turnos') = Cardinality(Turnos)
    BY <1>3, <2>1, CuentaDeTurnos DEF Turnos, Uno
  <2>6. QED
    BY <1>1, <1>2, <1>3, <1>5, <2>1, <2>4, <2>5, SinEsperasTrasRecibir DEF SoloCrudas
<1>14. CASE FinDeTurno(c)
  <2>1. /\ aKernel[c] # << >> /\ Recibido(c) /\ hilo[c].paso = "atendiendo"
        /\ SoloEnHilo(c) /\ hilo'[c].paso = "buscando"
    BY <1>1, <1>14, EfectoDeFinDeTurno
  <2>2. Cardinality(Turnos') = Cardinality(Turnos) - 1
    <3>1. c \in Turnos /\ c \notin Turnos'
      BY <2>1 DEF Turnos
    <3>2. QED
      BY <1>3, <2>1, <3>1, CuentaDeTurnos DEF Uno
  <2>3. /\ colaBloqueado' = colaBloqueado \/
             \E e \in Bloqueos : e.semaforo = CRUDA /\ colaBloqueado' = Append(colaBloqueado, e)
        /\ colaListo' = colaListo \/ \E e \in PCBs : colaListo' = Append(colaListo, e)
    BY <1>1, <1>14, EfectoDeFinDeTurno
  <2>4. SoloCrudas'
    <3>1. ASSUME NEW e \in Bloqueos, e.semaforo = CRUDA, colaBloqueado' = Append(colaBloqueado, e)
          PROVE  SoloCrudas'
      BY <1>1, <1>2, <3>1, PonerAlFinal DEF SoloCrudas
    <3>2. QED
      BY <1>1, <2>3, <3>1 DEF SoloCrudas
  <2>5. Len(colaListo') \in Nat /\ Len(colaListo') <= Len(colaListo) + 1
    BY <1>2, <2>3, PonerAlFinal
  <2>6. QED
    BY <1>1, <1>2, <1>3, <1>5, <2>1, <2>2, <2>4, <2>5, SinEsperasTrasRecibir
<1>15. CASE RecibirCorrido(c)
  <2>1. /\ hilo[c].paso = "atendiendo" /\ SoloEnHilo(c) /\ hilo'[c].paso = "atendiendo"
        /\ SoloEnAKernel(c) /\ aKernel[c] \in Seq(Mensajes) /\ Sobran(aKernel[c], aKernel'[c])
        /\ UNCHANGED << colaListo, colaBloqueado >>
    BY <1>1, <1>15, EfectoDeCorrido
  <2>2. Hay(aKernel'[c], Espera) => Hay(aKernel[c], Espera)
    BY <2>1, LoQueQueda
  <2>3. SinEsperas'
    BY <1>1, <2>1, <2>2 DEF SinEsperas, SoloEnAKernel
  <2>4. Cardinality(Turnos') = Cardinality(Turnos)
    BY <1>3, <2>1, CuentaDeTurnos DEF Turnos, Uno
  <2>5. QED
    BY <1>1, <1>2, <1>3, <1>5, <2>1, <2>3, <2>4 DEF SoloCrudas
<1>16. QED
  BY <1>6, <1>7, <1>8, <1>9, <1>10, <1>11, <1>12, <1>13, <1>14, <1>15
     DEF manejadorCPU, FinDeTurno, CambiaValor, TomarListo, CPUPerdida, signalSemaforo

LEMMA ListosCicloCPU ==
  ASSUME ListosInv, "wait" \notin Lineas, NEW c \in CPUs, CicloCPU(c)
  PROVE  SinEsperas' /\ SoloCrudas' /\ CuentaListos'
<1> USE DEF colas, procesos, config
<1>1. TypeOK /\ TipoInv /\ SinEsperas
  BY DEF ListosInv, TipoInv
<1>2. UNCHANGED << colaListo, colaBloqueado, hilo, planificador >>
  BY DEF CicloCPU, recibirPCBDeKernel, LineaComun, LineaFinal, pedirSignal, pedirWait,
         RespuestaWait, TerminarTurno, SoloCPU
<1>3. SoloCrudas' /\ CuentaListos'
  BY <1>2 DEF ListosInv, SoloCrudas, CuentaListos, Turnos
<1>4. SinEsperas'
  <2>1. CASE recibirPCBDeKernel(c) \/ RespuestaWait(c)
    <3>1. aKernel' = aKernel
      BY <2>1 DEF recibirPCBDeKernel, RespuestaWait
    <3>2. QED
      BY <1>1, <3>1 DEF SinEsperas
  <2>2. CASE Linea(c)
    <3>1. CASE UNCHANGED canales
      BY <1>1, <3>1 DEF SinEsperas, canales
    <3>2. ASSUME NEW e \in Mensajes, e.tipo = "SIGNAL_SEMAFORO", Enviar(c, <<e>>)
          PROVE  SinEsperas'
      <4>1. <<e>> \in Seq(Mensajes) /\ ~Hay(<<e>>, Espera)
        BY <3>2, UnMensaje DEF Hay, Espera
      <4>2. QED
        BY <1>1, <3>2, <4>1, SinEsperasTrasEnviar
    <3>3. UNCHANGED canales
            \/ \E e \in Mensajes : e.tipo = "SIGNAL_SEMAFORO" /\ Enviar(c, <<e>>)
      BY <1>1, <2>2, EfectoDeLinea
    <3>4. QED
      BY <3>1, <3>2, <3>3
  <2>3. CASE TerminarTurno(c)
    <3>1. PICK m \in Seq(Mensajes) :
            Enviar(c, m) /\ \A i \in DOMAIN m : m[i] = Cierre(m[i].tipo, cpu[c].pid)
      BY <1>1, <2>3, EfectoTerminarTurno
    <3>2. ~Hay(m, Espera)
      BY <3>1, CierresSinEspera
    <3>3. QED
      BY <1>1, <3>1, <3>2, SinEsperasTrasEnviar
  <2>4. ~\E s \in Nombres : pedirWait(c, s)
    BY DEF pedirWait
  <2>5. QED
    BY <2>1, <2>2, <2>3, <2>4 DEF CicloCPU, Linea
<1>5. QED
  BY <1>3, <1>4

LEMMA ListosInicial == Init => ListosInv
<1> SUFFICES ASSUME Init
             PROVE  ListosInv
  OBVIOUS
<1>1. /\ hilo = [c \in CPUs |-> [paso |-> "buscando", pcb |-> SinPCB, semaforo |-> "",
                                 lectura |-> "corrida"]]
      /\ aKernel = [c \in CPUs |-> << >>]
      /\ colaListo = << >> /\ colaBloqueado = << >>
      /\ planificador = [paso |-> "mirando", pid |-> 0]
  BY DEF Init
<1>2. Turnos = {}
  BY <1>1 DEF Turnos
<1>3. Cardinality(Turnos) = 0 /\ Len(colaListo) = 0
  BY <1>1, <1>2, FS_EmptySet
<1>4. GRADO_MULTIPROG \in Nat /\ Cardinality(CPUs) \in Nat
  BY ConfigAssumption, LosTurnos
<1>5. CuentaListos
  <2>1. Uno(planificador.paso = "pidiendo") = 0
    BY <1>1 DEF Uno
  <2>2. QED
    BY <1>3, <1>4, <2>1 DEF CuentaListos
<1>6. SinEsperas /\ SoloCrudas
  <2>1. \A i : i \notin DOMAIN << >>
    OBVIOUS
  <2>2. \A c \in CPUs : aKernel[c] = << >>
    BY <1>1
  <2>3. QED
    BY <1>1, <2>1, <2>2 DEF SinEsperas, SoloCrudas, Hay
<1>7. QED
  BY <1>5, <1>6, TipoInicial DEF ListosInv

LEMMA ListosSiguiente ==
  ASSUME "wait" \notin Lineas
  PROVE  ListosInv /\ [Next]_vars => ListosInv'
<1> SUFFICES ASSUME ListosInv, [Next]_vars
             PROVE  ListosInv'
  OBVIOUS
<1>1. TipoInv'
  BY TipoSiguiente DEF ListosInv
<1>2. SinEsperas' /\ SoloCrudas' /\ CuentaListos'
  <2>1. CASE Next
    BY <2>1, ListosOperadores, ListosPlanificador, ListosManejador, ListosCicloCPU DEF Next
  <2>2. CASE UNCHANGED vars
    BY <2>2 DEF vars, ListosInv, SinEsperas, SoloCrudas, CuentaListos, Turnos, colas, canales
  <2>3. QED
    BY <2>1, <2>2
<1>3. QED
  BY <1>1, <1>2 DEF ListosInv

(* The degree is looked at before the answer of Memoria and without a      *)
(* lock; when no program waits on a semaphore, the processes ready or in a *)
(* turn still exceed it by no more than one for each CPU.                  *)
THEOREM LosListosNoDesbordan ==
  ASSUME "wait" \notin Lineas
  PROVE  Spec => []ListosAcotados
<1>1. ListosInv => ListosAcotados
  <2> SUFFICES ASSUME ListosInv
               PROVE  ListosAcotados
    OBVIOUS
  <2> DEFINE A == {c \in CPUs : hilo[c].paso = "atendiendo"}
  <2>1. A \subseteq Turnos
    BY DEF Turnos
  <2>2. IsFiniteSet(Turnos) /\ Cardinality(Turnos) \in Nat /\ Cardinality(CPUs) \in Nat
    BY LosTurnos
  <2>3. Cardinality(A) <= Cardinality(Turnos) /\ Cardinality(A) \in Nat
    BY <2>1, <2>2, FS_Subset, FS_CardinalityType
  <2>4. Len(colaListo) \in Nat /\ GRADO_MULTIPROG \in Nat
    BY LenProperties, ConfigAssumption DEF ListosInv, TipoInv, TypeOK
  <2> HIDE DEF A
  <2>5. Len(colaListo) + Cardinality(A) <= GRADO_MULTIPROG + Cardinality(CPUs)
    BY <2>2, <2>3, <2>4 DEF ListosInv, CuentaListos, Uno
  <2>6. QED
    BY <2>5 DEF A, ListosAcotados
<1>2. QED
  BY <1>1, ListosInicial, ListosSiguiente, PTL DEF Spec

-----------------------------------------------------------------------------
(* FIFO, and nobody stops the planning.  The key of an entry is the pid it *)
(* stands for, 0 if it stands for nobody; in each queue a pid is once.     *)
Unicas(s, K) ==
  \A i, j \in DOMAIN s : K[s[i]] # 0 /\ K[s[i]] = K[s[j]] => i = j

Claves(s, K) == {K[s[i]] : i \in DOMAIN s} \ {0}

ConLaClave(s, t, K, x) == Unicas(t, K) /\ Claves(t, K) = Claves(s, K) \cup ({x} \ {0})

SinLaClave(s, t, K, x) == Unicas(t, K) /\ Claves(t, K) = Claves(s, K) \ {x}

MenosClaves(s, t, K) == Unicas(t, K) /\ Claves(t, K) \subseteq Claves(s, K)

LEMMA ClavesAlPoner ==
  ASSUME NEW S, NEW K, NEW s \in Seq(S), NEW e \in S, Unicas(s, K), K[e] \notin Claves(s, K)
  PROVE  ConLaClave(s, Append(s, e), K, K[e])
<1> DEFINE t == Append(s, e)
           n == Len(s) + 1
<1>1. /\ DOMAIN t = DOMAIN s \cup {n} /\ n \notin DOMAIN s /\ t[n] = e
      /\ \A i \in DOMAIN s : t[i] = s[i]
  BY PonerAlFinal
<1> HIDE DEF t, n
<1>2. \A i \in DOMAIN s : K[s[i]] # 0 => K[s[i]] # K[e]
  BY DEF Claves
<1>3. Unicas(t, K)
  <2> SUFFICES ASSUME NEW i \in DOMAIN t, NEW j \in DOMAIN t, K[t[i]] # 0, K[t[i]] = K[t[j]]
               PROVE  i = j
    BY DEF Unicas
  <2>1. CASE i \in DOMAIN s /\ j \in DOMAIN s
    BY <1>1, <2>1 DEF Unicas
  <2>2. CASE i = n \/ j = n
    BY <1>1, <1>2, <2>2
  <2>3. QED
    BY <1>1, <2>1, <2>2
<1>4. Claves(t, K) = Claves(s, K) \cup ({K[e]} \ {0})
  <2>1. ASSUME NEW x \in Claves(t, K)
        PROVE  x \in Claves(s, K) \cup ({K[e]} \ {0})
    BY <1>1, <2>1 DEF Claves
  <2>2. ASSUME NEW x \in Claves(s, K)
        PROVE  x \in Claves(t, K)
    BY <1>1, <2>2 DEF Claves
  <2>3. K[e] # 0 => K[e] \in Claves(t, K)
    BY <1>1 DEF Claves
  <2>4. QED
    BY <2>1, <2>2, <2>3
<1>5. QED
  BY <1>3, <1>4 DEF t, ConLaClave

(* t is s without the entry at i, in some order.                           *)
SinElLugar(s, t, i) ==
  \E f \in [DOMAIN t -> DOMAIN s \ {i}] :
    /\ \A j \in DOMAIN t : t[j] = s[f[j]]
    /\ \A j, k \in DOMAIN t : f[j] = f[k] => j = k
    /\ \A k \in DOMAIN s \ {i} : \E j \in DOMAIN t : f[j] = k

LEMMA SacarDejaElResto ==
  ASSUME NEW S, NEW s \in Seq(S), NEW i \in DOMAIN s
  PROVE  RemoveAt(s, i) \in Seq(S) /\ SinElLugar(s, RemoveAt(s, i), i)
<1> DEFINE t == RemoveAt(s, i)
           f == [j \in DOMAIN t |-> IF j < i THEN j ELSE j + 1]
<1>1. Len(s) \in Nat /\ DOMAIN s = 1 .. Len(s) /\ i \in 1 .. Len(s)
  BY LenProperties
<1>2. /\ t \in Seq(S) /\ Len(t) = Len(s) - 1
      /\ \A j \in 1 .. Len(s) - 1 : t[j] = s[IF j < i THEN j ELSE j + 1]
  BY <1>1, SacarUna
<1>3. DOMAIN t = 1 .. Len(s) - 1
  BY <1>2, LenProperties
<1> HIDE DEF t
<1>4. \A j \in DOMAIN t : f[j] = (IF j < i THEN j ELSE j + 1) /\ f[j] \in DOMAIN s \ {i}
  BY <1>1, <1>3
<1>5. f \in [DOMAIN t -> DOMAIN s \ {i}]
  BY <1>4
<1> HIDE DEF f
<1>6. \A j \in DOMAIN t : t[j] = s[f[j]]
  BY <1>2, <1>3, <1>4
<1>7. \A j, k \in DOMAIN t : f[j] = f[k] => j = k
  BY <1>1, <1>3, <1>4
<1>8. ASSUME NEW k \in DOMAIN s \ {i}
      PROVE  \E j \in DOMAIN t : f[j] = k
  <2>1. CASE k < i
    <3>1. k \in DOMAIN t /\ f[k] = k
      BY <1>1, <1>3, <1>4, <1>8, <2>1
    <3>2. QED
      BY <3>1
  <2>2. CASE k > i
    <3>1. k - 1 \in DOMAIN t
      BY <1>1, <1>3, <1>8, <2>2
    <3>2. f[k - 1] = k
      BY <1>1, <1>4, <1>8, <2>2, <3>1
    <3>3. QED
      BY <3>1, <3>2
  <2>3. QED
    BY <1>1, <1>8, <2>1, <2>2
<1>9. SinElLugar(s, t, i)
  BY <1>5, <1>6, <1>7, <1>8 DEF SinElLugar
<1>10. QED
  BY <1>2, <1>9 DEF t

LEMMA TomarDejaElResto ==
  ASSUME NEW S, NEW s \in Seq(S), s # << >>
  PROVE  Tail(s) \in Seq(S) /\ SinElLugar(s, Tail(s), 1)
<1> DEFINE t == Tail(s)
           f == [j \in DOMAIN t |-> j + 1]
<1>1. /\ t \in Seq(S) /\ DOMAIN t = 1 .. Len(s) - 1
      /\ \A j \in DOMAIN t : j + 1 \in DOMAIN s /\ t[j] = s[j + 1]
      /\ \A k \in DOMAIN s \ {1} : k - 1 \in DOMAIN t
  BY SacarElPrimero
<1>2. Len(s) \in Nat /\ DOMAIN s = 1 .. Len(s)
  BY LenProperties
<1> HIDE DEF t
<1>3. \A j \in DOMAIN t : f[j] = j + 1 /\ f[j] \in DOMAIN s \ {1}
  BY <1>1, <1>2
<1>4. f \in [DOMAIN t -> DOMAIN s \ {1}]
  BY <1>3
<1> HIDE DEF f
<1>5. /\ \A j \in DOMAIN t : t[j] = s[f[j]]
      /\ \A j, k \in DOMAIN t : f[j] = f[k] => j = k
  BY <1>1, <1>3
<1>6. ASSUME NEW k \in DOMAIN s \ {1}
      PROVE  \E j \in DOMAIN t : f[j] = k
  BY <1>1, <1>2, <1>3, <1>6
<1>7. SinElLugar(s, t, 1)
  BY <1>4, <1>5, <1>6 DEF SinElLugar
<1>8. QED
  BY <1>1, <1>7 DEF t

LEMMA ClavesAlSacar ==
  ASSUME NEW s, NEW t, NEW K, NEW i \in DOMAIN s, SinElLugar(s, t, i), Unicas(s, K)
  PROVE  SinLaClave(s, t, K, K[s[i]])
<1>1. PICK f \in [DOMAIN t -> DOMAIN s \ {i}] :
        /\ \A j \in DOMAIN t : t[j] = s[f[j]]
        /\ \A j, k \in DOMAIN t : f[j] = f[k] => j = k
        /\ \A k \in DOMAIN s \ {i} : \E j \in DOMAIN t : f[j] = k
  BY DEF SinElLugar
<1>2. Unicas(t, K)
  <2> SUFFICES ASSUME NEW j \in DOMAIN t, NEW k \in DOMAIN t, K[t[j]] # 0, K[t[j]] = K[t[k]]
               PROVE  j = k
    BY DEF Unicas
  <2>1. f[j] \in DOMAIN s /\ f[k] \in DOMAIN s /\ t[j] = s[f[j]] /\ t[k] = s[f[k]]
    BY <1>1
  <2>2. f[j] = f[k]
    BY <2>1 DEF Unicas
  <2>3. QED
    BY <1>1, <2>2
<1>3. ASSUME NEW x \in Claves(t, K)
      PROVE  x \in Claves(s, K) \ {K[s[i]]}
  <2>1. PICK j \in DOMAIN t : x = K[t[j]] /\ x # 0
    BY <1>3 DEF Claves
  <2>2. f[j] \in DOMAIN s /\ f[j] # i /\ t[j] = s[f[j]]
    BY <1>1
  <2>3. x \in Claves(s, K)
    BY <2>1, <2>2 DEF Claves
  <2>4. x # K[s[i]]
    BY <2>1, <2>2 DEF Unicas
  <2>5. QED
    BY <2>3, <2>4
<1>4. ASSUME NEW x \in Claves(s, K) \ {K[s[i]]}
      PROVE  x \in Claves(t, K)
  <2>1. PICK k \in DOMAIN s : x = K[s[k]] /\ x # 0
    BY <1>4 DEF Claves
  <2>2. k # i
    BY <1>4, <2>1
  <2>3. PICK j \in DOMAIN t : f[j] = k
    BY <1>1, <2>2
  <2>4. t[j] = s[k]
    BY <1>1, <2>3
  <2>5. QED
    BY <2>1, <2>4 DEF Claves
<1>5. QED
  BY <1>2, <1>3, <1>4 DEF SinLaClave

LEMMA ClavesAlQuitar ==
  ASSUME NEW S, NEW K, NEW s \in Seq(S), NEW I \in SUBSET DOMAIN s, NEW t, Quita(s, t, I),
         Unicas(s, K)
  PROVE  MenosClaves(s, t, K)
<1>1. CASE t = s
  BY <1>1 DEF MenosClaves
<1>2. ASSUME NEW i \in I, t = RemoveAt(s, i)
      PROVE  MenosClaves(s, t, K)
  <2>1. i \in DOMAIN s
    BY <1>2
  <2>2. SinElLugar(s, t, i)
    <3>1. SinElLugar(s, RemoveAt(s, i), i)
      BY <2>1, SacarDejaElResto, Zenon
    <3>2. QED
      BY <1>2, <3>1
  <2>3. SinLaClave(s, t, K, K[s[i]])
    BY <2>1, <2>2, ClavesAlSacar
  <2>4. QED
    BY <2>3 DEF SinLaClave, MenosClaves
<1>3. QED
  BY <1>1, <1>2 DEF Quita

(* The messages of a turn under FIFO: signals, then the one that ends it.  *)
SoloSignals(canal) == \A i \in DOMAIN canal : canal[i].tipo = "SIGNAL_SEMAFORO"

Acaba(canal, tipos) ==
  \E r \in Seq(Mensajes), e \in Mensajes :
    canal = Append(r, e) /\ SoloSignals(r) /\ e.tipo \in tipos

LEMMA NadaEnElCanal ==
  /\ << >> \in Seq(Mensajes) /\ SoloSignals(<< >>)
  /\ \A p : DePid(<< >>, p)
  /\ \A T : ~Acaba(<< >>, T) /\ ~Hay(<< >>, T)
<1>1. \A i : i \notin DOMAIN << >>
  OBVIOUS
<1>2. ASSUME NEW r \in Seq(Mensajes), NEW e \in Mensajes
      PROVE  << >> # Append(r, e)
  <2>1. Len(r) + 1 \in DOMAIN Append(r, e)
    BY PonerAlFinal
  <2>2. QED
    BY <1>1, <2>1
<1>3. QED
  BY <1>1, <1>2 DEF SoloSignals, DePid, Acaba, Hay

LEMMA UnoMasEnElCanal ==
  ASSUME NEW s \in Seq(Mensajes), NEW e \in Mensajes, NEW T, SoloSignals(s)
  PROVE  /\ e.tipo = "SIGNAL_SEMAFORO" => SoloSignals(Append(s, e))
         /\ e.tipo \in T => Acaba(Append(s, e), T)
         /\ "SIGNAL_SEMAFORO" \notin T => (Hay(Append(s, e), T) <=> e.tipo \in T)
<1>1. /\ DOMAIN Append(s, e) = DOMAIN s \cup {Len(s) + 1}
      /\ Append(s, e)[Len(s) + 1] = e
      /\ \A i \in DOMAIN s : Append(s, e)[i] = s[i]
  BY PonerAlFinal
<1>2. QED
  BY <1>1 DEF SoloSignals, Acaba, Hay

LEMMA UnoMasDelMismo ==
  ASSUME NEW s \in Seq(Mensajes), NEW e \in Mensajes, DePid(s, e.pid)
  PROVE  DePid(Append(s, e), e.pid)
<1>1. /\ DOMAIN Append(s, e) = DOMAIN s \cup {Len(s) + 1}
      /\ Append(s, e)[Len(s) + 1] = e
      /\ \A i \in DOMAIN s : Append(s, e)[i] = s[i]
  BY PonerAlFinal
<1>2. QED
  BY <1>1 DEF DePid

LEMMA UnoMenosEnElCanal ==
  ASSUME NEW s \in Seq(Mensajes), s # << >>, NEW p, DePid(s, p)
  PROVE  /\ Head(s).pid = p /\ DePid(Tail(s), p)
         /\ SoloSignals(s) => Head(s).tipo = "SIGNAL_SEMAFORO" /\ SoloSignals(Tail(s))
<1>1. /\ 1 \in DOMAIN s /\ s[1] = Head(s)
      /\ \A i \in DOMAIN Tail(s) : i + 1 \in DOMAIN s /\ Tail(s)[i] = s[i + 1]
  BY SacarElPrimero
<1>2. QED
  BY <1>1 DEF SoloSignals, DePid

(* The message that ends the turn is the last one.                         *)
LEMMA ElUltimoDelCanal ==
  ASSUME NEW s \in Seq(Mensajes), NEW T, "SIGNAL_SEMAFORO" \notin T, Acaba(s, T)
  PROVE  /\ s # << >>
         /\ \/ Head(s).tipo \in T /\ Tail(s) = << >>
            \/ Head(s).tipo = "SIGNAL_SEMAFORO" /\ Acaba(Tail(s), T)
<1>1. PICK r \in Seq(Mensajes), e \in Mensajes :
        s = Append(r, e) /\ SoloSignals(r) /\ e.tipo \in T
  BY DEF Acaba
<1>2. s # << >>
  BY NadaEnElCanal
<1>3. CASE r = << >>
  <2>1. s = <<e>>
    BY <1>1, <1>3
  <2>2. Head(s) = e /\ Tail(s) = << >>
    BY <2>1
  <2>3. QED
    BY <1>1, <1>2, <2>2
<1>4. CASE r # << >>
  <2>1. Head(r).tipo = "SIGNAL_SEMAFORO" /\ SoloSignals(Tail(r)) /\ Tail(r) \in Seq(Mensajes)
    <3>1. /\ 1 \in DOMAIN r /\ r[1] = Head(r) /\ Tail(r) \in Seq(Mensajes)
          /\ \A i \in DOMAIN Tail(r) : i + 1 \in DOMAIN r /\ Tail(r)[i] = r[i + 1]
      BY <1>4, SacarElPrimero
    <3>2. QED
      BY <1>1, <3>1 DEF SoloSignals
  <2>2. Head(s) = Head(r) /\ Tail(s) = Append(Tail(r), e)
    BY <1>1, <1>4
  <2>3. Acaba(Tail(s), T)
    BY <1>1, <2>1, <2>2 DEF Acaba
  <2>4. QED
    BY <1>2, <2>1, <2>2, <2>3
<1>5. QED
  BY <1>3, <1>4

(* The places of the processes under FIFO.                                 *)
KNuevo == [p \in Pids |-> p]
KListo == [e \in PCBs |-> e.pid]
KBloqueado == [b \in Bloqueos |-> IF b.semaforo = CRUDA THEN 0 ELSE b.pid]

Nuevos == Claves(colaNuevo, KNuevo)
Listos == Claves(colaListo, KListo)
Bloqueados == Claves(colaBloqueado, KBloqueado)
EnColasFIFO == Nuevos \cup Listos \cup Bloqueados \cup {planificador.pid}

(* The turn of a thread is in one of five phases, the last one for ever:   *)
(* the thread that was not in step has lost the message that ends it.      *)
PCBEnviada(c) ==
  /\ cpu[c].modo \in {"libre", "muerta"} /\ aKernel[c] = << >>
  /\ aCPU[c] = << [tipo |-> "MENSAJE_PCB", pid |-> hilo[c].pcb.pid] >>

Corriendo(c) ==
  /\ cpu[c].modo = "ejecutando" /\ cpu[c].pid = hilo[c].pcb.pid
  /\ aCPU[c] = << >> /\ SoloSignals(aKernel[c])

Parada(c) ==
  /\ cpu[c].modo = "esperando" /\ cpu[c].pid = hilo[c].pcb.pid
  /\ \/ aCPU[c] = << >> /\ (aKernel[c] = << >> \/ Acaba(aKernel[c], Espera))
     \/ aKernel[c] = << >> /\ \E a \in Avisos : aCPU[c] = << [tipo |-> a, pid |-> 0] >>

Cerrando(c) ==
  /\ cpu[c].modo \in {"libre", "muerta"} /\ aCPU[c] = << >>
  /\ Acaba(aKernel[c], Marcas)

Perdida(c) ==
  cpu[c].modo \in {"libre", "muerta"} /\ aCPU[c] = << >> /\ aKernel[c] = << >>

EnFase(c) ==
  /\ ~cpu[c].desfasada /\ cpu[c].quantum = -1
  /\ c \notin Turnos =>
       aKernel[c] = << >> /\ aCPU[c] = << >> /\ cpu[c].modo \in {"libre", "muerta"}
  /\ c \in Turnos =>
       /\ hilo[c].pcb \in PCBs /\ DePid(aKernel[c], hilo[c].pcb.pid)
       /\ PCBEnviada(c) \/ Corriendo(c) \/ Parada(c) \/ Cerrando(c) \/ Perdida(c)

(* From when a wait has blocked its process until the turn ends, the       *)
(* process is no longer the thread's: a signal may already have woken it.  *)
Entregando(c) ==
  \/ Hay(aCPU[c], {"BLOQUEO_POR_SEMAFORO"})
  \/ cpu[c].modo = "ejecutando" /\ cpu[c].marca = "PROCESO_BLOQUEADO"
  \/ Hay(aKernel[c], {"PROCESO_BLOQUEADO"})

Tiene(c) == c \in Turnos /\ ~Entregando(c)

UnLugar ==
  /\ Unicas(colaNuevo, KNuevo) /\ Unicas(colaListo, KListo)
  /\ Unicas(colaBloqueado, KBloqueado)
  /\ Nuevos \cap Listos = {} /\ Nuevos \cap Bloqueados = {} /\ Listos \cap Bloqueados = {}
  /\ planificador.pid \notin Nuevos \cup Listos \cup Bloqueados
  /\ \A c \in CPUs : Tiene(c) => hilo[c].pcb.pid \notin EnColasFIFO
  /\ \A c, d \in CPUs : Tiene(c) /\ Tiene(d) /\ hilo[c].pcb.pid = hilo[d].pcb.pid => c = d

Conocidos ==
  /\ \A p \in EnColasFIFO : p \in 0 .. pidActual - 1
  /\ \A c \in Turnos : hilo[c].pcb.pid \in 0 .. pidActual - 1

FIFOInv ==
  /\ TipoInv /\ estadoPlanificacionesSistema
  /\ \A c \in CPUs : EnFase(c)
  /\ UnLugar /\ Conocidos

FIFO == QUANTUM = -1 /\ "detener" \notin Comandos

LEMMA CanalDeUno ==
  ASSUME NEW x
  PROVE  /\ <<x>> # << >> /\ Head(<<x>>) = x /\ Tail(<<x>>) = << >>
         /\ \A T : Hay(<<x>>, T) <=> x.tipo \in T
<1>1. /\ <<x>> # << >> /\ Head(<<x>>) = x /\ Tail(<<x>>) = << >>
      /\ DOMAIN <<x>> = {1} /\ <<x>>[1] = x
  OBVIOUS
<1>2. QED
  BY <1>1 DEF Hay

LEMMA UltimoDelCanal ==
  ASSUME NEW s, NEW T, NEW R, Acaba(s, R), "SIGNAL_SEMAFORO" \notin T
  PROVE  Hay(s, T) => \E x \in R : x \in T
BY UnoMasEnElCanal DEF Acaba

LEMMA SignalsNoEntregan ==
  ASSUME NEW s, NEW T, SoloSignals(s), "SIGNAL_SEMAFORO" \notin T
  PROVE  ~Hay(s, T)
BY DEF SoloSignals, Hay

(* What tells in each phase whether the process has been blocked.          *)
EntregaEnFase(c) ==
  /\ PCBEnviada(c) => ~Entregando(c)
  /\ Corriendo(c) => (Entregando(c) <=> cpu[c].marca = "PROCESO_BLOQUEADO")
  /\ Parada(c) => (Entregando(c) <=> Hay(aCPU[c], {"BLOQUEO_POR_SEMAFORO"}))
  /\ Cerrando(c) => (Entregando(c) <=> Hay(aKernel[c], {"PROCESO_BLOQUEADO"}))
  /\ Perdida(c) => ~Entregando(c)

EntregasEnFase == \A c \in CPUs : EntregaEnFase(c)

LEMMA EntregaSegunFase == EntregasEnFase
<1> SUFFICES ASSUME NEW c \in CPUs
             PROVE  EntregaEnFase(c)
  BY DEF EntregasEnFase
<1>1. \A T : ~Hay(<< >>, T)
  BY NadaEnElCanal
<1>2. ASSUME PCBEnviada(c)
      PROVE  ~Entregando(c)
  <2> DEFINE e == [tipo |-> "MENSAJE_PCB", pid |-> hilo[c].pcb.pid]
  <2>1. aCPU[c] = <<e>> /\ e.tipo = "MENSAJE_PCB"
    BY <1>2 DEF PCBEnviada
  <2> HIDE DEF e
  <2>2. ~Hay(aCPU[c], {"BLOQUEO_POR_SEMAFORO"})
    BY <2>1, CanalDeUno
  <2>3. QED
    BY <1>1, <1>2, <2>2 DEF PCBEnviada, Entregando
<1>3. ASSUME Corriendo(c)
      PROVE  Entregando(c) <=> cpu[c].marca = "PROCESO_BLOQUEADO"
  BY <1>1, <1>3, SignalsNoEntregan DEF Corriendo, Entregando
<1>4. ASSUME Parada(c)
      PROVE  Entregando(c) <=> Hay(aCPU[c], {"BLOQUEO_POR_SEMAFORO"})
  <2>1. ~Hay(aKernel[c], {"PROCESO_BLOQUEADO"})
    BY <1>1, <1>4, UltimoDelCanal DEF Parada, Espera
  <2>2. QED
    BY <1>4, <2>1 DEF Parada, Entregando
<1>5. ASSUME Cerrando(c)
      PROVE  Entregando(c) <=> Hay(aKernel[c], {"PROCESO_BLOQUEADO"})
  BY <1>1, <1>5 DEF Cerrando, Entregando
<1>6. Perdida(c) => ~Entregando(c)
  BY <1>1 DEF Perdida, Entregando
<1>7. QED
  BY <1>2, <1>3, <1>4, <1>5, <1>6 DEF EntregaEnFase

(* And after a step.                                                       *)
LEMMA EntregaTrasElPaso == EntregasEnFase'
BY EntregaSegunFase, PTL

LEMMA FaseTrasRecibirPCB ==
  ASSUME TipoInv, QUANTUM = -1, NEW c \in CPUs, EnFase(c), recibirPCBDeKernel(c)
  PROVE  EnFase(c)' /\ (Tiene(c)' <=> Tiene(c))
<1>1. /\ cpu[c].modo = "libre" /\ aCPU[c] # << >> /\ hilo' = hilo /\ aKernel' = aKernel
      /\ ~cpu[c].desfasada /\ ~cpu'[c].desfasada
      /\ cpu'[c].modo = "ejecutando" /\ cpu'[c].pid = Head(aCPU[c]).pid
      /\ cpu'[c].marca = "" /\ cpu'[c].quantum = -1 /\ aCPU'[c] = Tail(aCPU[c])
  BY EfectoRecibirPCB DEF EnFase, SoloCPU
<1>2. c \in Turnos /\ PCBEnviada(c)
  BY <1>1 DEF EnFase, Corriendo, Parada, Cerrando, Perdida
<1>3. Head(aCPU[c]).pid = hilo[c].pcb.pid /\ Tail(aCPU[c]) = << >> /\ aKernel[c] = << >>
  BY <1>2, CanalDeUno DEF PCBEnviada
<1>4. Corriendo(c)'
  BY <1>1, <1>3, NadaEnElCanal DEF Corriendo
<1>5. Turnos' = Turnos
  BY <1>1 DEF Turnos
<1>6. EnFase(c)'
  BY <1>1, <1>2, <1>4, <1>5 DEF EnFase
<1>7. ~Entregando(c) /\ ~Entregando(c)'
  BY <1>1, <1>2, <1>4, EntregaSegunFase, EntregaTrasElPaso DEF EntregasEnFase, EntregaEnFase
<1>8. QED
  BY <1>2, <1>5, <1>6, <1>7 DEF Tiene

LEMMA FaseTrasLinea ==
  ASSUME TypeOK, QUANTUM = -1, NEW c \in CPUs, EnFase(c), Linea(c)
  PROVE  EnFase(c)' /\ (Tiene(c)' <=> Tiene(c))
<1>1. /\ SigueEjecutando(c) /\ UNCHANGED SoloCPU
      /\ cpu'[c].modo = "ejecutando" /\ cpu'[c].pid = cpu[c].pid
      /\ cpu'[c].desfasada = cpu[c].desfasada
      /\ cpu'[c].quantum = Gastado(cpu[c].quantum)
      /\ cpu'[c].marca # "PROCESO_BLOQUEADO"
      /\ \/ UNCHANGED canales
         \/ \E s \in Nombres :
              LET e == [tipo |-> "SIGNAL_SEMAFORO", pid |-> cpu[c].pid, semaforo |-> s] IN
              e \in Mensajes /\ Enviar(c, <<e>>)
  BY EfectoDeLinea
<1>2. c \in Turnos /\ Corriendo(c) /\ DePid(aKernel[c], hilo[c].pcb.pid) /\ hilo[c].pcb \in PCBs
  BY <1>1 DEF EnFase, SigueEjecutando, PCBEnviada, Parada, Cerrando, Perdida
<1>3. hilo' = hilo /\ Turnos' = Turnos
  BY <1>1 DEF SoloCPU, Turnos
<1>4. aCPU'[c] = << >> /\ SoloSignals(aKernel'[c]) /\ DePid(aKernel'[c], hilo[c].pcb.pid)
  <2>1. CASE UNCHANGED canales
    BY <1>2, <2>1 DEF canales, Corriendo
  <2>2. ASSUME NEW e \in Mensajes, e.tipo = "SIGNAL_SEMAFORO", e.pid = cpu[c].pid,
               Enviar(c, <<e>>)
        PROVE  aCPU'[c] = << >> /\ SoloSignals(aKernel'[c]) /\ DePid(aKernel'[c], hilo[c].pcb.pid)
    <3>1. <<e>> \in Seq(Mensajes)
      BY UnMensaje
    <3>2. aKernel[c] \in Seq(Mensajes) /\ aCPU' = aCPU /\ aKernel'[c] = aKernel[c] \o <<e>>
      BY <2>2, <3>1, EfectoEnviar
    <3>3. aKernel'[c] = Append(aKernel[c], e)
      BY <3>2, AppendIsConcat
    <3>4. SoloSignals(aKernel[c]) /\ e.pid = hilo[c].pcb.pid /\ aCPU[c] = << >>
      BY <1>2, <2>2 DEF Corriendo
    <3>5. SoloSignals(Append(aKernel[c], e))
      BY <2>2, <3>2, <3>4, UnoMasEnElCanal
    <3>6. DePid(Append(aKernel[c], e), e.pid)
      BY <1>2, <3>2, <3>4, UnoMasDelMismo
    <3>7. QED
      BY <3>2, <3>3, <3>4, <3>5, <3>6
  <2>3. QED
    BY <1>1, <2>1, <2>2
<1>5. Corriendo(c)'
  BY <1>1, <1>2, <1>3, <1>4 DEF Corriendo
<1>6. ~cpu'[c].desfasada /\ cpu'[c].quantum = -1
  BY <1>1 DEF EnFase, Gastado
<1>7. EnFase(c)'
  BY <1>2, <1>3, <1>4, <1>5, <1>6 DEF EnFase
<1>8. cpu[c].marca # "PROCESO_BLOQUEADO"
  BY <1>1 DEF SigueEjecutando
<1>9. ~Entregando(c) /\ ~Entregando(c)'
  BY <1>1, <1>2, <1>5, <1>8, EntregaSegunFase, EntregaTrasElPaso
     DEF EntregasEnFase, EntregaEnFase
<1>10. QED
  BY <1>2, <1>3, <1>7, <1>9 DEF Tiene

LEMMA FaseTrasPedirWait ==
  ASSUME TypeOK, NEW c \in CPUs, EnFase(c), NEW s \in Nombres, pedirWait(c, s)
  PROVE  EnFase(c)' /\ (Tiene(c)' <=> Tiene(c))
<1> DEFINE e == [tipo |-> "WAIT_SEMAFORO", pid |-> cpu[c].pid, semaforo |-> s]
<1>1. /\ SigueEjecutando(c) /\ UNCHANGED SoloCPU
      /\ cpu'[c].modo = "esperando" /\ cpu'[c].pid = cpu[c].pid
      /\ cpu'[c].desfasada = cpu[c].desfasada /\ cpu'[c].quantum = cpu[c].quantum
      /\ e \in Mensajes /\ Enviar(c, <<e>>) /\ e.tipo = "WAIT_SEMAFORO" /\ e.pid = cpu[c].pid
  BY EfectoPedirWait
<1> HIDE DEF e
<1>2. c \in Turnos /\ Corriendo(c) /\ DePid(aKernel[c], hilo[c].pcb.pid) /\ hilo[c].pcb \in PCBs
  BY <1>1 DEF EnFase, SigueEjecutando, PCBEnviada, Parada, Cerrando, Perdida
<1>3. hilo' = hilo /\ Turnos' = Turnos
  BY <1>1 DEF SoloCPU, Turnos
<1>4. <<e>> \in Seq(Mensajes)
  BY <1>1, UnMensaje
<1>5. aKernel[c] \in Seq(Mensajes) /\ aCPU' = aCPU /\ aKernel'[c] = aKernel[c] \o <<e>>
  BY <1>1, <1>4, EfectoEnviar
<1>6. aKernel'[c] = Append(aKernel[c], e)
  BY <1>1, <1>5, AppendIsConcat
<1>7. SoloSignals(aKernel[c]) /\ e.pid = hilo[c].pcb.pid /\ aCPU[c] = << >>
  BY <1>1, <1>2 DEF Corriendo
<1>8. Acaba(Append(aKernel[c], e), Espera)
  BY <1>1, <1>5, <1>7, UnoMasEnElCanal DEF Espera
<1>9. DePid(Append(aKernel[c], e), e.pid)
  BY <1>1, <1>2, <1>5, <1>7, UnoMasDelMismo
<1>10. Parada(c)'
  BY <1>1, <1>3, <1>5, <1>6, <1>7, <1>8 DEF Parada
<1>11. EnFase(c)'
  BY <1>1, <1>2, <1>3, <1>6, <1>7, <1>9, <1>10 DEF EnFase
<1>12. ~Entregando(c)
  BY <1>1, <1>2, EntregaSegunFase DEF SigueEjecutando, EntregasEnFase, EntregaEnFase
<1>13. ~Entregando(c)'
  <2>1. ~Hay(aCPU'[c], {"BLOQUEO_POR_SEMAFORO"})
    BY <1>5, <1>7, NadaEnElCanal
  <2>2. QED
    BY <1>10, <2>1, EntregaTrasElPaso DEF EntregasEnFase, EntregaEnFase
<1>14. QED
  BY <1>2, <1>3, <1>11, <1>12, <1>13 DEF Tiene

LEMMA FaseTrasRespuesta ==
  ASSUME TypeOK, QUANTUM = -1, NEW c \in CPUs, EnFase(c), RespuestaWait(c)
  PROVE  EnFase(c)' /\ (Tiene(c)' <=> Tiene(c))
<1>1. /\ cpu[c].modo = "esperando" /\ UNCHANGED << SoloCPU, aKernel >>
      /\ cpu'[c].modo = "ejecutando" /\ cpu'[c].pid = cpu[c].pid
      /\ cpu'[c].quantum = Gastado(cpu[c].quantum)
      /\ aCPU[c] # << >>
      /\ \/ cpu[c].desfasada
         \/ ~cpu[c].desfasada /\ Head(aCPU[c]).tipo = "MENSAJE_PCB"
         \/ /\ ~cpu[c].desfasada /\ ~cpu'[c].desfasada
            /\ aCPU'[c] = Tail(aCPU[c])
            /\ cpu'[c].marca = IF Head(aCPU[c]).tipo = "BLOQUEO_POR_SEMAFORO"
                               THEN "PROCESO_BLOQUEADO" ELSE ""
  BY EfectoRespuestaWait
<1>2. c \in Turnos /\ Parada(c) /\ DePid(aKernel[c], hilo[c].pcb.pid) /\ hilo[c].pcb \in PCBs
  BY <1>1 DEF EnFase, PCBEnviada, Corriendo, Cerrando, Perdida
<1>3. hilo' = hilo /\ Turnos' = Turnos /\ aKernel' = aKernel
  BY <1>1 DEF SoloCPU, Turnos
<1>4. PICK a \in Avisos : aCPU[c] = << [tipo |-> a, pid |-> 0] >>
  BY <1>1, <1>2 DEF Parada
<1> DEFINE e == [tipo |-> a, pid |-> 0]
<1>5. aCPU[c] = <<e>> /\ e.tipo = a /\ a # "MENSAJE_PCB"
  BY <1>4 DEF Avisos
<1> HIDE DEF e
<1>6. /\ Head(aCPU[c]) = e /\ Tail(aCPU[c]) = << >>
      /\ Hay(aCPU[c], {"BLOQUEO_POR_SEMAFORO"}) <=> a = "BLOQUEO_POR_SEMAFORO"
  BY <1>5, CanalDeUno
<1>7. /\ ~cpu'[c].desfasada /\ aCPU'[c] = << >>
      /\ cpu'[c].marca = IF a = "BLOQUEO_POR_SEMAFORO" THEN "PROCESO_BLOQUEADO" ELSE ""
  BY <1>1, <1>5, <1>6 DEF EnFase
<1>8. aKernel[c] = << >>
  BY <1>1, <1>2 DEF Parada
<1>9. Corriendo(c)'
  BY <1>1, <1>2, <1>3, <1>7, <1>8, NadaEnElCanal DEF Corriendo, Parada
<1>10. cpu'[c].quantum = -1
  BY <1>1 DEF EnFase, Gastado
<1>11. EnFase(c)'
  BY <1>2, <1>3, <1>7, <1>9, <1>10 DEF EnFase
<1>12. Entregando(c) <=> a = "BLOQUEO_POR_SEMAFORO"
  BY <1>2, <1>6, EntregaSegunFase DEF EntregasEnFase, EntregaEnFase
<1>13. Entregando(c)' <=> a = "BLOQUEO_POR_SEMAFORO"
  BY <1>7, <1>9, EntregaTrasElPaso DEF EntregasEnFase, EntregaEnFase
<1>14. QED
  BY <1>2, <1>3, <1>11, <1>12, <1>13 DEF Tiene

LEMMA FaseTrasTerminar ==
  ASSUME TypeOK, NEW c \in CPUs, EnFase(c), TerminarTurno(c)
  PROVE  EnFase(c)' /\ (Tiene(c)' <=> Tiene(c))
<1>1. /\ cpu[c].modo = "ejecutando" /\ UNCHANGED SoloCPU
      /\ cpu'[c].modo \in {"libre", "muerta"}
      /\ cpu'[c].desfasada = cpu[c].desfasada /\ cpu'[c].quantum = cpu[c].quantum
      /\ \E m \in Seq(Mensajes) :
           /\ Enviar(c, m)
           /\ cpu[c].quantum # 0 =>
                m = << Cierre(cpu[c].marca, cpu[c].pid) >> /\ cpu[c].marca \in Marcas
  BY EfectoTerminarTurno
<1>2. c \in Turnos /\ Corriendo(c) /\ DePid(aKernel[c], hilo[c].pcb.pid) /\ hilo[c].pcb \in PCBs
  BY <1>1 DEF EnFase, PCBEnviada, Parada, Cerrando, Perdida
<1>3. hilo' = hilo /\ Turnos' = Turnos
  BY <1>1 DEF SoloCPU, Turnos
<1> DEFINE e == Cierre(cpu[c].marca, cpu[c].pid)
<1>4. e.tipo = cpu[c].marca /\ e.pid = cpu[c].pid /\ cpu[c].pid \in Pids
  BY <1>1 DEF Cierre, TypeOK
<1>5. cpu[c].marca \in Marcas /\ Enviar(c, <<e>>)
  BY <1>1 DEF EnFase
<1>6. e \in Mensajes
  BY <1>4, <1>5 DEF Cierre, Mensajes
<1> HIDE DEF e
<1>7. <<e>> \in Seq(Mensajes)
  BY <1>6, UnMensaje
<1>8. aKernel[c] \in Seq(Mensajes) /\ aCPU' = aCPU /\ aKernel'[c] = aKernel[c] \o <<e>>
  BY <1>5, <1>7, EfectoEnviar
<1>9. aKernel'[c] = Append(aKernel[c], e)
  BY <1>6, <1>8, AppendIsConcat
<1>10. SoloSignals(aKernel[c]) /\ e.pid = hilo[c].pcb.pid /\ aCPU[c] = << >>
  BY <1>2, <1>4 DEF Corriendo
<1>11. Acaba(Append(aKernel[c], e), Marcas)
  BY <1>4, <1>5, <1>6, <1>8, <1>10, UnoMasEnElCanal
<1>12. DePid(Append(aKernel[c], e), e.pid)
  BY <1>2, <1>6, <1>8, <1>10, UnoMasDelMismo
<1>13. Hay(Append(aKernel[c], e), {"PROCESO_BLOQUEADO"}) <=> e.tipo = "PROCESO_BLOQUEADO"
  BY <1>6, <1>8, <1>10, UnoMasEnElCanal
<1>14. Cerrando(c)'
  BY <1>1, <1>8, <1>9, <1>10, <1>11 DEF Cerrando
<1>15. EnFase(c)'
  BY <1>1, <1>2, <1>3, <1>9, <1>10, <1>12, <1>14 DEF EnFase
<1>16. Entregando(c) <=> cpu[c].marca = "PROCESO_BLOQUEADO"
  BY <1>2, EntregaSegunFase DEF EntregasEnFase, EntregaEnFase
<1>17. Entregando(c)' <=> cpu[c].marca = "PROCESO_BLOQUEADO"
  BY <1>4, <1>9, <1>13, <1>14, EntregaTrasElPaso DEF EntregasEnFase, EntregaEnFase
<1>18. QED
  BY <1>2, <1>3, <1>15, <1>16, <1>17 DEF Tiene

(* Of the places only x changes, and it ends in at most one of them; with  *)
(* x = 0 processes only leave their places.                                *)
Mudanza(x, lugar) ==
  /\ Unicas(colaNuevo', KNuevo) /\ Unicas(colaListo', KListo)
  /\ Unicas(colaBloqueado', KBloqueado)
  /\ Claves(colaNuevo', KNuevo) \subseteq Nuevos \cup {x}
  /\ Claves(colaListo', KListo) \subseteq Listos \cup {x}
  /\ Claves(colaBloqueado', KBloqueado) \subseteq Bloqueados \cup {x}
  /\ planificador'.pid \in {planificador.pid, 0, x}
  /\ x # 0 =>
       /\ x \in Claves(colaNuevo', KNuevo) => lugar = "nuevo"
       /\ x \in Claves(colaListo', KListo) => lugar = "listo"
       /\ x \in Claves(colaBloqueado', KBloqueado) => lugar = "bloqueado"
       /\ planificador'.pid = x => lugar = "pidiendo"

TurnosIguales(x, lugar, u) ==
  /\ \A d \in Turnos' : hilo'[d].pcb.pid # 0
  /\ \A d \in Turnos' :
       \/ d \in Turnos /\ hilo'[d].pcb.pid = hilo[d].pcb.pid
       \/ hilo'[d].pcb.pid = x
  /\ \A d \in CPUs : Tiene(d)' =>
       \/ hilo'[d].pcb.pid = x /\ lugar = "turno" /\ d = u
       \/ Tiene(d) /\ hilo'[d].pcb.pid = hilo[d].pcb.pid /\ hilo'[d].pcb.pid # x

LEMMA SinElCero ==
  ASSUME NEW s, NEW K
  PROVE  0 \notin Claves(s, K)
BY DEF Claves

LEMMA CabenEnMas ==
  ASSUME NEW a \in Nat, NEW b \in Nat, a <= b, NEW x \in Nat, x < b
  PROVE  x \in 0 .. b - 1 /\ 0 \in 0 .. b - 1 /\ \A q \in 0 .. a - 1 : q \in 0 .. b - 1
OBVIOUS

LEMMA UnLugarTrasMover ==
  ASSUME UnLugar, Conocidos, NEW x \in Nat, x < pidActual', NEW lugar, NEW u,
         Mudanza(x, lugar), TurnosIguales(x, lugar, u),
         pidActual \in Nat, pidActual' \in Nat, pidActual <= pidActual'
  PROVE  UnLugar' /\ Conocidos'
<1> DEFINE N == Claves(colaNuevo', KNuevo)
           L == Claves(colaListo', KListo)
           B == Claves(colaBloqueado', KBloqueado)
<1>1. Nuevos' = N /\ Listos' = L /\ Bloqueados' = B
  BY DEF Nuevos, Listos, Bloqueados
<1>2. 0 \notin N /\ 0 \notin L /\ 0 \notin B /\ 0 \notin Nuevos /\ 0 \notin Listos /\ 0 \notin Bloqueados
  BY SinElCero DEF Nuevos, Listos, Bloqueados
<1>3. /\ N \subseteq Nuevos \cup {x} /\ L \subseteq Listos \cup {x} /\ B \subseteq Bloqueados \cup {x}
      /\ planificador'.pid \in {planificador.pid, 0, x}
      /\ x # 0 =>
           /\ x \in N => lugar = "nuevo"
           /\ x \in L => lugar = "listo"
           /\ x \in B => lugar = "bloqueado"
           /\ planificador'.pid = x => lugar = "pidiendo"
  BY DEF Mudanza
<1>4. (/\ Unicas(colaNuevo, KNuevo) /\ Unicas(colaListo, KListo)
       /\ Unicas(colaBloqueado, KBloqueado))'
  BY DEF Mudanza
<1> HIDE DEF N, L, B
<1>5. N \cap L = {} /\ N \cap B = {} /\ L \cap B = {}
  BY <1>2, <1>3 DEF UnLugar
<1>6. planificador'.pid \notin N \cup L \cup B
  BY <1>2, <1>3 DEF UnLugar
<1>7. ASSUME NEW d \in CPUs, Tiene(d)'
      PROVE  hilo'[d].pcb.pid \notin N \cup L \cup B \cup {planificador'.pid}
  <2>1. hilo'[d].pcb.pid # 0
    BY <1>7 DEF TurnosIguales, Tiene
  <2>2. CASE hilo'[d].pcb.pid = x /\ lugar = "turno"
    BY <1>3, <2>1, <2>2
  <2>3. CASE Tiene(d) /\ hilo'[d].pcb.pid = hilo[d].pcb.pid /\ hilo'[d].pcb.pid # x
    <3>1. hilo[d].pcb.pid \notin Nuevos \cup Listos \cup Bloqueados \cup {planificador.pid}
      BY <2>3 DEF UnLugar, EnColasFIFO
    <3>2. QED
      BY <1>3, <2>1, <2>3, <3>1
  <2>4. QED
    BY <1>7, <2>2, <2>3 DEF TurnosIguales
<1>8. ASSUME NEW c \in CPUs, NEW d \in CPUs, Tiene(c)', Tiene(d)',
             hilo'[c].pcb.pid = hilo'[d].pcb.pid
      PROVE  c = d
  BY <1>8 DEF TurnosIguales, UnLugar
<1>9. UnLugar'
  <2>1. \A d \in CPUs : (Tiene(d) => hilo[d].pcb.pid \notin EnColasFIFO)'
    BY <1>1, <1>7 DEF EnColasFIFO
  <2>2. \A c, d \in CPUs : (Tiene(c) /\ Tiene(d) /\ hilo[c].pcb.pid = hilo[d].pcb.pid => c = d)'
    BY <1>8
  <2>3. QED
    BY <1>1, <1>4, <1>5, <1>6, <2>1, <2>2 DEF UnLugar
<1>10. /\ x \in 0 .. pidActual' - 1 /\ 0 \in 0 .. pidActual' - 1
       /\ \A q \in 0 .. pidActual - 1 : q \in 0 .. pidActual' - 1
  BY CabenEnMas
<1>11. ASSUME NEW p \in N \cup L \cup B \cup {planificador'.pid}
       PROVE  p \in 0 .. pidActual' - 1
  <2>1. \A q \in Nuevos \cup Listos \cup Bloqueados \cup {planificador.pid} :
          q \in 0 .. pidActual - 1
    BY DEF Conocidos, EnColasFIFO
  <2>2. p \in {0, x} \/ p \in Nuevos \cup Listos \cup Bloqueados \cup {planificador.pid}
    BY <1>3
  <2>3. QED
    BY <1>10, <2>1, <2>2
<1>12. ASSUME NEW d \in Turnos'
       PROVE  hilo'[d].pcb.pid \in 0 .. pidActual' - 1
  <2>1. \A q \in 0 .. pidActual - 1 : q \in 0 .. pidActual' - 1
    BY <1>10
  <2>2. CASE hilo'[d].pcb.pid = x
    BY <1>10, <2>2
  <2>3. CASE d \in Turnos /\ hilo'[d].pcb.pid = hilo[d].pcb.pid
    <3>1. hilo[d].pcb.pid \in 0 .. pidActual - 1
      BY <2>3 DEF Conocidos
    <3>2. QED
      BY <2>1, <2>3, <3>1
  <2>4. QED
    BY <2>2, <2>3 DEF TurnosIguales
<1>13. Conocidos'
  BY <1>1, <1>11, <1>12 DEF Conocidos, EnColasFIFO
<1>14. QED
  BY <1>9, <1>13

(* The places of a step in which processes only leave them.                *)
Menos ==
  /\ MenosClaves(colaNuevo, colaNuevo', KNuevo)
  /\ MenosClaves(colaListo, colaListo', KListo)
  /\ MenosClaves(colaBloqueado, colaBloqueado', KBloqueado)
  /\ planificador'.pid \in {planificador.pid, 0}

LEMMA MismasClaves ==
  ASSUME UnLugar, UNCHANGED << colaNuevo, colaListo, colaBloqueado, planificador >>
  PROVE  Menos
BY DEF UnLugar, Menos, MenosClaves

LEMMA NadieSeMueve ==
  ASSUME TypeOK, UnLugar, Conocidos, Menos, pidActual' = pidActual,
         \A d \in CPUs : EnFase(d)',
         \A d \in Turnos' : d \in Turnos /\ hilo'[d].pcb = hilo[d].pcb,
         \A d \in CPUs : Tiene(d)' => Tiene(d)
  PROVE  UnLugar' /\ Conocidos'
<1>1. pidActual \in Nat /\ 0 < pidActual /\ 0 \notin Pids /\ pidActual' \in Nat
      /\ pidActual <= pidActual'
  BY LosPids, PidsAssumption, FS_CardinalityType DEF TypeOK
<1>2. \A d \in Turnos' : d \in CPUs /\ hilo'[d].pcb \in PCBs
  BY DEF EnFase, Turnos
<1>3. \A d \in Turnos' : hilo'[d].pcb.pid # 0
  BY <1>1, <1>2 DEF PCBs
<1>4. TurnosIguales(0, "ninguno", 0)
  BY <1>3 DEF TurnosIguales, Tiene
<1>5. Mudanza(0, "ninguno")
  BY DEF Menos, MenosClaves, Mudanza, Nuevos, Listos, Bloqueados
<1>6. QED
  <2>1. 0 \in Nat /\ 0 < pidActual'
    BY <1>1
  <2>2. QED
    BY <1>1, <1>4, <1>5, <2>1, UnLugarTrasMover

LEMMA FaseDeLosOtros ==
  ASSUME NEW c \in CPUs, SoloDe(c), \A d \in CPUs : EnFase(d), EnFase(c)'
  PROVE  /\ \A d \in CPUs : EnFase(d)'
         /\ \A d \in CPUs \ {c} :
              (Tiene(d)' <=> Tiene(d)) /\ (d \in Turnos' <=> d \in Turnos)
<1>1. \A d \in CPUs \ {c} : d \in Turnos' <=> d \in Turnos
  BY DEF SoloDe, Turnos
<1>2. ASSUME NEW d \in CPUs \ {c}
      PROVE  EnFase(d)' /\ (Tiene(d)' <=> Tiene(d))
  <2>1. /\ hilo'[d] = hilo[d] /\ cpu'[d] = cpu[d] /\ aCPU'[d] = aCPU[d]
        /\ aKernel'[d] = aKernel[d]
    BY DEF SoloDe
  <2>2. EnFase(d)'
    BY <1>1, <2>1 DEF EnFase, PCBEnviada, Corriendo, Parada, Cerrando, Perdida
  <2>3. Tiene(d)' <=> Tiene(d)
    BY <1>1, <2>1 DEF Tiene, Entregando
  <2>4. QED
    BY <2>2, <2>3
<1>3. QED
  BY <1>1, <1>2

(* A line of a CPU, or a message it takes, leaves its process where it is. *)
LEMMA TrasCicloCPU ==
  ASSUME TipoInv, QUANTUM = -1, NEW c \in CPUs, EnFase(c), CicloCPU(c)
  PROVE  UNCHANGED SoloCPU /\ SoloDe(c) /\ EnFase(c)' /\ (Tiene(c)' <=> Tiene(c))
<1>1. TypeOK
  BY DEF TipoInv
<1>2. EnFase(c) /\ TipoInv
  OBVIOUS
<1>3. UNCHANGED SoloCPU /\ SoloDe(c)
  <2>1. CASE recibirPCBDeKernel(c)
    BY <1>2, <2>1, EfectoRecibirPCB DEF EnFase, SoloDe, SoloCPU, SoloEnCPU, SoloEnACPU
  <2>2. CASE Linea(c)
    <3>1. /\ SoloEnCPU(c) /\ UNCHANGED SoloCPU
          /\ UNCHANGED canales \/ \E m \in Seq(Mensajes) : Enviar(c, m)
      BY <1>1, <2>2, EfectoDeLinea, UnMensaje
    <3>2. UNCHANGED canales \/ (SoloEnAKernel(c) /\ aCPU' = aCPU)
      BY <1>1, <3>1, EfectoEnviar
    <3>3. QED
      BY <3>1, <3>2 DEF SoloDe, SoloCPU, SoloEnCPU, SoloEnAKernel, canales
  <2>3. ASSUME NEW s \in Nombres, pedirWait(c, s)
        PROVE  UNCHANGED SoloCPU /\ SoloDe(c)
    <3>1. SoloEnCPU(c) /\ UNCHANGED SoloCPU /\ \E m \in Seq(Mensajes) : Enviar(c, m)
      BY <1>1, <2>3, EfectoPedirWait, UnMensaje
    <3>2. SoloEnAKernel(c) /\ aCPU' = aCPU
      BY <1>1, <3>1, EfectoEnviar
    <3>3. QED
      BY <3>1, <3>2 DEF SoloDe, SoloCPU, SoloEnCPU, SoloEnAKernel
  <2>4. CASE RespuestaWait(c)
    BY <1>1, <2>4, EfectoRespuestaWait DEF SoloDe, SoloCPU, SoloEnCPU, SoloEnACPU
  <2>5. CASE TerminarTurno(c)
    <3>1. SoloEnCPU(c) /\ UNCHANGED SoloCPU /\ \E m \in Seq(Mensajes) : Enviar(c, m)
      BY <1>1, <2>5, EfectoTerminarTurno
    <3>2. SoloEnAKernel(c) /\ aCPU' = aCPU
      BY <1>1, <3>1, EfectoEnviar
    <3>3. QED
      BY <3>1, <3>2 DEF SoloDe, SoloCPU, SoloEnCPU, SoloEnAKernel
  <2>6. QED
    BY <2>1, <2>2, <2>3, <2>4, <2>5 DEF CicloCPU, Linea
<1>4. EnFase(c)' /\ (Tiene(c)' <=> Tiene(c))
  <2>1. CASE recibirPCBDeKernel(c)
    BY <1>2, <2>1, FaseTrasRecibirPCB
  <2>2. CASE Linea(c)
    BY <1>1, <1>2, <2>2, FaseTrasLinea
  <2>3. ASSUME NEW s \in Nombres, pedirWait(c, s)
        PROVE  EnFase(c)' /\ (Tiene(c)' <=> Tiene(c))
    BY <1>1, <1>2, <2>3, FaseTrasPedirWait
  <2>4. CASE RespuestaWait(c)
    BY <1>1, <1>2, <2>4, FaseTrasRespuesta
  <2>5. CASE TerminarTurno(c)
    BY <1>1, <1>2, <2>5, FaseTrasTerminar
  <2>6. QED
    BY <2>1, <2>2, <2>3, <2>4, <2>5 DEF CicloCPU, Linea
<1>5. QED
  BY <1>3, <1>4

LEMMA FIFOCicloCPU ==
  ASSUME FIFOInv, QUANTUM = -1, NEW c \in CPUs, CicloCPU(c)
  PROVE  FIFOInv'
<1>1. TipoInv' /\ TypeOK
  BY TipoCicloCPU DEF FIFOInv, TipoInv
<1>2. EnFase(c) /\ TipoInv
  BY DEF FIFOInv
<1>3. UNCHANGED SoloCPU /\ SoloDe(c)
  BY <1>2, TrasCicloCPU
<1>4. EnFase(c)' /\ (Tiene(c)' <=> Tiene(c))
  BY <1>2, TrasCicloCPU
<1>5. /\ \A d \in CPUs : EnFase(d)'
      /\ \A d \in CPUs \ {c} : Tiene(d)' <=> Tiene(d)
  BY <1>3, <1>4, FaseDeLosOtros DEF FIFOInv
<1>6. /\ pidActual' = pidActual /\ hilo' = hilo
      /\ estadoPlanificacionesSistema' = estadoPlanificacionesSistema
      /\ UNCHANGED << colaNuevo, colaListo, colaBloqueado, planificador >>
  BY <1>3 DEF SoloCPU, procesos, config, colas
<1>7. Menos
  BY <1>6, MismasClaves DEF FIFOInv
<1>8. \A d \in Turnos' : d \in Turnos /\ hilo'[d].pcb = hilo[d].pcb
  BY <1>6 DEF Turnos
<1>9. \A d \in CPUs : Tiene(d)' => Tiene(d)
  BY <1>4, <1>5
<1>10. UnLugar' /\ Conocidos'
  BY <1>1, <1>5, <1>6, <1>7, <1>8, <1>9, NadieSeMueve DEF FIFOInv
<1>11. QED
  BY <1>1, <1>5, <1>6, <1>10 DEF FIFOInv

LEMMA MismasFases ==
  ASSUME \A c \in CPUs : EnFase(c), hilo' = hilo, canales' = canales,
         \A d \in CPUs : /\ cpu'[d].modo = cpu[d].modo /\ cpu'[d].pid = cpu[d].pid
                         /\ cpu'[d].desfasada = cpu[d].desfasada
                         /\ cpu'[d].quantum = cpu[d].quantum /\ cpu'[d].marca = cpu[d].marca
  PROVE  /\ \A d \in CPUs : EnFase(d)'
         /\ \A d \in CPUs : Tiene(d)' <=> Tiene(d)
         /\ Turnos' = Turnos /\ \A d \in Turnos' : d \in Turnos /\ hilo'[d].pcb = hilo[d].pcb
<1>1. Turnos' = Turnos /\ aCPU' = aCPU /\ aKernel' = aKernel
  BY DEF Turnos, canales
<1>2. ASSUME NEW d \in CPUs
      PROVE  EnFase(d)' /\ (Tiene(d)' <=> Tiene(d))
  <2>1. EnFase(d)'
    BY <1>1 DEF EnFase, PCBEnviada, Corriendo, Parada, Cerrando, Perdida
  <2>2. Tiene(d)' <=> Tiene(d)
    BY <1>1 DEF Tiene, Entregando
  <2>3. QED
    BY <2>1, <2>2
<1>3. QED
  BY <1>1, <1>2

(* What finalizarProceso takes out of the queues is in no other place.     *)
LEMMA MenosTrasFinalizar ==
  ASSUME TypeOK, UnLugar, NEW p \in Pids, finalizarProceso(p), planificador' = planificador
  PROVE  Menos
<1>1. /\ Quita(colaNuevo, colaNuevo', {i \in DOMAIN colaNuevo : colaNuevo[i] = p})
      /\ Quita(colaListo, colaListo', LugaresDe(colaListo, p))
      /\ Quita(colaBloqueado, colaBloqueado',
               {i \in LugaresDe(colaBloqueado, p) : colaBloqueado[i].semaforo = CRUDA})
  BY EfectoDeFinalizar
<1>2. /\ colaNuevo \in Seq(Pids) /\ colaListo \in Seq(PCBs) /\ colaBloqueado \in Seq(Bloqueos)
      /\ Unicas(colaNuevo, KNuevo) /\ Unicas(colaListo, KListo)
      /\ Unicas(colaBloqueado, KBloqueado)
  BY DEF TypeOK, Bloqueos, UnLugar
<1>3. MenosClaves(colaNuevo, colaNuevo', KNuevo)
  <2> DEFINE I == {i \in DOMAIN colaNuevo : colaNuevo[i] = p}
  <2>1. I \in SUBSET DOMAIN colaNuevo
    OBVIOUS
  <2> HIDE DEF I
  <2>2. QED
    BY <1>1, <1>2, <2>1, ClavesAlQuitar DEF I
<1>4. MenosClaves(colaListo, colaListo', KListo)
  <2> DEFINE I == LugaresDe(colaListo, p)
  <2>1. I \in SUBSET DOMAIN colaListo
    BY DEF LugaresDe
  <2> HIDE DEF I
  <2>2. QED
    BY <1>1, <1>2, <2>1, ClavesAlQuitar DEF I
<1>5. MenosClaves(colaBloqueado, colaBloqueado', KBloqueado)
  <2> DEFINE I == {i \in LugaresDe(colaBloqueado, p) : colaBloqueado[i].semaforo = CRUDA}
  <2>1. I \in SUBSET DOMAIN colaBloqueado
    BY DEF LugaresDe
  <2> HIDE DEF I
  <2>2. QED
    BY <1>1, <1>2, <2>1, ClavesAlQuitar DEF I
<1>6. QED
  BY <1>3, <1>4, <1>5 DEF Menos

LEMMA FIFOOperadores ==
  ASSUME FIFOInv, "detener" \notin Comandos, Operadores
  PROVE  FIFOInv'
<1>1. TipoInv' /\ TypeOK
  BY TipoOperadores DEF FIFOInv, TipoInv
<1>2. /\ \A c \in CPUs : EnFase(c)
      /\ UnLugar /\ Conocidos /\ estadoPlanificacionesSistema
  BY DEF FIFOInv
<1>3. CASE iniciarPCB
  <2>1. /\ pidActual \in Pids /\ pidActual' = pidActual + 1
        /\ colaNuevo' = Append(colaNuevo, pidActual)
        /\ UNCHANGED << colaListo, colaBloqueado, config, canales, planificador, hilo, cpu >>
    BY <1>3 DEF iniciarPCB
  <2>2. pidActual \in Nat /\ pidActual # 0
    BY <2>1, LosPids
  <2>3. \A q \in 0 .. pidActual - 1 : q # pidActual
    BY <2>2
  <2>4. /\ pidActual \notin Nuevos \cup Listos \cup Bloqueados /\ planificador.pid # pidActual
        /\ \A d \in Turnos : hilo[d].pcb.pid # pidActual
    BY <1>2, <2>3 DEF Conocidos, EnColasFIFO
  <2>5. ConLaClave(colaNuevo, Append(colaNuevo, pidActual), KNuevo, pidActual)
    <3>1. colaNuevo \in Seq(Pids) /\ KNuevo[pidActual] = pidActual
      BY <1>1, <2>1 DEF TypeOK, KNuevo
    <3>2. Unicas(colaNuevo, KNuevo) /\ pidActual \notin Claves(colaNuevo, KNuevo)
      BY <1>2, <2>4 DEF UnLugar, Nuevos
    <3>3. ConLaClave(colaNuevo, Append(colaNuevo, pidActual), KNuevo, KNuevo[pidActual])
      BY <2>1, <3>1, <3>2, ClavesAlPoner
    <3>4. QED
      BY <3>1, <3>3
  <2>6. Mudanza(pidActual, "nuevo")
    BY <1>2, <2>1, <2>4, <2>5 DEF ConLaClave, Mudanza, UnLugar, Nuevos, Listos, Bloqueados
  <2>7. /\ \A d \in CPUs : EnFase(d)'
        /\ \A d \in CPUs : Tiene(d)' <=> Tiene(d)
        /\ Turnos' = Turnos
    BY <1>2, <2>1, MismasFases
  <2>8. \A d \in Turnos' : hilo'[d].pcb.pid # 0
    BY <2>7, LosPids DEF EnFase, Turnos, PCBs
  <2>9. TurnosIguales(pidActual, "nuevo", 0)
    BY <2>1, <2>4, <2>7, <2>8 DEF TurnosIguales, Tiene
  <2>10. UnLugar' /\ Conocidos'
    <3>1. pidActual < pidActual' /\ pidActual' \in Nat /\ pidActual <= pidActual'
      BY <2>1, <2>2
    <3>2. QED
      BY <1>2, <2>2, <2>6, <2>9, <3>1, UnLugarTrasMover
  <2>11. QED
    BY <1>1, <1>2, <2>1, <2>7, <2>10 DEF FIFOInv, config
<1>4. ASSUME NEW p \in Pids, finalizarPrograma(p)
      PROVE  FIFOInv'
  <2>1. finalizarProceso(p) /\ UNCHANGED << pidActual, config, canales, planificador, hilo, cpu >>
    BY <1>4 DEF finalizarPrograma
  <2>2. Menos
    BY <1>1, <1>2, <2>1, MenosTrasFinalizar
  <2>3. /\ \A d \in CPUs : EnFase(d)'
        /\ \A d \in CPUs : Tiene(d)' <=> Tiene(d)
        /\ \A d \in Turnos' : d \in Turnos /\ hilo'[d].pcb = hilo[d].pcb
    BY <1>2, <2>1, MismasFases
  <2>4. UnLugar' /\ Conocidos'
    BY <1>1, <1>2, <2>1, <2>2, <2>3, NadieSeMueve
  <2>5. QED
    BY <1>1, <1>2, <2>1, <2>3, <2>4 DEF FIFOInv, config
<1>5. CASE \/ detenerPlanificacion \/ reanudarPlanificacion \/ modificarGradoMultiprogramacion
           \/ \E c \in CPUs : SIGUSR1(c)
  <2>1. /\ pidActual' = pidActual /\ estadoPlanificacionesSistema' = TRUE
        /\ UNCHANGED << colaNuevo, colaListo, colaBloqueado, planificador, hilo, canales >>
        /\ cpu' = cpu \/ \E c \in CPUs : SIGUSR1(c)
    BY <1>2, <1>5 DEF detenerPlanificacion, reanudarPlanificacion,
       modificarGradoMultiprogramacion, SIGUSR1, SoloCPU, colas, procesos, config
  <2>2. \A d \in CPUs : /\ cpu'[d].modo = cpu[d].modo /\ cpu'[d].pid = cpu[d].pid
                        /\ cpu'[d].desfasada = cpu[d].desfasada
                        /\ cpu'[d].quantum = cpu[d].quantum /\ cpu'[d].marca = cpu[d].marca
    BY <1>1, <2>1, EfectoSIGUSR1
  <2>3. /\ \A d \in CPUs : EnFase(d)'
        /\ \A d \in CPUs : Tiene(d)' <=> Tiene(d)
        /\ \A d \in Turnos' : d \in Turnos /\ hilo'[d].pcb = hilo[d].pcb
    BY <1>2, <2>1, <2>2, MismasFases
  <2>4. Menos
    BY <1>2, <2>1, MismasClaves
  <2>5. UnLugar' /\ Conocidos'
    BY <1>1, <1>2, <2>1, <2>3, <2>4, NadieSeMueve
  <2>6. QED
    BY <1>1, <2>1, <2>3, <2>5 DEF FIFOInv
<1>6. QED
  BY <1>3, <1>4, <1>5 DEF Operadores

LEMMA TurnosQuietos ==
  ASSUME \A d \in CPUs : EnFase(d)',
         \A d \in Turnos' : d \in Turnos /\ hilo'[d].pcb = hilo[d].pcb,
         \A d \in CPUs : Tiene(d)' => Tiene(d),
         NEW x, NEW lugar, NEW u, \A d \in CPUs : Tiene(d)' => hilo[d].pcb.pid # x
  PROVE  TurnosIguales(x, lugar, u)
<1>1. \A d \in Turnos' : d \in CPUs /\ hilo'[d].pcb \in PCBs
  BY DEF EnFase, Turnos
<1>2. \A d \in Turnos' : hilo'[d].pcb.pid # 0
  BY <1>1, LosPids DEF PCBs
<1>3. QED
  BY <1>2 DEF TurnosIguales, Tiene

LEMMA ClaveDelPrimero ==
  ASSUME NEW S, NEW K, NEW s \in Seq(S), s # << >>, Unicas(s, K), K[Head(s)] # 0
  PROVE  K[Head(s)] \in Claves(s, K) /\ SinLaClave(s, Tail(s), K, K[Head(s)])
<1>1. 1 \in DOMAIN s /\ s[1] = Head(s)
  BY SacarElPrimero
<1>2. SinElLugar(s, Tail(s), 1)
  BY TomarDejaElResto
<1>3. SinLaClave(s, Tail(s), K, K[s[1]])
  BY <1>1, <1>2, ClavesAlSacar
<1>4. QED
  BY <1>1, <1>3 DEF Claves

LEMMA FIFOPlanificador ==
  ASSUME FIFOInv, planificarSistema
  PROVE  FIFOInv'
<1>1. TipoInv' /\ TypeOK
  BY TipoPlanificador DEF FIFOInv, TipoInv
<1>2. /\ \A c \in CPUs : EnFase(c)
      /\ UnLugar /\ Conocidos /\ estadoPlanificacionesSistema
  BY DEF FIFOInv
<1>3. /\ pidActual' = pidActual /\ hilo' = hilo /\ canales' = canales /\ cpu' = cpu
      /\ estadoPlanificacionesSistema' = estadoPlanificacionesSistema
  BY DEF planificarSistema, MirarNuevo, GradoCompleto, TomarNuevo, Admitir, Rechazar, Caer,
     procesos, config
<1>4. /\ \A d \in CPUs : EnFase(d)'
      /\ \A d \in CPUs : Tiene(d)' <=> Tiene(d)
      /\ \A d \in Turnos' : d \in Turnos /\ hilo'[d].pcb = hilo[d].pcb
  BY <1>2, <1>3, MismasFases
<1>5. pidActual \in Nat
  BY <1>1, LosPids, PidsAssumption, FS_CardinalityType DEF TypeOK
<1>6. CASE UNCHANGED << colaNuevo, colaListo, colaBloqueado >> /\ planificador'.pid \in {planificador.pid, 0}
  <2>1. Menos
    BY <1>2, <1>6 DEF UnLugar, Menos, MenosClaves
  <2>2. UnLugar' /\ Conocidos'
    BY <1>1, <1>2, <1>3, <1>4, <2>1, NadieSeMueve
  <2>3. QED
    BY <1>1, <1>2, <1>3, <1>4, <2>2 DEF FIFOInv
<1>7. CASE TomarNuevo /\ colaNuevo # << >> /\ colaNuevo' = Tail(colaNuevo)
  <2> DEFINE q == Head(colaNuevo)
  <2>1. /\ planificador'.pid = q /\ colaListo' = colaListo /\ colaBloqueado' = colaBloqueado
        /\ colaNuevo \in Seq(Pids) /\ q \in Pids
    <3>1. colaNuevo \in Seq(Pids) /\ Tail(colaNuevo) # colaNuevo
      <4>1. colaNuevo \in Seq(Pids)
        BY <1>1 DEF TypeOK
      <4>2. Len(Tail(colaNuevo)) = Len(colaNuevo) - 1 /\ Len(colaNuevo) \in Nat
        BY <1>7, <4>1, SacarElPrimero, LenProperties
      <4>3. QED
        BY <4>1, <4>2
    <3>2. q \in Pids
      BY <1>7, <3>1, SacarElPrimero
    <3>3. QED
      BY <1>7, <3>1, <3>2 DEF TomarNuevo, Caer, colas
  <2>2. KNuevo[q] = q /\ q # 0 /\ q \in Nat
    BY <2>1, LosPids DEF KNuevo
  <2> HIDE DEF q
  <2>3. q \in Nuevos /\ SinLaClave(colaNuevo, Tail(colaNuevo), KNuevo, q)
    <3>1. Unicas(colaNuevo, KNuevo)
      BY <1>2 DEF UnLugar
    <3>2. KNuevo[q] \in Claves(colaNuevo, KNuevo)
          /\ SinLaClave(colaNuevo, Tail(colaNuevo), KNuevo, KNuevo[q])
      BY <1>7, <2>1, <2>2, <3>1, ClaveDelPrimero DEF q
    <3>3. QED
      BY <2>2, <3>2 DEF Nuevos
  <2>4. q \notin Listos /\ q \notin Bloqueados /\ q < pidActual'
    <3>1. q \in 0 .. pidActual - 1
      BY <1>2, <2>3 DEF Conocidos, EnColasFIFO
    <3>2. QED
      BY <1>2, <1>3, <1>5, <2>3, <3>1 DEF UnLugar
  <2>5. Mudanza(q, "pidiendo")
    BY <1>2, <1>7, <2>1, <2>3, <2>4 DEF SinLaClave, Mudanza, UnLugar, Nuevos, Listos, Bloqueados
  <2>6. \A d \in CPUs : Tiene(d)' => hilo[d].pcb.pid # q
    BY <1>2, <1>4, <2>3 DEF UnLugar, EnColasFIFO
  <2>7. TurnosIguales(q, "pidiendo", 0)
    BY <1>4, <2>6, TurnosQuietos
  <2>8. UnLugar' /\ Conocidos'
    <3>1. pidActual' \in Nat /\ pidActual <= pidActual'
      BY <1>3, <1>5
    <3>2. QED
      BY <1>2, <1>5, <2>2, <2>4, <2>5, <2>7, <3>1, UnLugarTrasMover
  <2>9. QED
    BY <1>1, <1>2, <1>3, <1>4, <2>8 DEF FIFOInv
<1>8. CASE Admitir
  <2> DEFINE q == planificador.pid
             e == Original(planificador.pid)
  <2>1. /\ planificador'.pid = 0 /\ colaNuevo' = colaNuevo /\ colaBloqueado' = colaBloqueado
        /\ colaListo' = Append(colaListo, e) /\ q \in Pids /\ e \in PCBs /\ e.pid = q
        /\ colaListo \in Seq(PCBs)
    <3>1. planificador.paso = "pidiendo"
      BY <1>8 DEF Admitir
    <3>2. q \in Pids
      BY <1>1, <3>1 DEF TypeOK
    <3>3. QED
      BY <1>1, <1>8, <3>2 DEF Admitir, Original, PCBs, TypeOK
  <2>2. KListo[e] = q /\ q # 0 /\ q \in Nat
    BY <2>1, LosPids DEF KListo
  <2> HIDE DEF q, e
  <2>3. q \notin Nuevos /\ q \notin Listos /\ q \notin Bloqueados /\ q < pidActual'
    <3>1. q \in 0 .. pidActual - 1
      BY <1>2 DEF Conocidos, EnColasFIFO, q
    <3>2. QED
      BY <1>2, <1>3, <1>5, <3>1 DEF UnLugar, q
  <2>4. ConLaClave(colaListo, Append(colaListo, e), KListo, q)
    <3>1. Unicas(colaListo, KListo) /\ KListo[e] \notin Claves(colaListo, KListo)
      BY <1>2, <2>2, <2>3 DEF UnLugar, Listos
    <3>2. ConLaClave(colaListo, Append(colaListo, e), KListo, KListo[e])
      BY <2>1, <3>1, ClavesAlPoner
    <3>3. QED
      BY <2>2, <3>2
  <2>5. Mudanza(q, "listo")
    BY <1>2, <2>1, <2>2, <2>3, <2>4 DEF ConLaClave, Mudanza, UnLugar, Nuevos, Listos, Bloqueados
  <2>6. \A d \in CPUs : Tiene(d)' => hilo[d].pcb.pid # q
    BY <1>2, <1>4 DEF UnLugar, EnColasFIFO, q
  <2>7. TurnosIguales(q, "listo", 0)
    BY <1>4, <2>6, TurnosQuietos
  <2>8. UnLugar' /\ Conocidos'
    <3>1. pidActual' \in Nat /\ pidActual <= pidActual'
      BY <1>3, <1>5
    <3>2. QED
      BY <1>2, <1>5, <2>2, <2>3, <2>5, <2>7, <3>1, UnLugarTrasMover
  <2>9. QED
    BY <1>1, <1>2, <1>3, <1>4, <2>8 DEF FIFOInv
<1>9. QED
  <2>1. CASE MirarNuevo \/ GradoCompleto \/ Rechazar
    <3>1. UNCHANGED << colaNuevo, colaListo, colaBloqueado >> /\ planificador'.pid = 0
      BY <2>1 DEF MirarNuevo, GradoCompleto, Rechazar, colas
    <3>2. QED
      BY <1>6, <3>1
  <2>2. CASE TomarNuevo
    <3>1. \/ UNCHANGED << colaNuevo, colaListo, colaBloqueado >> /\ planificador' = planificador
          \/ colaNuevo # << >> /\ colaNuevo' = Tail(colaNuevo)
      BY <2>2 DEF TomarNuevo, Caer, colas
    <3>2. QED
      BY <1>6, <1>7, <2>2, <3>1
  <2>3. QED
    BY <1>8, <2>1, <2>2 DEF planificarSistema

(* The thread of a CPU.  A signal leaves its turn in the phase it was in.  *)
LEMMA HaySinElPrimero ==
  ASSUME NEW S, NEW s \in Seq(S), s # << >>, NEW T, Head(s).tipo \notin T
  PROVE  Hay(Tail(s), T) <=> Hay(s, T)
<1>1. /\ \A i \in DOMAIN Tail(s) : i + 1 \in DOMAIN s /\ Tail(s)[i] = s[i + 1]
      /\ \A k \in DOMAIN s \ {1} : k - 1 \in DOMAIN Tail(s) /\ Tail(s)[k - 1] = s[k]
      /\ s[1] = Head(s)
  BY SacarElPrimero
<1>2. QED
  BY <1>1 DEF Hay

LEMMA FaseTrasSignal ==
  ASSUME NEW c \in CPUs, EnFase(c), c \in Turnos, c \in Turnos', hilo'[c].pcb = hilo[c].pcb,
         cpu' = cpu, aCPU' = aCPU, aKernel[c] # << >>, aKernel[c] \in Seq(Mensajes),
         aKernel'[c] = Tail(aKernel[c]), Head(aKernel[c]).tipo = "SIGNAL_SEMAFORO"
  PROVE  EnFase(c)' /\ (Tiene(c)' <=> Tiene(c))
<1> DEFINE s == aKernel[c]
<1>1. DePid(Tail(s), hilo[c].pcb.pid)
  BY UnoMenosEnElCanal DEF EnFase
<1>2. Acaba(s, Espera) => Acaba(Tail(s), Espera)
  BY ElUltimoDelCanal DEF Espera
<1>3. Acaba(s, Marcas) => Acaba(Tail(s), Marcas)
  BY ElUltimoDelCanal DEF Marcas
<1>4. SoloSignals(s) => SoloSignals(Tail(s))
  BY UnoMenosEnElCanal DEF EnFase
<1>5. Hay(Tail(s), {"PROCESO_BLOQUEADO"}) <=> Hay(s, {"PROCESO_BLOQUEADO"})
  BY HaySinElPrimero
<1>6. Corriendo(c) => Corriendo(c)'
  BY <1>4 DEF Corriendo
<1>7. Parada(c) => Parada(c)'
  BY <1>2 DEF Parada
<1>8. Cerrando(c) => Cerrando(c)'
  BY <1>3 DEF Cerrando
<1>9. EnFase(c)'
  BY <1>1, <1>6, <1>7, <1>8 DEF EnFase, PCBEnviada, Perdida
<1>10. Entregando(c)' <=> Entregando(c)
  BY <1>5 DEF Entregando
<1>11. QED
  BY <1>9, <1>10 DEF Tiene

(* A wait leaves the process to its CPU, or takes it from the thread.      *)
LEMMA FaseTrasWait ==
  ASSUME NEW c \in CPUs, EnFase(c), c \in Turnos, c \in Turnos', hilo'[c].pcb = hilo[c].pcb,
         cpu' = cpu, aKernel[c] # << >>, aKernel[c] \in Seq(Mensajes),
         aKernel'[c] = Tail(aKernel[c]), Head(aKernel[c]).tipo = "WAIT_SEMAFORO",
         \/ aCPU'[c] = aCPU[c]
         \/ \E a \in Avisos : aCPU'[c] = Append(aCPU[c], [tipo |-> a, pid |-> 0])
  PROVE  /\ EnFase(c)' /\ Tiene(c) /\ Head(aKernel[c]).pid = hilo[c].pcb.pid
         /\ Tiene(c)' => aCPU'[c] # Append(aCPU[c], [tipo |-> "BLOQUEO_POR_SEMAFORO", pid |-> 0])
         /\ Tiene(c)' \/ aCPU'[c] = Append(aCPU[c], [tipo |-> "BLOQUEO_POR_SEMAFORO", pid |-> 0])
         /\ aKernel'[c] = << >>
<1> DEFINE s == aKernel[c]
<1>1. Parada(c) /\ aCPU[c] = << >> /\ Acaba(s, Espera)
  <2>1. ~SoloSignals(s)
    BY UnoMenosEnElCanal DEF EnFase
  <2>2. ~Acaba(s, Marcas)
    BY ElUltimoDelCanal DEF Marcas
  <2>3. QED
    BY <2>1, <2>2 DEF EnFase, PCBEnviada, Corriendo, Parada, Cerrando, Perdida
<1>2. Tail(s) = << >>
  BY <1>1, ElUltimoDelCanal DEF Espera
<1>3. Head(s).pid = hilo[c].pcb.pid
  BY UnoMenosEnElCanal DEF EnFase
<1>4. \A x : Append(<< >>, x) = <<x>>
  OBVIOUS
<1>5. aCPU'[c] = << >> \/ \E a \in Avisos : aCPU'[c] = << [tipo |-> a, pid |-> 0] >>
  BY <1>1, <1>4
<1>6. Parada(c)'
  BY <1>1, <1>2, <1>5 DEF Parada
<1>7. EnFase(c)'
  BY <1>2, <1>6, NadaEnElCanal DEF EnFase
<1>8. Tiene(c)
  BY <1>1, EntregaSegunFase, NadaEnElCanal DEF EntregasEnFase, EntregaEnFase, Tiene
<1>9. ASSUME aCPU'[c] = Append(aCPU[c], [tipo |-> "BLOQUEO_POR_SEMAFORO", pid |-> 0])
      PROVE  ~Tiene(c)'
  <2> DEFINE e == [tipo |-> "BLOQUEO_POR_SEMAFORO", pid |-> 0]
  <2>1. aCPU'[c] = <<e>> /\ e.tipo = "BLOQUEO_POR_SEMAFORO"
    BY <1>1, <1>4, <1>9
  <2> HIDE DEF e
  <2>2. Hay(aCPU'[c], {"BLOQUEO_POR_SEMAFORO"})
    BY <2>1, CanalDeUno
  <2>3. Entregando(c)'
    BY <1>6, <2>2, EntregaTrasElPaso DEF EntregasEnFase, EntregaEnFase
  <2>4. QED
    BY <2>3 DEF Tiene
<1>10. ASSUME aCPU'[c] # Append(aCPU[c], [tipo |-> "BLOQUEO_POR_SEMAFORO", pid |-> 0])
       PROVE  Tiene(c)'
  <2>1. ASSUME NEW a \in Avisos, aCPU'[c] = << [tipo |-> a, pid |-> 0] >>
        PROVE  ~Hay(aCPU'[c], {"BLOQUEO_POR_SEMAFORO"})
    <3> DEFINE e == [tipo |-> a, pid |-> 0]
    <3>1. e.tipo # "BLOQUEO_POR_SEMAFORO" /\ aCPU'[c] = <<e>>
      BY <1>1, <1>4, <1>10, <2>1
    <3> HIDE DEF e
    <3>2. QED
      BY <3>1, CanalDeUno
  <2>2. ~Hay(aCPU'[c], {"BLOQUEO_POR_SEMAFORO"})
    BY <1>5, <2>1, NadaEnElCanal
  <2>3. ~Entregando(c)'
    BY <1>6, <2>2, EntregaTrasElPaso DEF EntregasEnFase, EntregaEnFase
  <2>4. QED
    BY <2>3 DEF Tiene
<1>11. QED
  BY <1>2, <1>3, <1>7, <1>8, <1>9, <1>10

(* The last message ends the turn.                                         *)
LEMMA FaseTrasElTurno ==
  ASSUME NEW c \in CPUs, EnFase(c), c \in Turnos, c \notin Turnos',
         cpu' = cpu, aCPU' = aCPU, aKernel[c] # << >>, aKernel[c] \in Seq(Mensajes),
         aKernel'[c] = Tail(aKernel[c]),
         Head(aKernel[c]).tipo \notin {"SIGNAL_SEMAFORO", "WAIT_SEMAFORO"}
  PROVE  EnFase(c)' /\ ~Tiene(c)' /\ Head(aKernel[c]).tipo \in Marcas
<1> DEFINE s == aKernel[c]
<1>1. Cerrando(c)
  <2>1. ~SoloSignals(s)
    BY UnoMenosEnElCanal DEF EnFase
  <2>2. ~Acaba(s, Espera)
    BY ElUltimoDelCanal DEF Espera
  <2>3. QED
    BY <2>1, <2>2 DEF EnFase, PCBEnviada, Corriendo, Parada, Cerrando, Perdida
<1>2. Head(s).tipo \in Marcas /\ Tail(s) = << >>
  <2>1. "SIGNAL_SEMAFORO" \notin Marcas
    BY DEF Marcas
  <2>2. QED
    BY <1>1, <2>1, ElUltimoDelCanal DEF Cerrando
<1>3. EnFase(c)'
  BY <1>1, <1>2 DEF Cerrando, EnFase
<1>4. QED
  BY <1>2, <1>3 DEF Tiene

(* A thread that is not in step serves nothing: at most it loses the       *)
(* message that ends the turn, and keeps the process.                      *)
LEMMA LoQueQuedaAcaba ==
  ASSUME NEW s \in Seq(Mensajes), NEW t, Sobran(s, t), NEW T, Acaba(s, T)
  PROVE  t = << >> \/ Acaba(t, T)
<1>1. PICK n \in Nat :
        /\ Len(t) = Len(s) - n
        /\ \A i \in DOMAIN t : i + n \in DOMAIN s /\ t[i] = s[i + n]
  BY LosQueSobran
<1>2. t \in Seq(Mensajes)
  BY LosQueSobran
<1>3. PICK r \in Seq(Mensajes), e \in Mensajes :
        s = Append(r, e) /\ SoloSignals(r) /\ e.tipo \in T
  BY DEF Acaba
<1>4. /\ Len(s) = Len(r) + 1 /\ s[Len(s)] = e /\ Len(r) \in Nat
      /\ \A i \in 1 .. Len(r) : s[i] = r[i] /\ s[i].tipo = "SIGNAL_SEMAFORO"
  <2>1. /\ Len(r) \in Nat /\ DOMAIN r = 1 .. Len(r) /\ Len(Append(r, e)) = Len(r) + 1
        /\ Append(r, e)[Len(r) + 1] = e
        /\ \A i \in DOMAIN r : Append(r, e)[i] = r[i]
    BY AppendProperties, LenProperties
  <2>2. QED
    BY <1>3, <2>1 DEF SoloSignals
<1>5. ASSUME t # << >>
      PROVE  Acaba(t, T)
  <2> DEFINE u == SubSeq(t, 1, Len(t) - 1)
             d == t[Len(t)]
  <2>1. Len(t) \in Nat /\ DOMAIN t = 1 .. Len(t) /\ Len(t) >= 1
    BY <1>2, <1>5, EmptySeq, LenProperties
  <2>2. d = e
    BY <1>1, <1>4, <2>1
  <2>3. u = [i \in 1 .. Len(t) - 1 |-> t[i]]
    BY <2>1
  <2> HIDE DEF u, d
  <2>4. \A i \in 1 .. Len(t) - 1 : t[i] \in Mensajes /\ t[i].tipo = "SIGNAL_SEMAFORO"
    <3>1. \A i \in 1 .. Len(t) : t[i] \in Mensajes
      BY <1>2, <2>1, ElementOfSeq
    <3>2. \A i \in 1 .. Len(t) - 1 : i + n \in 1 .. Len(r) /\ t[i] = s[i + n]
      BY <1>1, <1>4, <2>1
    <3>3. QED
      BY <1>4, <2>1, <3>1, <3>2
  <2>5. u \in Seq(Mensajes) /\ DOMAIN u = 1 .. Len(t) - 1 /\ Len(u) = Len(t) - 1
    <3>1. Len(t) - 1 \in Nat
      BY <2>1
    <3>2. QED
      BY <2>3, <2>4, <3>1
  <2>6. SoloSignals(u)
    BY <2>3, <2>4, <2>5 DEF SoloSignals
  <2>7. t = Append(u, d)
    <3> DEFINE v == Append(u, d)
    <3>1. /\ v \in Seq(Mensajes) /\ Len(v) = Len(u) + 1 /\ v[Len(u) + 1] = d
          /\ \A i \in 1 .. Len(u) : v[i] = u[i]
      <4>1. u \in Seq(Mensajes) /\ d \in Mensajes
        BY <1>3, <2>2, <2>5
      <4>2. QED
        BY ONLY <4>1, AppendProperties
    <3> HIDE DEF v
    <3>2. v[Len(t)] = t[Len(t)] /\ Len(v) = Len(t)
      BY <2>1, <2>5, <3>1 DEF d
    <3>3. \A i \in 1 .. Len(t) : v[i] = t[i]
      BY <2>1, <2>3, <2>5, <3>1, <3>2
    <3>4. t = v
      BY <1>2, <3>1, <3>2, <3>3, SeqEqual
    <3>5. QED
      BY <3>4 DEF v
  <2>8. QED
    BY <1>3, <2>2, <2>5, <2>6, <2>7 DEF Acaba
<1>6. QED
  BY <1>5

LEMMA FaseTrasCorrido ==
  ASSUME TypeOK, NEW c \in CPUs, EnFase(c), PrimerTurno(c), RecibirCorrido(c)
  PROVE  EnFase(c)' /\ (Tiene(c)' <=> Tiene(c)) /\ Tiene(c)
<1>1. /\ hilo[c].paso = "atendiendo" /\ hilo[c].lectura # "enPaso"
      /\ hilo'[c].paso = "atendiendo" /\ hilo'[c].pcb = hilo[c].pcb
      /\ aKernel[c] \in Seq(Mensajes) /\ Sobran(aKernel[c], aKernel'[c])
      /\ aCPU' = aCPU /\ cpu' = cpu
  BY EfectoDeCorrido
<1>2. c \in Turnos /\ c \in Turnos'
  BY <1>1 DEF Turnos
<1>3. aKernel[c] # << >>
  BY <1>1 DEF Sobran
<1>4. /\ DePid(aKernel'[c], hilo[c].pcb.pid)
      /\ Hay(aKernel'[c], {"PROCESO_BLOQUEADO"}) => Hay(aKernel[c], {"PROCESO_BLOQUEADO"})
  BY <1>1, <1>2, LoQueQueda DEF EnFase
<1>5. /\ SoloSignals(aKernel[c]) => SoloSignals(aKernel'[c])
      /\ Acaba(aKernel[c], Espera) => aKernel'[c] = << >> \/ Acaba(aKernel'[c], Espera)
      /\ Acaba(aKernel[c], Marcas) => aKernel'[c] = << >> \/ Acaba(aKernel'[c], Marcas)
  <2> DEFINE s == aKernel[c]
             t == aKernel'[c]
  <2>1. s \in Seq(Mensajes) /\ Sobran(s, t)
    BY <1>1
  <2> HIDE DEF s, t
  <2>2. SoloSignals(s) => SoloSignals(t)
    <3>1. \E n \in Nat : \A i \in DOMAIN t : i + n \in DOMAIN s /\ t[i] = s[i + n]
      BY <2>1, LosQueSobran
    <3>2. QED
      BY <3>1 DEF SoloSignals
  <2>3. QED
    BY <2>1, <2>2, LoQueQuedaAcaba DEF s, t
<1>6. Corriendo(c) \/ Parada(c) \/ Cerrando(c)
  BY <1>2, <1>3 DEF EnFase, PCBEnviada, Perdida
<1>7. aCPU[c] = << >>
  BY <1>3, <1>6 DEF Corriendo, Parada, Cerrando
<1>8. Corriendo(c)' \/ Parada(c)' \/ Cerrando(c)' \/ Perdida(c)'
  BY <1>1, <1>3, <1>5, <1>6, <1>7 DEF Corriendo, Parada, Cerrando, Perdida
<1>9. EnFase(c)'
  BY <1>1, <1>2, <1>4, <1>8 DEF EnFase
<1>10. ~Hay(aKernel[c], {"PROCESO_BLOQUEADO"}) /\ cpu[c].marca # "PROCESO_BLOQUEADO"
  BY <1>1 DEF PrimerTurno, SinEmpezar, EnElPrimero
<1>11. ~Entregando(c) /\ ~Entregando(c)'
  BY <1>1, <1>4, <1>7, <1>10, NadaEnElCanal DEF Entregando
<1>12. QED
  BY <1>2, <1>9, <1>11 DEF Tiene

LEMMA FIFOSinMudanza ==
  ASSUME FIFOInv, TipoInv', NEW c \in CPUs, SoloDe(c), EnFase(c)', Tiene(c)' => Tiene(c),
         c \in Turnos' => c \in Turnos /\ hilo'[c].pcb = hilo[c].pcb, Menos,
         pidActual' = pidActual, estadoPlanificacionesSistema' = estadoPlanificacionesSistema
  PROVE  FIFOInv'
<1>1. /\ TypeOK /\ UnLugar /\ Conocidos /\ estadoPlanificacionesSistema
      /\ \A d \in CPUs : EnFase(d)
  BY DEF FIFOInv, TipoInv
<1>2. /\ \A d \in CPUs : EnFase(d)'
      /\ \A d \in CPUs \ {c} :
           (Tiene(d)' <=> Tiene(d)) /\ (d \in Turnos' <=> d \in Turnos)
  BY <1>1, FaseDeLosOtros
<1>3. \A d \in Turnos' : d \in Turnos /\ hilo'[d].pcb = hilo[d].pcb
  <2>1. \A d \in Turnos' : d \in CPUs
    BY DEF Turnos
  <2>2. QED
    BY <1>2, <2>1 DEF SoloDe
<1>4. \A d \in CPUs : Tiene(d)' => Tiene(d)
  BY <1>2
<1>5. UnLugar' /\ Conocidos'
  BY <1>1, <1>2, <1>3, <1>4, NadieSeMueve
<1>6. QED
  BY <1>1, <1>2, <1>5 DEF FIFOInv

LEMMA FIFOConMudanza ==
  ASSUME FIFOInv, TipoInv', NEW c \in CPUs, SoloDe(c), EnFase(c)',
         NEW x \in Pids, x \in 0 .. pidActual - 1, NEW lugar,
         Mudanza(x, lugar),
         \A d \in CPUs \ {c} : Tiene(d) => hilo[d].pcb.pid # x,
         c \in Turnos' =>
           \/ c \in Turnos /\ hilo'[c].pcb.pid = hilo[c].pcb.pid
           \/ hilo'[c].pcb.pid = x,
         Tiene(c)' =>
           \/ hilo'[c].pcb.pid = x /\ lugar = "turno"
           \/ Tiene(c) /\ hilo'[c].pcb.pid = hilo[c].pcb.pid /\ hilo'[c].pcb.pid # x,
         pidActual' = pidActual, estadoPlanificacionesSistema' = estadoPlanificacionesSistema
  PROVE  FIFOInv'
<1>1. /\ TypeOK /\ UnLugar /\ Conocidos /\ estadoPlanificacionesSistema
      /\ \A d \in CPUs : EnFase(d)
  BY DEF FIFOInv, TipoInv
<1>2. /\ \A d \in CPUs : EnFase(d)'
      /\ \A d \in CPUs \ {c} :
           (Tiene(d)' <=> Tiene(d)) /\ (d \in Turnos' <=> d \in Turnos)
  BY <1>1, FaseDeLosOtros
<1>3. pidActual \in Nat
  BY <1>1, LosPids, PidsAssumption, FS_CardinalityType DEF TypeOK
<1>4. x \in Nat /\ x < pidActual'
  BY <1>3
<1>5. TurnosIguales(x, lugar, c)
  <2>1. \A d \in Turnos' : d \in CPUs /\ hilo'[d].pcb \in PCBs
    BY <1>2 DEF EnFase, Turnos
  <2>2. \A d \in Turnos' : hilo'[d].pcb.pid # 0
    BY <2>1, LosPids DEF PCBs
  <2>3. \A d \in CPUs \ {c} : hilo'[d] = hilo[d]
    BY DEF SoloDe
  <2>4. \A d \in Turnos' :
          \/ d \in Turnos /\ hilo'[d].pcb.pid = hilo[d].pcb.pid
          \/ hilo'[d].pcb.pid = x
    BY <1>2, <2>1, <2>3
  <2>5. \A d \in CPUs : Tiene(d)' =>
          \/ hilo'[d].pcb.pid = x /\ lugar = "turno" /\ d = c
          \/ Tiene(d) /\ hilo'[d].pcb.pid = hilo[d].pcb.pid /\ hilo'[d].pcb.pid # x
    BY <1>2, <2>3
  <2>6. QED
    BY <2>2, <2>4, <2>5 DEF TurnosIguales
<1>6. pidActual' \in Nat /\ pidActual <= pidActual'
  BY <1>3
<1>7. UnLugar' /\ Conocidos'
  BY <1>1, <1>3, <1>4, <1>5, <1>6, UnLugarTrasMover
<1>8. QED
  BY <1>1, <1>2, <1>7 DEF FIFOInv

LEMMA FIFOTomarListo ==
  ASSUME FIFOInv, TipoInv', NEW c \in CPUs, TomarListo(c), colaListo # << >>
  PROVE  FIFOInv'
<1> DEFINE e == Head(colaListo)
<1>1. /\ TypeOK /\ UnLugar /\ Conocidos /\ estadoPlanificacionesSistema /\ EnFase(c)
  BY DEF FIFOInv, TipoInv
<1>2. /\ e \in PCBs /\ e.pid \in Pids /\ colaListo' = Tail(colaListo)
      /\ SoloEnHilo(c) /\ hilo'[c].paso = "atendiendo" /\ hilo'[c].pcb = e
      /\ enviarPCB(c, e.pid)
      /\ UNCHANGED << colaNuevo, colaBloqueado, procesos, config, planificador, cpu >>
  BY <1>1, EfectoTomarListo
<1>3. colaListo \in Seq(PCBs) /\ Unicas(colaListo, KListo)
  BY <1>1 DEF TypeOK, UnLugar
<1>4. KListo[e] = e.pid /\ e.pid # 0 /\ e.pid \in Nat
  BY <1>2, LosPids DEF KListo
<1>5. e.pid \in Listos /\ SinLaClave(colaListo, Tail(colaListo), KListo, e.pid)
  <2>1. /\ KListo[e] \in Claves(colaListo, KListo)
        /\ SinLaClave(colaListo, Tail(colaListo), KListo, KListo[e])
    BY <1>3, <1>4, ClaveDelPrimero
  <2>2. QED
    BY <1>4, <2>1 DEF Listos
<1>6. /\ SoloEnACPU(c) /\ aKernel' = aKernel
      /\ aCPU'[c] = Append(aCPU[c], [tipo |-> "MENSAJE_PCB", pid |-> e.pid])
  BY <1>1, <1>2, EfectoEnviarPCB
<1>7. c \notin Turnos /\ c \in Turnos'
  BY <1>2 DEF Turnos, TomarListo
<1>8. aKernel[c] = << >> /\ aCPU[c] = << >> /\ cpu[c].modo \in {"libre", "muerta"}
  BY <1>1, <1>7 DEF EnFase
<1>9. \A y : Append(<< >>, y) = <<y>>
  OBVIOUS
<1> HIDE DEF e
<1>10. PCBEnviada(c)'
  BY <1>2, <1>6, <1>8, <1>9 DEF PCBEnviada
<1>11. EnFase(c)'
  BY <1>1, <1>2, <1>6, <1>7, <1>8, <1>10, NadaEnElCanal DEF EnFase
<1>12. SoloDe(c)
  BY <1>2, <1>6 DEF SoloDe, SoloEnHilo, SoloEnACPU
<1>13. e.pid \notin Nuevos /\ e.pid \notin Bloqueados /\ planificador.pid # e.pid
  BY <1>1, <1>5 DEF UnLugar
<1>14. Mudanza(e.pid, "turno")
  BY <1>1, <1>2, <1>4, <1>5, <1>13 DEF SinLaClave, Mudanza, UnLugar, Nuevos, Listos, Bloqueados
<1>15. e.pid \in 0 .. pidActual - 1
  BY <1>1, <1>5 DEF Conocidos, EnColasFIFO
<1>16. \A d \in CPUs \ {c} : Tiene(d) => hilo[d].pcb.pid # e.pid
  BY <1>1, <1>5 DEF UnLugar, EnColasFIFO
<1>17. pidActual' = pidActual /\ estadoPlanificacionesSistema' = estadoPlanificacionesSistema
  BY <1>2 DEF procesos, config
<1>18. QED
  BY <1>2, <1>11, <1>12, <1>14, <1>15, <1>16, <1>17, FIFOConMudanza

LEMMA FIFOWait ==
  ASSUME FIFOInv, TipoInv', NEW c \in CPUs, waitSemaforo(c)
  PROVE  FIFOInv'
<1> DEFINE m == Head(aKernel[c])
           x == m.pid
           s == m.semaforo
<1>1. /\ TypeOK /\ UnLugar /\ Conocidos /\ estadoPlanificacionesSistema /\ EnFase(c)
  BY DEF FIFOInv, TipoInv
<1>2. /\ x \in Pids /\ s \in Semaforos
      /\ aKernel[c] # << >> /\ m.tipo = "WAIT_SEMAFORO" /\ Recibido(c)
      /\ hilo[c].paso = "atendiendo"
      /\ SoloEnHilo(c) /\ hilo'[c].paso = "restando" /\ hilo'[c].pcb = hilo[c].pcb
  BY <1>1, EfectoDeWait
<1>3. \/ colaBloqueado' = colaBloqueado /\ (aCPU' = aCPU \/ \E a \in Avisos : Notificar(c, a))
      \/ /\ Notificar(c, "BLOQUEO_POR_SEMAFORO")
         /\ colaBloqueado' = Append(colaBloqueado, [pid |-> x, semaforo |-> s])
         /\ [pid |-> x, semaforo |-> s] \in Bloqueos
  <2>1. "NO_BLOQUEO_POR_SEMAFORO" \in Avisos
    BY DEF Avisos
  <2>2. QED
    BY <1>1, <2>1, EfectoDeWait
<1>4. /\ SoloEnAKernel(c) /\ aKernel[c] \in Seq(Mensajes) /\ aKernel'[c] = Tail(aKernel[c])
  BY <1>1, <1>2, EfectoRecibido
<1>5. /\ cpu' = cpu /\ pidActual' = pidActual
      /\ estadoPlanificacionesSistema' = estadoPlanificacionesSistema
      /\ colaNuevo' = colaNuevo /\ colaListo' = colaListo /\ planificador' = planificador
  BY DEF waitSemaforo, config
<1>6. aCPU' = aCPU \/ \E a \in Avisos :
        SoloEnACPU(c) /\ aCPU'[c] = Append(aCPU[c], [tipo |-> a, pid |-> 0])
  <2>1. "BLOQUEO_POR_SEMAFORO" \in Avisos
    BY DEF Avisos
  <2>2. QED
    BY <1>1, <1>3, <2>1, EfectoNotificar
<1>7. SoloDe(c)
  BY <1>2, <1>4, <1>5, <1>6 DEF SoloDe, SoloEnHilo, SoloEnAKernel, SoloEnACPU
<1>8. c \in Turnos /\ c \in Turnos'
  BY <1>2 DEF Turnos
<1> HIDE DEF m, x, s
<1>9. /\ EnFase(c)' /\ Tiene(c) /\ x = hilo[c].pcb.pid
      /\ Tiene(c)' => aCPU'[c] # Append(aCPU[c], [tipo |-> "BLOQUEO_POR_SEMAFORO", pid |-> 0])
  BY <1>1, <1>2, <1>4, <1>5, <1>6, <1>8, FaseTrasWait DEF m, x
<1>10. CASE colaBloqueado' = colaBloqueado
  <2>1. Menos
    BY <1>1, <1>5, <1>10, MismasClaves
  <2>2. QED
    BY <1>2, <1>5, <1>7, <1>8, <1>9, <2>1, FIFOSinMudanza
<1>11. CASE /\ Notificar(c, "BLOQUEO_POR_SEMAFORO")
            /\ colaBloqueado' = Append(colaBloqueado, [pid |-> x, semaforo |-> s])
            /\ [pid |-> x, semaforo |-> s] \in Bloqueos
  <2> DEFINE e == [pid |-> x, semaforo |-> s]
  <2>1. ~Tiene(c)'
    <3>1. "BLOQUEO_POR_SEMAFORO" \in Avisos
      BY DEF Avisos
    <3>2. aCPU'[c] = Append(aCPU[c], [tipo |-> "BLOQUEO_POR_SEMAFORO", pid |-> 0])
      BY <1>1, <1>11, <3>1, EfectoNotificar
    <3>3. QED
      BY <1>9, <3>2
  <2>2. e \in Bloqueos /\ e.pid = x /\ e.semaforo # CRUDA /\ colaBloqueado' = Append(colaBloqueado, e)
    BY <1>2, <1>11, SemaforosAssumption
  <2> HIDE DEF e
  <2>3. KBloqueado[e] = x /\ x # 0
    BY <1>2, <2>2, LosPids DEF KBloqueado
  <2>4. x \notin Nuevos /\ x \notin Listos /\ x \notin Bloqueados /\ planificador.pid # x
    BY <1>1, <1>9 DEF UnLugar, EnColasFIFO
  <2>5. ConLaClave(colaBloqueado, Append(colaBloqueado, e), KBloqueado, x)
    <3>1. colaBloqueado \in Seq(Bloqueos) /\ Unicas(colaBloqueado, KBloqueado)
      BY <1>1 DEF TypeOK, Bloqueos, UnLugar
    <3>2. KBloqueado[e] \notin Claves(colaBloqueado, KBloqueado)
      BY <2>3, <2>4 DEF Bloqueados
    <3>3. ConLaClave(colaBloqueado, Append(colaBloqueado, e), KBloqueado, KBloqueado[e])
      BY <2>2, <3>1, <3>2, ClavesAlPoner
    <3>4. QED
      BY <2>3, <3>3
  <2>6. Mudanza(x, "bloqueado")
    BY <1>1, <1>5, <2>2, <2>4, <2>5
       DEF ConLaClave, Mudanza, UnLugar, Nuevos, Listos, Bloqueados
  <2>7. x \in 0 .. pidActual - 1
    BY <1>1, <1>8, <1>9 DEF Conocidos
  <2>8. \A d \in CPUs \ {c} : Tiene(d) => hilo[d].pcb.pid # x
    BY <1>1, <1>9 DEF UnLugar
  <2>9. x \in Pids
    BY <1>2
  <2>10. QED
    BY <1>2, <1>5, <1>7, <1>8, <1>9, <2>1, <2>6, <2>7, <2>8, <2>9, FIFOConMudanza
<1>12. QED
  BY <1>3, <1>10, <1>11 DEF x, s, m

LEMMA FIFOSignal ==
  ASSUME FIFOInv, TipoInv', NEW c \in CPUs, signalSemaforo(c), kernel' = kernel, kernel = "vivo"
  PROVE  FIFOInv'
<1> DEFINE m == Head(aKernel[c])
<1>1. /\ TypeOK /\ UnLugar /\ Conocidos /\ estadoPlanificacionesSistema /\ EnFase(c)
  BY DEF FIFOInv, TipoInv
<1>2. /\ m.semaforo \in Semaforos
      /\ aKernel[c] # << >> /\ m.tipo = "SIGNAL_SEMAFORO" /\ Recibido(c)
      /\ hilo[c].paso = "atendiendo"
      /\ SoloEnHilo(c) /\ hilo'[c].paso = "sumando" /\ hilo'[c].pcb = hilo[c].pcb
      /\ UNCHANGED << colaNuevo, pidActual, config, aCPU, planificador, cpu >>
  BY <1>1, EfectoDeSignal
<1>3. \/ \E i \in DOMAIN colaBloqueado :
           /\ colaBloqueado[i].semaforo = m.semaforo /\ colaBloqueado[i].pid \in Pids
           /\ Original(colaBloqueado[i].pid) \in PCBs
           /\ colaBloqueado' = RemoveAt(colaBloqueado, i)
           /\ colaListo' = Append(colaListo, Original(colaBloqueado[i].pid))
      \/ UNCHANGED << colaListo, colaBloqueado >>
  BY <1>1, EfectoDeSignal
<1>4. /\ SoloEnAKernel(c) /\ aKernel[c] \in Seq(Mensajes) /\ aKernel'[c] = Tail(aKernel[c])
  BY <1>1, <1>2, EfectoRecibido
<1>5. SoloDe(c)
  BY <1>2, <1>4 DEF SoloDe, SoloEnHilo, SoloEnAKernel
<1>6. c \in Turnos /\ c \in Turnos'
  BY <1>2 DEF Turnos
<1>7. EnFase(c)' /\ (Tiene(c)' <=> Tiene(c))
  BY <1>1, <1>2, <1>4, <1>6, FaseTrasSignal
<1>8. pidActual' = pidActual /\ estadoPlanificacionesSistema' = estadoPlanificacionesSistema
  BY <1>2 DEF config
<1> HIDE DEF m
<1>9. CASE UNCHANGED << colaListo, colaBloqueado >>
  <2>1. Menos
    BY <1>1, <1>2, <1>9, MismasClaves
  <2>2. QED
    BY <1>2, <1>5, <1>6, <1>7, <1>8, <2>1, FIFOSinMudanza
<1>10. ASSUME NEW i \in DOMAIN colaBloqueado,
              colaBloqueado[i].semaforo = m.semaforo, colaBloqueado[i].pid \in Pids,
              Original(colaBloqueado[i].pid) \in PCBs,
              colaBloqueado' = RemoveAt(colaBloqueado, i),
              colaListo' = Append(colaListo, Original(colaBloqueado[i].pid))
       PROVE  FIFOInv'
  <2> DEFINE x == colaBloqueado[i].pid
             e == Original(x)
  <2>1. /\ colaBloqueado \in Seq(Bloqueos) /\ colaBloqueado[i] \in Bloqueos
        /\ Unicas(colaBloqueado, KBloqueado)
        /\ colaListo \in Seq(PCBs) /\ Unicas(colaListo, KListo)
    <3>1. colaBloqueado \in Seq(Bloqueos) /\ colaListo \in Seq(PCBs)
      BY <1>1 DEF TypeOK, Bloqueos
    <3>2. QED
      BY <1>1, <1>10, <3>1, ElementOfSeq, LenProperties DEF UnLugar
  <2>2. x \in Pids /\ x # 0 /\ x \in Nat /\ e \in PCBs /\ e.pid = x
    BY <1>10, LosPids DEF Original
  <2>3. KBloqueado[colaBloqueado[i]] = x /\ KListo[e] = x
    BY <1>2, <1>10, <2>1, <2>2, SemaforosAssumption DEF KBloqueado, KListo
  <2>4. x \in Bloqueados /\ SinLaClave(colaBloqueado, colaBloqueado', KBloqueado, x)
    <3>1. SinElLugar(colaBloqueado, RemoveAt(colaBloqueado, i), i)
      BY <1>10, <2>1, SacarDejaElResto
    <3>2. SinLaClave(colaBloqueado, RemoveAt(colaBloqueado, i), KBloqueado, KBloqueado[colaBloqueado[i]])
      BY <1>10, <2>1, <3>1, ClavesAlSacar
    <3>3. KBloqueado[colaBloqueado[i]] \in Claves(colaBloqueado, KBloqueado)
      BY <1>10, <2>2, <2>3 DEF Claves
    <3>4. QED
      BY <1>10, <2>3, <3>2, <3>3 DEF Bloqueados
  <2>5. x \notin Nuevos /\ x \notin Listos /\ planificador.pid # x
    BY <1>1, <2>4 DEF UnLugar
  <2> HIDE DEF x, e
  <2>6. ConLaClave(colaListo, Append(colaListo, e), KListo, x)
    <3>1. KListo[e] \notin Claves(colaListo, KListo)
      BY <2>3, <2>5 DEF Listos
    <3>2. ConLaClave(colaListo, Append(colaListo, e), KListo, KListo[e])
      BY <2>1, <2>2, <3>1, ClavesAlPoner
    <3>3. QED
      BY <2>3, <3>2
  <2>7. Mudanza(x, "listo")
    <3>1. colaListo' = Append(colaListo, e)
      BY <1>10 DEF x, e
    <3>2. QED
      BY <1>1, <1>2, <2>4, <2>5, <2>6, <3>1
         DEF SinLaClave, ConLaClave, Mudanza, UnLugar, Nuevos, Listos, Bloqueados
  <2>8. x \in 0 .. pidActual - 1
    BY <1>1, <2>4 DEF Conocidos, EnColasFIFO
  <2>9. \A d \in CPUs : Tiene(d) => hilo[d].pcb.pid # x
    BY <1>1, <2>4 DEF UnLugar, EnColasFIFO
  <2>10. QED
    BY <1>2, <1>5, <1>6, <1>7, <1>8, <2>2, <2>7, <2>8, <2>9, FIFOConMudanza
<1>11. QED
  BY <1>3, <1>9, <1>10

LEMMA FIFONadaCambia ==
  ASSUME FIFOInv, TipoInv',
         UNCHANGED << colaNuevo, colaListo, colaBloqueado, planificador, hilo, cpu, canales,
                      pidActual, estadoPlanificacionesSistema >>
  PROVE  FIFOInv'
<1>1. /\ TypeOK /\ UnLugar /\ Conocidos /\ estadoPlanificacionesSistema
      /\ \A d \in CPUs : EnFase(d)
  BY DEF FIFOInv, TipoInv
<1>2. /\ \A d \in CPUs : EnFase(d)'
      /\ \A d \in CPUs : Tiene(d)' <=> Tiene(d)
      /\ \A d \in Turnos' : d \in Turnos /\ hilo'[d].pcb = hilo[d].pcb
  BY <1>1, MismasFases
<1>3. Menos
  BY <1>1, MismasClaves
<1>4. UnLugar' /\ Conocidos'
  BY <1>1, <1>2, <1>3, NadieSeMueve
<1>5. QED
  BY <1>1, <1>2, <1>4 DEF FIFOInv

LEMMA FIFOFinDeTurno ==
  ASSUME FIFOInv, TipoInv', NEW c \in CPUs, FinDeTurno(c)
  PROVE  FIFOInv'
<1> DEFINE m == Head(aKernel[c])
<1>1. /\ TypeOK /\ UnLugar /\ Conocidos /\ estadoPlanificacionesSistema /\ EnFase(c)
  BY DEF FIFOInv, TipoInv
<1>2. /\ aKernel[c] # << >> /\ Recibido(c) /\ m.pid \in Pids
      /\ hilo[c].paso = "atendiendo"
      /\ SoloEnHilo(c) /\ hilo'[c].paso = "buscando"
      /\ UNCHANGED << colaNuevo, procesos, config, aCPU, planificador, cpu >>
  BY <1>1, EfectoDeFinDeTurno
<1>3. \/ /\ m.tipo \in {"PROCESO_ABORTADO", "PROCESO_FINALIZADO"}
         /\ UNCHANGED << colaListo, colaBloqueado >>
      \/ /\ m.tipo = "PROCESO_BLOQUEADO" /\ colaListo' = colaListo
         /\ \/ /\ [pid |-> m.pid, semaforo |-> CRUDA] \in Bloqueos
               /\ colaBloqueado' = Append(colaBloqueado, [pid |-> m.pid, semaforo |-> CRUDA])
            \/ colaBloqueado' = colaBloqueado
      \/ m.tipo = "PROCESO_FINALIZO_RAFAGA"
  BY <1>1, EfectoDeFinDeTurno
<1>4. /\ SoloEnAKernel(c) /\ aKernel[c] \in Seq(Mensajes) /\ aKernel'[c] = Tail(aKernel[c])
  BY <1>1, <1>2, EfectoRecibido
<1>5. SoloDe(c)
  BY <1>2, <1>4 DEF SoloDe, SoloEnHilo, SoloEnAKernel
<1>6. c \in Turnos /\ c \notin Turnos'
  BY <1>2 DEF Turnos
<1>7. m.tipo \notin {"SIGNAL_SEMAFORO", "WAIT_SEMAFORO"}
  BY <1>3
<1>8. EnFase(c)' /\ ~Tiene(c)' /\ m.tipo \in Marcas
  BY <1>1, <1>2, <1>4, <1>6, <1>7, FaseTrasElTurno
<1> HIDE DEF m
<1>9. colaListo' = colaListo
  BY <1>3, <1>8 DEF Marcas
<1>10. MenosClaves(colaBloqueado, colaBloqueado', KBloqueado)
  <2>1. CASE colaBloqueado' = colaBloqueado
    BY <1>1, <2>1 DEF UnLugar, MenosClaves
  <2>2. CASE /\ [pid |-> m.pid, semaforo |-> CRUDA] \in Bloqueos
             /\ colaBloqueado' = Append(colaBloqueado, [pid |-> m.pid, semaforo |-> CRUDA])
    <3> DEFINE e == [pid |-> m.pid, semaforo |-> CRUDA]
    <3>1. e \in Bloqueos /\ e.semaforo = CRUDA /\ colaBloqueado' = Append(colaBloqueado, e)
      BY <2>2
    <3> HIDE DEF e
    <3>2. KBloqueado[e] = 0
      BY <3>1 DEF KBloqueado
    <3>3. colaBloqueado \in Seq(Bloqueos) /\ Unicas(colaBloqueado, KBloqueado)
      BY <1>1 DEF TypeOK, Bloqueos, UnLugar
    <3>4. ConLaClave(colaBloqueado, Append(colaBloqueado, e), KBloqueado, KBloqueado[e])
      BY <3>1, <3>2, <3>3, SinElCero, ClavesAlPoner
    <3>5. QED
      BY <3>1, <3>2, <3>4 DEF ConLaClave, MenosClaves
  <2>3. QED
    BY <1>3, <1>8, <2>1, <2>2 DEF Marcas
<1>11. Menos
  BY <1>1, <1>2, <1>9, <1>10 DEF UnLugar, Menos, MenosClaves
<1>12. pidActual' = pidActual /\ estadoPlanificacionesSistema' = estadoPlanificacionesSistema
  BY <1>2 DEF procesos, config
<1>13. QED
  BY <1>5, <1>6, <1>8, <1>11, <1>12, FIFOSinMudanza

LEMMA FIFOInexistente ==
  ASSUME FIFOInv, TipoInv', NEW c \in CPUs, NEW tipo \in {"WAIT_SEMAFORO", "SIGNAL_SEMAFORO"},
         SemaforoInexistente(c, tipo)
  PROVE  FIFOInv'
<1> DEFINE m == Head(aKernel[c])
<1>1. /\ TypeOK /\ UnLugar /\ Conocidos /\ estadoPlanificacionesSistema /\ EnFase(c)
  BY DEF FIFOInv, TipoInv
<1>2. /\ aKernel[c] # << >> /\ Recibido(c) /\ m.tipo = tipo /\ m.pid \in Pids
      /\ finalizarProceso(m.pid) /\ hilo[c].paso = "atendiendo"
      /\ UNCHANGED << pidActual, config, aCPU, planificador, hilo, cpu >>
  BY <1>1, EfectoDeInexistente DEF SemaforoInexistente, Atendiendo
<1>3. /\ SoloEnAKernel(c) /\ aKernel[c] \in Seq(Mensajes) /\ aKernel'[c] = Tail(aKernel[c])
  BY <1>1, <1>2, EfectoRecibido
<1>4. SoloDe(c)
  BY <1>2, <1>3 DEF SoloDe, SoloEnAKernel
<1>5. c \in Turnos /\ c \in Turnos'
  BY <1>2 DEF Turnos
<1>6. EnFase(c)' /\ (Tiene(c)' => Tiene(c))
  <2>1. CASE tipo = "SIGNAL_SEMAFORO"
    BY <1>1, <1>2, <1>3, <1>5, <2>1, FaseTrasSignal
  <2>2. CASE tipo = "WAIT_SEMAFORO"
    BY <1>1, <1>2, <1>3, <1>5, <2>2, FaseTrasWait
  <2>3. QED
    BY <2>1, <2>2
<1> HIDE DEF m
<1>7. Menos
  BY <1>1, <1>2, MenosTrasFinalizar
<1>8. pidActual' = pidActual /\ estadoPlanificacionesSistema' = estadoPlanificacionesSistema
  BY <1>2 DEF config
<1>9. QED
  BY <1>2, <1>4, <1>5, <1>6, <1>7, <1>8, FIFOSinMudanza

LEMMA FIFOManejador ==
  ASSUME FIFOInv, Primeros, NEW c \in CPUs, manejadorCPU(c), kernel = "vivo"
  PROVE  FIFOInv'
<1>1. TipoInv' /\ TypeOK
  BY TipoManejador DEF FIFOInv, TipoInv
<1>2. UnLugar /\ estadoPlanificacionesSistema /\ EnFase(c)
  BY DEF FIFOInv
<1>3. ASSUME Caer
      PROVE  FIFOInv'
  BY <1>1, <1>3, FIFONadaCambia DEF Caer, colas, procesos, config
<1>4. CASE MirarListo(c) \/ CambiaValor(c)
  <2>1. /\ SoloEnHilo(c) /\ hilo'[c].pcb = hilo[c].pcb
        /\ c \in Turnos' <=> c \in Turnos
        /\ UNCHANGED << colas, procesos, config, canales, planificador, cpu >>
    <3>1. CASE MirarListo(c)
      BY <1>1, <3>1, CambioDePaso DEF MirarListo, Pasos, Turnos
    <3>2. CASE CambiaValor(c)
      BY <1>1, <3>2, EfectoDeCambiarValor DEF Turnos
    <3>3. QED
      BY <1>4, <3>1, <3>2
  <2>2. SoloDe(c)
    BY <2>1 DEF SoloDe, SoloEnHilo, canales
  <2>3. /\ cpu'[c] = cpu[c] /\ aCPU'[c] = aCPU[c] /\ aKernel'[c] = aKernel[c]
        /\ hilo'[c].pcb = hilo[c].pcb
    BY <2>1 DEF canales
  <2>4. EnFase(c)'
    BY <1>2, <2>1, <2>3 DEF EnFase, PCBEnviada, Corriendo, Parada, Cerrando, Perdida
  <2>5. Tiene(c)' => Tiene(c)
    BY <2>1, <2>3 DEF Tiene, Entregando
  <2>6. Menos
    BY <1>2, <2>1, MismasClaves DEF colas
  <2>7. pidActual' = pidActual /\ estadoPlanificacionesSistema' = estadoPlanificacionesSistema
    BY <2>1 DEF procesos, config
  <2>8. QED
    BY <1>1, <2>1, <2>2, <2>4, <2>5, <2>6, <2>7, FIFOSinMudanza
<1>5. CASE TomarListo(c)
  BY <1>1, <1>3, <1>5, FIFOTomarListo DEF TomarListo
<1>6. ~EnviarSinTomar(c)
  BY <1>2 DEF EnviarSinTomar
<1>7. ASSUME NEW tipo \in {"WAIT_SEMAFORO", "SIGNAL_SEMAFORO"}, SemaforoInexistente(c, tipo)
      PROVE  FIFOInv'
  BY <1>1, <1>7, FIFOInexistente
<1>8. CASE waitSemaforo(c)
  BY <1>1, <1>8, FIFOWait
<1>9. CASE signalSemaforo(c)
  <2>1. kernel' = kernel \/ Caer
    BY <1>9 DEF signalSemaforo
  <2>2. QED
    BY <1>1, <1>3, <1>9, <2>1, FIFOSignal
<1>10. CASE FinDeTurno(c)
  BY <1>1, <1>10, FIFOFinDeTurno
<1>11. CASE CPUPerdida(c)
  BY <1>3, <1>11 DEF CPUPerdida
<1>12. CASE RecibirCorrido(c)
  <2>1. SoloDe(c)
    BY <1>1, ElHiloSoloLoSuyo
  <2>2. /\ hilo[c].paso = "atendiendo" /\ hilo'[c].pcb = hilo[c].pcb
        /\ UNCHANGED << colas, procesos, config, planificador >>
    BY <1>1, <1>12, EfectoDeCorrido
  <2>3. EnFase(c)' /\ (Tiene(c)' => Tiene(c))
    BY <1>1, <1>2, <1>12, FaseTrasCorrido DEF Primeros
  <2>4. c \in Turnos
    BY <2>2 DEF Turnos
  <2>5. Menos
    BY <1>2, <2>2, MismasClaves DEF colas
  <2>6. pidActual' = pidActual /\ estadoPlanificacionesSistema' = estadoPlanificacionesSistema
    BY <2>2 DEF procesos, config
  <2>7. QED
    BY <1>1, <2>1, <2>2, <2>3, <2>4, <2>5, <2>6, FIFOSinMudanza
<1>13. QED
  BY <1>4, <1>5, <1>6, <1>7, <1>8, <1>9, <1>10, <1>11, <1>12
     DEF manejadorCPU, FinDeTurno, CambiaValor

LEMMA FIFOInicial == QUANTUM = -1 /\ Init => FIFOInv
<1> SUFFICES ASSUME QUANTUM = -1, Init
             PROVE  FIFOInv
  OBVIOUS
<1>1. /\ pidActual = 1 /\ estadoPlanificacionesSistema
      /\ colaNuevo = << >> /\ colaListo = << >> /\ colaBloqueado = << >>
      /\ planificador = [paso |-> "mirando", pid |-> 0]
  BY DEF Init
<1>2. /\ hilo = [c \in CPUs |-> [paso |-> "buscando", pcb |-> SinPCB, semaforo |-> "",
                                 lectura |-> "corrida"]]
      /\ cpu = [c \in CPUs |-> [modo |-> "libre", pid |-> 0, quantum |-> QUANTUM,
                                marca |-> "", sigusr1 |-> FALSE, desfasada |-> FALSE]]
      /\ aCPU = [c \in CPUs |-> << >>] /\ aKernel = [c \in CPUs |-> << >>]
  BY DEF Init
<1>3. Turnos = {}
  BY <1>2 DEF Turnos
<1>4. \A c \in CPUs : EnFase(c)
  BY <1>2, <1>3 DEF EnFase
<1>5. \A K : Claves(<< >>, K) = {} /\ Unicas(<< >>, K)
  <2>1. \A i : i \notin DOMAIN << >>
    OBVIOUS
  <2>2. QED
    BY <2>1 DEF Claves, Unicas
<1>6. Nuevos = {} /\ Listos = {} /\ Bloqueados = {}
  BY <1>1, <1>5 DEF Nuevos, Listos, Bloqueados
<1>7. UnLugar
  BY <1>1, <1>3, <1>5, <1>6 DEF UnLugar, Tiene
<1>8. Conocidos
  BY <1>1, <1>3, <1>6 DEF Conocidos, EnColasFIFO
<1>9. QED
  BY <1>1, <1>4, <1>7, <1>8, TipoInicial DEF FIFOInv

LEMMA FIFOSiguiente ==
  ASSUME FIFO
  PROVE  FIFOInv /\ Primeros /\ [Next]_vars => FIFOInv' /\ Primeros'
<1> SUFFICES ASSUME FIFOInv, Primeros, [Next]_vars
             PROVE  FIFOInv' /\ Primeros'
  OBVIOUS
<1>1. ASSUME Next
      PROVE  FIFOInv'
  BY <1>1, FIFOOperadores, FIFOPlanificador, FIFOManejador, FIFOCicloCPU DEF Next, FIFO
<1>2. ASSUME UNCHANGED vars
      PROVE  FIFOInv'
  <2>1. TipoInv'
    BY TipoSiguiente DEF FIFOInv
  <2>2. QED
    BY <1>2, <2>1, FIFONadaCambia DEF vars, colas, procesos, config
<1>3. Primeros'
  BY PrimerosSiguiente DEF FIFOInv
<1>4. QED
  BY <1>1, <1>2, <1>3

(* Under FIFO and while nobody stops the planning two CPUs never execute   *)
(* lines of the same process, whatever the semaphores, the programs and    *)
(* the other commands do: also when a signal wakes it before the CPU that  *)
(* blocked it has handed it back.                                          *)
THEOREM UnaSolaCPU ==
  ASSUME FIFO
  PROVE  Spec => []EjecutaUnaSola
<1>1. FIFOInv => EjecutaUnaSola
  <2> SUFFICES ASSUME FIFOInv, NEW c \in CPUs, NEW d \in CPUs, c # d,
                      SigueEjecutando(c), SigueEjecutando(d)
               PROVE  cpu[c].pid # cpu[d].pid
    BY DEF EjecutaUnaSola
  <2>1. ASSUME NEW e \in CPUs, SigueEjecutando(e)
        PROVE  Tiene(e) /\ cpu[e].pid = hilo[e].pcb.pid
    <3>1. e \in Turnos /\ Corriendo(e)
      BY <2>1 DEF FIFOInv, EnFase, SigueEjecutando, PCBEnviada, Parada, Cerrando, Perdida
    <3>2. QED
      BY <2>1, <3>1, EntregaSegunFase
         DEF EntregasEnFase, EntregaEnFase, SigueEjecutando, Corriendo, Tiene
  <2>2. QED
    BY <2>1 DEF FIFOInv, UnLugar
<1>2. FIFO => QUANTUM = -1
  BY DEF FIFO
<1>3. QED
  BY <1>1, <1>2, FIFOInicial, PrimerosIniciales, FIFOSiguiente, PTL DEF Spec

-----------------------------------------------------------------------------
(* Under FIFO each live process has a place: a queue, the planner or the   *)
(* thread that has it, and that one finds it in colaEjecutando.            *)
EnLaCola == \A c \in CPUs : Tiene(c) => EstaEn(colaEjecutando, hilo[c].pcb.pid)

ConLugar(p) ==
  p \in EnColasFIFO \/ \E c \in CPUs : Tiene(c) /\ hilo[c].pcb.pid = p

LosActivosConLugar == \A p \in Activos : ConLugar(p)

ConLugarTras(p) ==
  p \in EnColasFIFO' \/ \E c \in CPUs : Tiene(c)' /\ hilo'[c].pcb.pid = p

(* Only x leaves a queue.                                                  *)
NadieMasSale(x) ==
  /\ Nuevos \subseteq Nuevos' \cup {x} /\ Listos \subseteq Listos' \cup {x}
  /\ Bloqueados \subseteq Bloqueados' \cup {x}
  /\ planificador.pid \in {planificador'.pid, 0, x}

LEMMA ConLugarTrasMover ==
  ASSUME LosActivosConLugar, NEW x, NadieMasSale(x), Activos' \subseteq Activos \cup {x},
         x \in Activos' => ConLugarTras(x),
         \A c \in CPUs : Tiene(c) =>
           hilo[c].pcb.pid = x \/ (Tiene(c)' /\ hilo'[c].pcb.pid = hilo[c].pcb.pid)
  PROVE  LosActivosConLugar'
<1>1. SUFFICES ASSUME NEW p \in Activos'
               PROVE  ConLugarTras(p)
  BY DEF LosActivosConLugar, ConLugar, ConLugarTras
<1>2. CASE p = x
  BY <1>2
<1>3. CASE p # x
  <2>1. ConLugar(p) /\ p # 0
    BY <1>3, LosPids DEF LosActivosConLugar, Activos, Creados
  <2>2. CASE p \in EnColasFIFO
    BY <1>3, <2>1, <2>2 DEF NadieMasSale, EnColasFIFO, ConLugarTras
  <2>3. ASSUME NEW c \in CPUs, Tiene(c), hilo[c].pcb.pid = p
        PROVE  ConLugarTras(p)
    BY <1>3, <2>3 DEF ConLugarTras
  <2>4. QED
    BY <2>1, <2>2, <2>3 DEF ConLugar
<1>4. QED
  BY <1>2, <1>3

(* A step in which no process changes its place.                           *)
LEMMA ConLugarIgual ==
  ASSUME LosActivosConLugar, Activos' \subseteq Activos,
         UNCHANGED << colaNuevo, colaListo, colaBloqueado >>,
         planificador.pid \in {planificador'.pid, 0},
         \A c \in CPUs : Tiene(c) => Tiene(c)' /\ hilo'[c].pcb.pid = hilo[c].pcb.pid
  PROVE  LosActivosConLugar'
<1>1. Nuevos' = Nuevos /\ Listos' = Listos /\ Bloqueados' = Bloqueados
  BY DEF Nuevos, Listos, Bloqueados
<1>2. NadieMasSale(0)
  BY <1>1 DEF NadieMasSale
<1>3. 0 \notin Activos'
  BY LosPids DEF Activos, Creados
<1>4. Activos' \subseteq Activos \cup {0}
  OBVIOUS
<1>5. QED
  BY <1>2, <1>3, <1>4, ConLugarTrasMover

LEMMA EnLaColaIgual ==
  ASSUME EnLaCola, colaEjecutando' = colaEjecutando,
         \A c \in CPUs : Tiene(c)' => Tiene(c) /\ hilo'[c].pcb.pid = hilo[c].pcb.pid
  PROVE  EnLaCola'
BY DEF EnLaCola, EstaEn

LEMMA ClavesCrecen ==
  ASSUME NEW S, NEW K, NEW s \in Seq(S), NEW e \in S
  PROVE  /\ Claves(s, K) \subseteq Claves(Append(s, e), K)
         /\ K[e] # 0 => K[e] \in Claves(Append(s, e), K)
<1> DEFINE t == Append(s, e)
           n == Len(s) + 1
<1>1. /\ n \in DOMAIN t /\ t[n] = e
      /\ \A i \in DOMAIN s : i \in DOMAIN t /\ t[i] = s[i]
  <2>1. /\ t \in Seq(S) /\ Len(t) = n /\ t[n] = e /\ Len(s) \in Nat
        /\ \A i \in DOMAIN s : t[i] = s[i]
    BY PonerAlFinal, LenProperties
  <2>2. DOMAIN t = 1 .. n /\ DOMAIN s = 1 .. Len(s)
    BY <2>1, LenProperties
  <2> HIDE DEF t
  <2>3. QED
    BY <2>1, <2>2
<1> HIDE DEF t, n
<1>2. Claves(s, K) \subseteq Claves(t, K)
  BY <1>1 DEF Claves
<1>3. K[e] # 0 => K[e] \in Claves(t, K)
  BY <1>1 DEF Claves
<1>4. QED
  BY <1>2, <1>3 DEF t

LEMMA ClavesSinUna ==
  ASSUME NEW s, NEW t, NEW K, NEW i \in DOMAIN s, SinElLugar(s, t, i)
  PROVE  Claves(s, K) \subseteq Claves(t, K) \cup {K[s[i]]}
<1>1. PICK f \in [DOMAIN t -> DOMAIN s \ {i}] :
        /\ \A j \in DOMAIN t : t[j] = s[f[j]]
        /\ \A k \in DOMAIN s \ {i} : \E j \in DOMAIN t : f[j] = k
  BY DEF SinElLugar
<1>2. ASSUME NEW k \in DOMAIN s, K[s[k]] # 0
      PROVE  K[s[k]] \in Claves(t, K) \cup {K[s[i]]}
  <2>1. CASE k = i
    BY <2>1
  <2>2. CASE k # i
    <3>1. PICK j \in DOMAIN t : f[j] = k
      BY <1>1, <2>2
    <3>2. t[j] = s[k]
      BY <1>1, <3>1
    <3>3. QED
      BY <1>2, <3>2 DEF Claves
  <2>3. QED
    BY <2>1, <2>2
<1>3. QED
  BY <1>2 DEF Claves

LEMMA ClavesTrasQuitar ==
  ASSUME NEW S, NEW K, NEW s \in Seq(S), NEW I \in SUBSET DOMAIN s, NEW t, Quita(s, t, I),
         NEW x, \A i \in I : K[s[i]] \in {x, 0}
  PROVE  Claves(s, K) \subseteq Claves(t, K) \cup {x}
<1>1. CASE t = s
  BY <1>1
<1>2. ASSUME NEW i \in I, t = RemoveAt(s, i)
      PROVE  Claves(s, K) \subseteq Claves(t, K) \cup {x}
  <2>1. SinElLugar(s, t, i)
    <3>1. SinElLugar(s, RemoveAt(s, i), i)
      BY SacarDejaElResto, Zenon
    <3>2. QED
      BY <1>2, <3>1
  <2>2. Claves(s, K) \subseteq Claves(t, K) \cup {K[s[i]]}
    BY <2>1, ClavesSinUna
  <2>3. K[s[i]] \in {x, 0} /\ 0 \notin Claves(s, K)
    BY SinElCero
  <2>4. QED
    BY <2>2, <2>3
<1>3. QED
  BY <1>1, <1>2 DEF Quita

(* finalizarProceso takes out its process, which is not alive then.        *)
LEMMA ConLugarTrasFinalizar ==
  ASSUME TypeOK, LosActivosConLugar, NEW p \in Pids, finalizarProceso(p),
         UNCHANGED << pidActual, rechazados, colaFinalizado, planificador >>,
         \A c \in CPUs : Tiene(c) => Tiene(c)' /\ hilo'[c].pcb.pid = hilo[c].pcb.pid
  PROVE  LosActivosConLugar' /\ Bloqueados \subseteq Bloqueados'
<1>1. /\ Quita(colaNuevo, colaNuevo', {i \in DOMAIN colaNuevo : colaNuevo[i] = p})
      /\ Quita(colaListo, colaListo', LugaresDe(colaListo, p))
      /\ Quita(colaBloqueado, colaBloqueado',
               {i \in LugaresDe(colaBloqueado, p) : colaBloqueado[i].semaforo = CRUDA})
      /\ \/ /\ estado' = estado /\ colaNuevo' = colaNuevo /\ colaListo' = colaListo
            /\ colaBloqueado' = colaBloqueado
         \/ estado' = [estado EXCEPT ![p] = "FINALIZADO"]
  BY EfectoDeFinalizar
<1>2. /\ colaNuevo \in Seq(Pids) /\ colaListo \in Seq(PCBs) /\ colaBloqueado \in Seq(Bloqueos)
      /\ \A i \in DOMAIN colaNuevo : colaNuevo[i] \in Pids
      /\ \A i \in DOMAIN colaListo : colaListo[i] \in PCBs
      /\ \A i \in DOMAIN colaBloqueado : colaBloqueado[i] \in Bloqueos
  <2>1. /\ colaNuevo \in Seq(Pids) /\ colaListo \in Seq(PCBs)
        /\ colaBloqueado \in Seq(Bloqueos)
    BY DEF TypeOK, Bloqueos
  <2>2. QED
    BY <2>1, ElementOfSeq, LenProperties
<1>3. Bloqueados \subseteq Bloqueados'
  <2> DEFINE I == {i \in LugaresDe(colaBloqueado, p) : colaBloqueado[i].semaforo = CRUDA}
  <2>1. I \in SUBSET DOMAIN colaBloqueado /\ \A i \in I : KBloqueado[colaBloqueado[i]] \in {0, 0}
    BY <1>2 DEF LugaresDe, KBloqueado
  <2>2. Quita(colaBloqueado, colaBloqueado', I)
    BY <1>1
  <2> HIDE DEF I
  <2>3. colaBloqueado \in Seq(Bloqueos)
    BY <1>2
  <2>4. Claves(colaBloqueado, KBloqueado) \subseteq Claves(colaBloqueado', KBloqueado) \cup {0}
    BY <2>1, <2>2, <2>3, ClavesTrasQuitar, Zenon
  <2>5. QED
    BY <2>4, SinElCero DEF Bloqueados
<1>4. Nuevos \subseteq Nuevos' \cup {p}
  <2> DEFINE I == {i \in DOMAIN colaNuevo : colaNuevo[i] = p}
  <2>1. I \in SUBSET DOMAIN colaNuevo /\ \A i \in I : KNuevo[colaNuevo[i]] \in {p, 0}
    BY <1>2 DEF KNuevo
  <2>2. Quita(colaNuevo, colaNuevo', I)
    BY <1>1
  <2> HIDE DEF I
  <2>3. colaNuevo \in Seq(Pids)
    BY <1>2
  <2>4. Claves(colaNuevo, KNuevo) \subseteq Claves(colaNuevo', KNuevo) \cup {p}
    BY <2>1, <2>2, <2>3, ClavesTrasQuitar, Zenon
  <2>5. QED
    BY <2>4 DEF Nuevos
<1>5. Listos \subseteq Listos' \cup {p}
  <2> DEFINE I == LugaresDe(colaListo, p)
  <2>1. I \in SUBSET DOMAIN colaListo /\ \A i \in I : KListo[colaListo[i]] \in {p, 0}
    BY <1>2 DEF LugaresDe, KListo
  <2>2. Quita(colaListo, colaListo', I)
    BY <1>1
  <2> HIDE DEF I
  <2>3. colaListo \in Seq(PCBs)
    BY <1>2
  <2>4. Claves(colaListo, KListo) \subseteq Claves(colaListo', KListo) \cup {p}
    BY <2>1, <2>2, <2>3, ClavesTrasQuitar, Zenon
  <2>5. QED
    BY <2>4 DEF Listos
<1>6. CASE /\ estado' = estado /\ colaNuevo' = colaNuevo /\ colaListo' = colaListo
           /\ colaBloqueado' = colaBloqueado
  <2>1. Activos' \subseteq Activos
    BY <1>6 DEF Activos, Creados
  <2>2. QED
    BY <1>3, <1>6, <2>1, ConLugarIgual
<1>7. CASE estado' = [estado EXCEPT ![p] = "FINALIZADO"]
  <2>1. estado \in [Pids -> {"ninguno", "NUEVO", "LISTO", "BLOQUEADO", "FINALIZADO"}]
    BY DEF TypeOK
  <2>2. Activos' \subseteq Activos \cup {p} /\ p \notin Activos'
    BY <1>7, <2>1 DEF Activos, Creados
  <2>3. NadieMasSale(p)
    BY <1>3, <1>4, <1>5 DEF NadieMasSale
  <2>4. QED
    BY <1>3, <2>2, <2>3, ConLugarTrasMover
<1>8. QED
  BY <1>1, <1>6, <1>7

Lugares == EnLaCola /\ LosActivosConLugar

MismosTienen ==
  \A d \in CPUs : (Tiene(d)' <=> Tiene(d)) /\ hilo'[d].pcb.pid = hilo[d].pcb.pid

LEMMA LugaresQuietos ==
  ASSUME Lugares, MismosTienen, Activos' \subseteq Activos,
         UNCHANGED << colaNuevo, colaListo, colaEjecutando, colaBloqueado >>,
         planificador.pid \in {planificador'.pid, 0}
  PROVE  Lugares'
<1>1. EnLaCola'
  BY EnLaColaIgual DEF Lugares, MismosTienen
<1>2. LosActivosConLugar'
  BY ConLugarIgual DEF Lugares, MismosTienen
<1>3. QED
  BY <1>1, <1>2 DEF Lugares

LEMMA LugaresTrasMover ==
  ASSUME Lugares, MismosTienen, colaEjecutando' = colaEjecutando, NEW x, NadieMasSale(x),
         Activos' \subseteq Activos \cup {x}, x \in Activos' => ConLugarTras(x)
  PROVE  Lugares'
<1>1. EnLaCola'
  BY EnLaColaIgual DEF Lugares, MismosTienen
<1>2. LosActivosConLugar'
  BY ConLugarTrasMover DEF Lugares, MismosTienen
<1>3. QED
  BY <1>1, <1>2 DEF Lugares

LEMMA LugaresTrasFinalizar ==
  ASSUME TypeOK, Lugares, MismosTienen, NEW p \in Pids, finalizarProceso(p),
         UNCHANGED << pidActual, rechazados, colaFinalizado, colaEjecutando, planificador >>
  PROVE  Lugares'
<1>1. EnLaCola'
  BY EnLaColaIgual DEF Lugares, MismosTienen
<1>2. LosActivosConLugar'
  BY ConLugarTrasFinalizar DEF Lugares, MismosTienen
<1>3. QED
  BY <1>1, <1>2 DEF Lugares

LEMMA MismosTienenDeTodos ==
  ASSUME \A c \in CPUs : EnFase(c), hilo' = hilo, canales' = canales,
         \A d \in CPUs : /\ cpu'[d].modo = cpu[d].modo /\ cpu'[d].pid = cpu[d].pid
                         /\ cpu'[d].desfasada = cpu[d].desfasada
                         /\ cpu'[d].quantum = cpu[d].quantum /\ cpu'[d].marca = cpu[d].marca
  PROVE  MismosTienen
BY MismasFases DEF MismosTienen

LEMMA LosOtrosTienen ==
  ASSUME NEW c \in CPUs, SoloDe(c)
  PROVE  \A d \in CPUs \ {c} : (Tiene(d)' <=> Tiene(d)) /\ hilo'[d].pcb.pid = hilo[d].pcb.pid
<1>1. \A d \in CPUs \ {c} : d \in Turnos' <=> d \in Turnos
  BY DEF SoloDe, Turnos
<1>2. ASSUME NEW d \in CPUs \ {c}
      PROVE  (Tiene(d)' <=> Tiene(d)) /\ hilo'[d].pcb.pid = hilo[d].pcb.pid
  BY <1>1 DEF Tiene, Entregando, SoloDe
<1>3. QED
  BY <1>2

LEMMA MismosTienenDeUno ==
  ASSUME NEW c \in CPUs, SoloDe(c), Tiene(c)' <=> Tiene(c),
         hilo'[c].pcb.pid = hilo[c].pcb.pid
  PROVE  MismosTienen
BY LosOtrosTienen DEF MismosTienen

LEMMA LugaresNadaCambia ==
  ASSUME FIFOInv, Lugares,
         UNCHANGED << colas, procesos, planificador, hilo, canales, cpu >>
  PROVE  Lugares'
<1>1. MismosTienen
  BY MismosTienenDeTodos DEF FIFOInv
<1>2. Activos' \subseteq Activos
  BY DEF Activos, Creados, procesos, colas
<1>3. QED
  BY <1>1, <1>2, LugaresQuietos DEF colas

LEMMA LugaresOperadores ==
  ASSUME FIFOInv, Lugares, Operadores
  PROVE  Lugares'
<1>1. TypeOK /\ \A c \in CPUs : EnFase(c)
  BY DEF FIFOInv, TipoInv
<1>2. CASE iniciarPCB
  <2> DEFINE x == pidActual
  <2>1. /\ x \in Pids /\ pidActual' = x + 1 /\ colaNuevo' = Append(colaNuevo, x)
        /\ estado' = [estado EXCEPT ![x] = "NUEVO"]
        /\ UNCHANGED << liberados, rechazados, colaListo, colaEjecutando, colaBloqueado,
                        colaFinalizado, canales, planificador, hilo, cpu >>
    BY <1>2 DEF iniciarPCB
  <2>2. x \in Nat /\ x # 0
    BY <2>1, LosPids
  <2> HIDE DEF x
  <2>3. Activos' \subseteq Activos \cup {x}
    <3>1. \A p \in Pids : p < pidActual' /\ p # x => p < pidActual
      BY <2>1, <2>2, LosPids DEF x
    <3>2. \A p \in Pids \ {x} : estado'[p] = estado[p]
      BY <1>1, <2>1 DEF TypeOK
    <3>3. QED
      BY <2>1, <3>1, <3>2 DEF Activos, Creados
  <2>4. Nuevos \subseteq Nuevos' /\ x \in Nuevos'
    <3>1. colaNuevo \in Seq(Pids) /\ KNuevo[x] = x
      BY <1>1, <2>1 DEF TypeOK, KNuevo
    <3>2. /\ Claves(colaNuevo, KNuevo) \subseteq Claves(Append(colaNuevo, x), KNuevo)
          /\ KNuevo[x] # 0 => KNuevo[x] \in Claves(Append(colaNuevo, x), KNuevo)
      BY <2>1, <3>1, ClavesCrecen
    <3>3. QED
      BY <2>1, <2>2, <3>1, <3>2 DEF Nuevos
  <2>5. NadieMasSale(x) /\ ConLugarTras(x)
    BY <2>1, <2>4 DEF NadieMasSale, ConLugarTras, EnColasFIFO, Listos, Bloqueados
  <2>6. MismosTienen
    BY <1>1, <2>1, MismosTienenDeTodos
  <2>7. QED
    BY <2>1, <2>3, <2>5, <2>6, LugaresTrasMover
<1>3. ASSUME NEW p \in Pids, finalizarPrograma(p)
      PROVE  Lugares'
  <2>1. /\ finalizarProceso(p)
        /\ UNCHANGED << pidActual, rechazados, colaEjecutando, colaFinalizado, canales,
                        planificador, hilo, cpu >>
    BY <1>3 DEF finalizarPrograma
  <2>2. MismosTienen
    BY <1>1, <2>1, MismosTienenDeTodos
  <2>3. QED
    BY <1>1, <2>1, <2>2, LugaresTrasFinalizar
<1>4. CASE \/ detenerPlanificacion \/ reanudarPlanificacion \/ modificarGradoMultiprogramacion
           \/ \E c \in CPUs : SIGUSR1(c)
  <2>1. /\ UNCHANGED << colas, procesos, planificador, hilo, canales >>
        /\ cpu' = cpu \/ \E c \in CPUs : SIGUSR1(c)
    BY <1>4 DEF detenerPlanificacion, reanudarPlanificacion,
       modificarGradoMultiprogramacion, SIGUSR1, SoloCPU
  <2>2. \A d \in CPUs : /\ cpu'[d].modo = cpu[d].modo /\ cpu'[d].pid = cpu[d].pid
                        /\ cpu'[d].desfasada = cpu[d].desfasada
                        /\ cpu'[d].quantum = cpu[d].quantum /\ cpu'[d].marca = cpu[d].marca
    BY <1>1, <2>1, EfectoSIGUSR1
  <2>3. MismosTienen
    BY <1>1, <2>1, <2>2, MismosTienenDeTodos
  <2>4. Activos' \subseteq Activos
    BY <2>1 DEF Activos, Creados, procesos, colas
  <2>5. QED
    BY <2>1, <2>3, <2>4, LugaresQuietos DEF colas
<1>5. QED
  BY <1>2, <1>3, <1>4 DEF Operadores

LEMMA LugaresPlanificador ==
  ASSUME FIFOInv, Lugares, planificarSistema
  PROVE  Lugares'
<1>1. TypeOK /\ \A c \in CPUs : EnFase(c)
  BY DEF FIFOInv, TipoInv
<1>2. /\ UNCHANGED << pidActual, estado, colaEjecutando, colaBloqueado, colaFinalizado,
                      hilo, canales, cpu >>
      /\ rechazados \subseteq rechazados'
  BY DEF planificarSistema, MirarNuevo, GradoCompleto, TomarNuevo, Admitir, Rechazar, Caer,
     procesos, colas
<1>3. MismosTienen
  BY <1>1, <1>2, MismosTienenDeTodos
<1>4. Activos' \subseteq Activos
  BY <1>2 DEF Activos, Creados
<1>5. planificador.paso # "pidiendo" => planificador.pid = 0
  BY <1>1 DEF TypeOK
<1>6. CASE /\ UNCHANGED << colaNuevo, colaListo >>
           /\ planificador' = planificador \/ planificador.paso # "pidiendo"
  BY <1>2, <1>3, <1>4, <1>5, <1>6, LugaresQuietos
<1>7. CASE TomarNuevo /\ colaNuevo # << >> /\ colaNuevo' = Tail(colaNuevo)
           /\ planificador'.pid = Head(colaNuevo) /\ colaListo' = colaListo
  <2> DEFINE q == Head(colaNuevo)
  <2>1. colaNuevo \in Seq(Pids) /\ q \in Pids /\ 1 \in DOMAIN colaNuevo /\ colaNuevo[1] = q
    <3>1. colaNuevo \in Seq(Pids)
      BY <1>1 DEF TypeOK
    <3>2. QED
      BY <1>7, <3>1, SacarElPrimero
  <2>2. Nuevos \subseteq Nuevos' \cup {q}
    <3>1. SinElLugar(colaNuevo, Tail(colaNuevo), 1)
      BY <1>7, <2>1, TomarDejaElResto
    <3>2. Claves(colaNuevo, KNuevo) \subseteq Claves(Tail(colaNuevo), KNuevo) \cup {KNuevo[colaNuevo[1]]}
      BY <2>1, <3>1, ClavesSinUna
    <3>3. KNuevo[colaNuevo[1]] = q
      BY <2>1 DEF KNuevo
    <3> HIDE DEF q
    <3>4. QED
      BY <1>7, <3>2, <3>3 DEF Nuevos
  <2>3. planificador.pid = 0
    BY <1>5, <1>7 DEF TomarNuevo
  <2>4. planificador'.pid = q
    BY <1>7
  <2> HIDE DEF q
  <2>5. NadieMasSale(q) /\ ConLugarTras(q)
    BY <1>2, <1>7, <2>2, <2>3, <2>4
       DEF NadieMasSale, ConLugarTras, EnColasFIFO, Listos, Bloqueados
  <2>6. QED
    BY <1>2, <1>3, <1>4, <2>5, LugaresTrasMover
<1>8. CASE Admitir
  <2> DEFINE q == planificador.pid
             e == Original(planificador.pid)
  <2>1. /\ colaNuevo' = colaNuevo /\ colaListo' = Append(colaListo, e)
        /\ q \in Pids /\ e \in PCBs /\ e.pid = q /\ colaListo \in Seq(PCBs)
    <3>1. planificador.paso = "pidiendo"
      BY <1>8 DEF Admitir
    <3>2. q \in Pids
      BY <1>1, <3>1 DEF TypeOK
    <3>3. QED
      BY <1>1, <1>8, <3>2 DEF Admitir, Original, PCBs, TypeOK
  <2>2. KListo[e] = q /\ q # 0
    BY <2>1, LosPids DEF KListo
  <2> HIDE DEF e
  <2>3. Listos \subseteq Listos' /\ q \in Listos'
    <3>1. /\ Claves(colaListo, KListo) \subseteq Claves(Append(colaListo, e), KListo)
          /\ KListo[e] # 0 => KListo[e] \in Claves(Append(colaListo, e), KListo)
      BY <2>1, ClavesCrecen
    <3>2. QED
      BY <2>1, <2>2, <3>1 DEF Listos
  <2>4. NadieMasSale(q) /\ ConLugarTras(q)
    BY <1>2, <2>1, <2>3 DEF NadieMasSale, ConLugarTras, EnColasFIFO, Nuevos, Bloqueados
  <2>5. QED
    BY <1>2, <1>3, <1>4, <2>4, LugaresTrasMover
<1>9. CASE Rechazar
  <2> DEFINE q == planificador.pid
  <2>1. UNCHANGED << colaNuevo, colaListo >> /\ q \in rechazados'
    BY <1>9 DEF Rechazar, colas
  <2>2. q \notin Activos'
    BY <2>1 DEF Activos
  <2>3. NadieMasSale(q)
    BY <1>2, <2>1 DEF NadieMasSale, Nuevos, Listos, Bloqueados
  <2>4. QED
    BY <1>2, <1>3, <1>4, <2>2, <2>3, LugaresTrasMover
<1>10. QED
  <2>1. CASE MirarNuevo \/ GradoCompleto
    BY <1>6, <2>1 DEF MirarNuevo, GradoCompleto, colas
  <2>2. CASE TomarNuevo
    <3>1. \/ UNCHANGED << colaNuevo, colaListo >> /\ planificador' = planificador
          \/ /\ colaNuevo # << >> /\ colaNuevo' = Tail(colaNuevo)
             /\ planificador'.pid = Head(colaNuevo) /\ colaListo' = colaListo
      BY <2>2 DEF TomarNuevo, Caer, colas
    <3>2. QED
      BY <1>6, <1>7, <2>2, <3>1
  <2>3. QED
    BY <1>8, <1>9, <2>1, <2>2 DEF planificarSistema

LEMMA LugaresCicloCPU ==
  ASSUME FIFOInv, Lugares, QUANTUM = -1, NEW c \in CPUs, CicloCPU(c)
  PROVE  Lugares'
<1>1. UNCHANGED SoloCPU /\ SoloDe(c) /\ (Tiene(c)' <=> Tiene(c))
  BY TrasCicloCPU DEF FIFOInv
<1>2. UNCHANGED << colas, procesos, planificador, hilo >>
  BY <1>1 DEF SoloCPU
<1>3. MismosTienen
  BY <1>1, <1>2, MismosTienenDeUno
<1>4. Activos' \subseteq Activos
  BY <1>2 DEF Activos, Creados, procesos, colas
<1>5. QED
  BY <1>2, <1>3, <1>4, LugaresQuietos DEF colas

(* The thread of a CPU.  Taking a ready process puts it in colaEjecutando, *)
(* unless the entries of earlier turns are already there.                  *)
LEMMA EstaAlPoner ==
  ASSUME NEW s \in Seq(PCBs), NEW e \in PCBs, NEW t,
         t = PonerAcotado(s, e, {i \in DOMAIN s : s[i].pid = e.pid})
  PROVE  EstaEn(t, e.pid) /\ \A p : EstaEn(s, p) => EstaEn(t, p)
<1> DEFINE I == {i \in DOMAIN s : s[i].pid = e.pid}
<1>1. CASE t = s /\ Cardinality(I) >= MaxRepetidas
  <2>1. Cardinality({}) = 0 /\ MaxRepetidas \in Nat \ {0}
    BY FS_EmptySet, ConfigAssumption
  <2>2. Cardinality(I) # 0
    <3> HIDE DEF I
    <3>1. QED
      BY <1>1, <2>1
  <2>3. I # {}
    BY <2>1, <2>2
  <2>4. QED
    BY <1>1, <2>3 DEF EstaEn
<1>2. CASE t = Append(s, e)
  <2>1. /\ DOMAIN Append(s, e) = DOMAIN s \cup {Len(s) + 1}
        /\ Append(s, e)[Len(s) + 1] = e
        /\ \A i \in DOMAIN s : Append(s, e)[i] = s[i]
    BY PonerAlFinal
  <2>2. QED
    BY <1>2, <2>1 DEF EstaEn
<1>3. QED
  BY <1>1, <1>2 DEF PonerAcotado

LEMMA LugaresTomarListo ==
  ASSUME FIFOInv, Lugares, NEW c \in CPUs, TomarListo(c), colaListo # << >>
  PROVE  Lugares' /\ Tiene(c)'
<1> DEFINE e == Head(colaListo)
<1>1. TypeOK /\ EnFase(c)
  BY DEF FIFOInv, TipoInv
<1>2. /\ e \in PCBs /\ e.pid \in Pids /\ colaListo' = Tail(colaListo)
      /\ colaEjecutando' = PonerEjecutando(e)
      /\ SoloEnHilo(c) /\ hilo'[c].paso = "atendiendo" /\ hilo'[c].pcb = e
      /\ enviarPCB(c, e.pid)
      /\ UNCHANGED << colaNuevo, colaBloqueado, colaFinalizado, procesos, planificador, cpu >>
  BY <1>1, EfectoTomarListo
<1>3. colaListo \in Seq(PCBs) /\ 1 \in DOMAIN colaListo /\ colaListo[1] = e
  <2>1. colaListo \in Seq(PCBs)
    BY <1>1 DEF TypeOK
  <2>2. QED
    BY <2>1, SacarElPrimero DEF TomarListo
<1>4. /\ SoloEnACPU(c) /\ aKernel' = aKernel
      /\ aCPU'[c] = Append(aCPU[c], [tipo |-> "MENSAJE_PCB", pid |-> e.pid])
  BY <1>1, <1>2, EfectoEnviarPCB
<1>5. c \notin Turnos /\ c \in Turnos'
  BY <1>2 DEF Turnos, TomarListo
<1>6. aKernel[c] = << >> /\ aCPU[c] = << >> /\ cpu[c].modo \in {"libre", "muerta"}
  BY <1>1, <1>5 DEF EnFase
<1>7. \A y : Append(<< >>, y) = <<y>>
  OBVIOUS
<1>8. KListo[colaListo[1]] = e.pid
  BY <1>2, <1>3 DEF KListo
<1>9. Listos \subseteq Listos' \cup {e.pid}
  <2>1. SinElLugar(colaListo, Tail(colaListo), 1)
    BY <1>3, TomarDejaElResto
  <2>2. Claves(colaListo, KListo)
          \subseteq Claves(Tail(colaListo), KListo) \cup {KListo[colaListo[1]]}
    BY <1>3, <2>1, ClavesSinUna
  <2>3. QED
    BY <1>2, <1>8, <2>2 DEF Listos
<1> HIDE DEF e
<1>10. Tiene(c)'
  <2>1. PCBEnviada(c)'
    BY <1>2, <1>4, <1>6, <1>7 DEF PCBEnviada
  <2>2. ~Entregando(c)'
    BY <2>1, EntregaTrasElPaso DEF EntregasEnFase, EntregaEnFase
  <2>3. QED
    BY <1>5, <2>2 DEF Tiene
<1>11. SoloDe(c)
  BY <1>2, <1>4 DEF SoloDe, SoloEnHilo, SoloEnACPU
<1>12. \A d \in CPUs \ {c} : (Tiene(d)' <=> Tiene(d)) /\ hilo'[d].pcb.pid = hilo[d].pcb.pid
  BY <1>11, LosOtrosTienen
<1>13. EnLaCola'
  <2>1. EstaEn(colaEjecutando', e.pid) /\ \A p : EstaEn(colaEjecutando, p) => EstaEn(colaEjecutando', p)
    <3>1. colaEjecutando \in Seq(PCBs)
      BY <1>1 DEF TypeOK
    <3>2. QED
      BY <1>2, <3>1, EstaAlPoner DEF PonerEjecutando
  <2>2. \A d \in CPUs : Tiene(d)' => EstaEn(colaEjecutando', hilo'[d].pcb.pid)
    BY <1>2, <1>12, <2>1 DEF Lugares, EnLaCola
  <2>3. QED
    BY <2>2 DEF EnLaCola, EstaEn
<1>14. LosActivosConLugar'
  <2>1. NadieMasSale(e.pid)
    BY <1>2, <1>9 DEF NadieMasSale, Nuevos, Bloqueados
  <2>2. Activos' \subseteq Activos \cup {e.pid}
    BY <1>2 DEF Activos, Creados, procesos
  <2>3. ConLugarTras(e.pid)
    BY <1>2, <1>10 DEF ConLugarTras
  <2>4. \A d \in CPUs : Tiene(d) =>
          hilo[d].pcb.pid = e.pid \/ (Tiene(d)' /\ hilo'[d].pcb.pid = hilo[d].pcb.pid)
    BY <1>5, <1>12 DEF Tiene
  <2>5. QED
    BY <2>1, <2>2, <2>3, <2>4, ConLugarTrasMover DEF Lugares
<1>15. QED
  BY <1>10, <1>13, <1>14 DEF Lugares

(* A wait leaves the process in the turn, or moves it to colaBloqueado:    *)
(* an entry of it was in colaEjecutando.                                   *)
LEMMA LugaresWait ==
  ASSUME FIFOInv, Lugares, NEW c \in CPUs, waitSemaforo(c)
  PROVE  /\ Lugares'
         /\ LET m == Head(aKernel[c]) IN
            \/ /\ EstaLibre(valorSemaforo[m.semaforo]) /\ colaBloqueado' = colaBloqueado
               /\ Tiene(c)'
            \/ /\ ~EstaLibre(valorSemaforo[m.semaforo])
               /\ colaBloqueado' = Append(colaBloqueado, [pid |-> m.pid, semaforo |-> m.semaforo])
               /\ [pid |-> m.pid, semaforo |-> m.semaforo] \in Bloqueos
               /\ hilo'[c].pcb.pid \in Bloqueados' /\ aKernel'[c] = << >>
<1> DEFINE m == Head(aKernel[c])
           x == m.pid
           s == m.semaforo
<1>1. TypeOK /\ UnLugar /\ EnFase(c)
  BY DEF FIFOInv, TipoInv
<1>2. /\ x \in Pids /\ s \in Semaforos
      /\ aKernel[c] # << >> /\ m.tipo = "WAIT_SEMAFORO" /\ Recibido(c)
      /\ hilo[c].paso = "atendiendo"
      /\ SoloEnHilo(c) /\ hilo'[c].paso = "restando" /\ hilo'[c].pcb = hilo[c].pcb
  BY <1>1, EfectoDeWait
<1>3. \/ /\ EstaLibre(valorSemaforo[s]) /\ Notificar(c, "NO_BLOQUEO_POR_SEMAFORO")
         /\ UNCHANGED << colaBloqueado, colaEjecutando, estado >>
      \/ ~EstaEn(colaEjecutando, x) /\ aCPU' = aCPU
      \/ /\ ~EstaLibre(valorSemaforo[s]) /\ Notificar(c, "BLOQUEO_POR_SEMAFORO")
         /\ colaBloqueado' = Append(colaBloqueado, [pid |-> x, semaforo |-> s])
         /\ [pid |-> x, semaforo |-> s] \in Bloqueos
         /\ \E i \in LugaresDe(colaEjecutando, x) :
              /\ colaEjecutando' = RemoveAt(colaEjecutando, i)
              /\ estado' = IF colaEjecutando[i].original
                           THEN [estado EXCEPT ![x] = "BLOQUEADO"] ELSE estado
  BY <1>1, EfectoDeWait
<1>4. SoloEnAKernel(c) /\ aKernel[c] \in Seq(Mensajes) /\ aKernel'[c] = Tail(aKernel[c])
  BY <1>1, <1>2, EfectoRecibido
<1>5. /\ UNCHANGED << pidActual, rechazados, colaNuevo, colaListo, colaFinalizado,
                      planificador, cpu >>
  BY DEF waitSemaforo
<1>6. \A a \in Avisos : Notificar(c, a) =>
        SoloEnACPU(c) /\ aCPU'[c] = Append(aCPU[c], [tipo |-> a, pid |-> 0])
  BY <1>1, EfectoNotificar
<1>7. "NO_BLOQUEO_POR_SEMAFORO" \in Avisos /\ "BLOQUEO_POR_SEMAFORO" \in Avisos
  BY DEF Avisos
<1>8. aCPU' = aCPU \/ \E a \in Avisos :
        SoloEnACPU(c) /\ aCPU'[c] = Append(aCPU[c], [tipo |-> a, pid |-> 0])
  BY <1>3, <1>6, <1>7
<1>9. SoloDe(c)
  BY <1>2, <1>4, <1>5, <1>8 DEF SoloDe, SoloEnHilo, SoloEnAKernel, SoloEnACPU
<1>10. c \in Turnos /\ c \in Turnos'
  BY <1>2 DEF Turnos
<1> HIDE DEF m, x, s
<1>11. /\ Tiene(c) /\ x = hilo[c].pcb.pid /\ aKernel'[c] = << >>
       /\ Tiene(c)' => aCPU'[c] # Append(aCPU[c], [tipo |-> "BLOQUEO_POR_SEMAFORO", pid |-> 0])
       /\ Tiene(c)' \/ aCPU'[c] = Append(aCPU[c], [tipo |-> "BLOQUEO_POR_SEMAFORO", pid |-> 0])
  BY <1>1, <1>2, <1>4, <1>5, <1>8, <1>10, FaseTrasWait DEF m, x
<1>12. EstaEn(colaEjecutando, x)
  BY <1>11 DEF Lugares, EnLaCola
<1>13. CASE /\ EstaLibre(valorSemaforo[s]) /\ Notificar(c, "NO_BLOQUEO_POR_SEMAFORO")
            /\ UNCHANGED << colaBloqueado, colaEjecutando, estado >>
  <2>1. Tiene(c)'
    <3> DEFINE no == [tipo |-> "NO_BLOQUEO_POR_SEMAFORO", pid |-> 0]
               si == [tipo |-> "BLOQUEO_POR_SEMAFORO", pid |-> 0]
    <3>1. aCPU[c] \in Seq(Envios) /\ no \in Envios /\ si \in Envios /\ no # si
      BY <1>1, <1>7 DEF TypeOK, Envios
    <3>2. aCPU'[c] = Append(aCPU[c], no)
      BY <1>6, <1>7, <1>13
    <3> HIDE DEF no, si
    <3>3. Append(aCPU[c], no) # Append(aCPU[c], si)
      <4>1. \A e \in Envios : Append(aCPU[c], e)[Len(aCPU[c]) + 1] = e
        BY <3>1, PonerAlFinal
      <4>2. QED
        BY <3>1, <4>1
    <3>4. QED
      BY <1>11, <3>2, <3>3 DEF si
  <2>2. MismosTienen
    BY <1>2, <1>9, <1>11, <2>1, MismosTienenDeUno
  <2>3. Activos' \subseteq Activos
    BY <1>5, <1>13 DEF Activos, Creados
  <2>4. Lugares'
    BY <1>5, <1>13, <2>2, <2>3, LugaresQuietos
  <2>5. QED
    BY <1>13, <2>1, <2>4 DEF s, m
<1>14. CASE /\ ~EstaLibre(valorSemaforo[s]) /\ Notificar(c, "BLOQUEO_POR_SEMAFORO")
            /\ colaBloqueado' = Append(colaBloqueado, [pid |-> x, semaforo |-> s])
            /\ [pid |-> x, semaforo |-> s] \in Bloqueos
            /\ \E i \in LugaresDe(colaEjecutando, x) :
                 /\ colaEjecutando' = RemoveAt(colaEjecutando, i)
                 /\ estado' = IF colaEjecutando[i].original
                              THEN [estado EXCEPT ![x] = "BLOQUEADO"] ELSE estado
  <2> DEFINE e == [pid |-> x, semaforo |-> s]
  <2>1. e \in Bloqueos /\ e.pid = x /\ e.semaforo # CRUDA /\ colaBloqueado' = Append(colaBloqueado, e)
    BY <1>2, <1>14, SemaforosAssumption
  <2> HIDE DEF e
  <2>2. KBloqueado[e] = x /\ x # 0
    BY <1>2, <2>1, LosPids DEF KBloqueado
  <2>3. Bloqueados \subseteq Bloqueados' /\ x \in Bloqueados'
    <3>1. colaBloqueado \in Seq(Bloqueos)
      BY <1>1 DEF TypeOK, Bloqueos
    <3>2. /\ Claves(colaBloqueado, KBloqueado) \subseteq Claves(Append(colaBloqueado, e), KBloqueado)
          /\ KBloqueado[e] # 0 => KBloqueado[e] \in Claves(Append(colaBloqueado, e), KBloqueado)
      BY <2>1, <3>1, ClavesCrecen
    <3>3. QED
      BY <2>1, <2>2, <3>2 DEF Bloqueados
  <2>4. \A d \in CPUs \ {c} : (Tiene(d)' <=> Tiene(d)) /\ hilo'[d].pcb.pid = hilo[d].pcb.pid
    BY <1>9, LosOtrosTienen
  <2>5. ~Tiene(c)'
    BY <1>6, <1>7, <1>11, <1>14
  <2>6. EnLaCola'
    <3>1. \A d \in CPUs \ {c} : Tiene(d) => hilo[d].pcb.pid # x
      BY <1>1, <1>11 DEF UnLugar
    <3>2. ASSUME NEW p, p # x, EstaEn(colaEjecutando, p)
          PROVE  EstaEn(colaEjecutando', p)
      <4> DEFINE I == LugaresDe(colaEjecutando, x)
      <4>1. I \in SUBSET DOMAIN colaEjecutando /\ colaEjecutando \in Seq(PCBs)
        BY <1>1 DEF LugaresDe, TypeOK
      <4>2. Quita(colaEjecutando, colaEjecutando', I)
        BY <1>14 DEF Quita
      <4>3. PICK k \in DOMAIN colaEjecutando : colaEjecutando[k].pid = p
        BY <3>2 DEF EstaEn
      <4>4. k \in DOMAIN colaEjecutando \ I
        BY <3>2, <4>3 DEF LugaresDe
      <4> HIDE DEF I
      <4>5. \E j \in DOMAIN colaEjecutando' : colaEjecutando'[j] = colaEjecutando[k]
        BY <4>1, <4>2, <4>4, SacarQuita
      <4>6. QED
        BY <4>3, <4>5 DEF EstaEn
    <3>3. \A d \in CPUs : Tiene(d)' => EstaEn(colaEjecutando', hilo'[d].pcb.pid)
      BY <2>4, <2>5, <3>1, <3>2 DEF Lugares, EnLaCola
    <3>4. QED
      BY <3>3 DEF EnLaCola, EstaEn
  <2>7. LosActivosConLugar'
    <3>1. NadieMasSale(x)
      BY <1>5, <2>3 DEF NadieMasSale, Nuevos, Listos
    <3>2. Activos' \subseteq Activos \cup {x}
      <4>1. \A p \in Pids \ {x} : estado'[p] = estado[p]
        BY <1>1, <1>14 DEF TypeOK
      <4>2. QED
        BY <1>5, <4>1 DEF Activos, Creados
    <3>3. ConLugarTras(x)
      BY <2>3 DEF ConLugarTras, EnColasFIFO
    <3>4. \A d \in CPUs : Tiene(d) =>
            hilo[d].pcb.pid = x \/ (Tiene(d)' /\ hilo'[d].pcb.pid = hilo[d].pcb.pid)
      <4>1. hilo[c].pcb.pid = x
        BY <1>11
      <4>2. QED
        BY <2>4, <4>1
    <3>5. QED
      BY <3>1, <3>2, <3>3, <3>4, ConLugarTrasMover DEF Lugares
  <2>8. hilo'[c].pcb.pid \in Bloqueados'
    BY <1>2, <1>11, <2>3
  <2>9. Lugares'
    BY <2>6, <2>7 DEF Lugares
  <2>10. QED
    BY <1>11, <1>14, <2>8, <2>9 DEF x, s, m
<1>15. QED
  BY <1>3, <1>12, <1>13, <1>14

(* A signal takes the first process blocked by the semaphore to colaListo. *)
LEMMA LugaresSignal ==
  ASSUME FIFOInv, Lugares, NEW c \in CPUs, signalSemaforo(c), kernel' = kernel, kernel = "vivo"
  PROVE  Lugares' /\ (Tiene(c)' <=> Tiene(c))
<1> DEFINE m == Head(aKernel[c])
<1>1. TypeOK /\ EnFase(c)
  BY DEF FIFOInv, TipoInv
<1>2. /\ m.semaforo \in Semaforos
      /\ aKernel[c] # << >> /\ m.tipo = "SIGNAL_SEMAFORO" /\ Recibido(c)
      /\ hilo[c].paso = "atendiendo"
      /\ SoloEnHilo(c) /\ hilo'[c].paso = "sumando" /\ hilo'[c].pcb = hilo[c].pcb
      /\ UNCHANGED << colaNuevo, colaEjecutando, colaFinalizado, pidActual,
                      rechazados, aCPU, planificador, cpu >>
  BY <1>1, EfectoDeSignal
<1>3. \/ \E i \in DOMAIN colaBloqueado :
           /\ colaBloqueado[i].semaforo = m.semaforo /\ colaBloqueado[i].pid \in Pids
           /\ Original(colaBloqueado[i].pid) \in PCBs
           /\ colaBloqueado' = RemoveAt(colaBloqueado, i)
           /\ colaListo' = Append(colaListo, Original(colaBloqueado[i].pid))
           /\ estado' = [estado EXCEPT ![colaBloqueado[i].pid] = "LISTO"]
      \/ UNCHANGED << estado, colaListo, colaBloqueado >>
  BY <1>1, EfectoDeSignal
<1>4. SoloEnAKernel(c) /\ aKernel[c] \in Seq(Mensajes) /\ aKernel'[c] = Tail(aKernel[c])
  BY <1>1, <1>2, EfectoRecibido
<1>5. SoloDe(c)
  BY <1>2, <1>4 DEF SoloDe, SoloEnHilo, SoloEnAKernel
<1>6. c \in Turnos /\ c \in Turnos'
  BY <1>2 DEF Turnos
<1>7. Tiene(c)' <=> Tiene(c)
  BY <1>1, <1>2, <1>4, <1>6, FaseTrasSignal
<1>8. MismosTienen
  BY <1>2, <1>5, <1>7, MismosTienenDeUno
<1> HIDE DEF m
<1>9. CASE UNCHANGED << estado, colaListo, colaBloqueado >>
  <2>1. Activos' \subseteq Activos
    BY <1>2, <1>9 DEF Activos, Creados
  <2>2. QED
    BY <1>2, <1>7, <1>8, <1>9, <2>1, LugaresQuietos
<1>10. ASSUME NEW i \in DOMAIN colaBloqueado, colaBloqueado[i].pid \in Pids,
              Original(colaBloqueado[i].pid) \in PCBs,
              colaBloqueado[i].semaforo = m.semaforo,
              colaBloqueado' = RemoveAt(colaBloqueado, i),
              colaListo' = Append(colaListo, Original(colaBloqueado[i].pid)),
              estado' = [estado EXCEPT ![colaBloqueado[i].pid] = "LISTO"]
       PROVE  Lugares'
  <2> DEFINE x == colaBloqueado[i].pid
             e == Original(x)
  <2>1. /\ colaBloqueado \in Seq(Bloqueos) /\ colaBloqueado[i] \in Bloqueos
        /\ colaListo \in Seq(PCBs)
    <3>1. colaBloqueado \in Seq(Bloqueos) /\ colaListo \in Seq(PCBs)
      BY <1>1 DEF TypeOK, Bloqueos
    <3>2. QED
      BY <1>10, <3>1, ElementOfSeq, LenProperties
  <2>2. x \in Pids /\ x # 0 /\ e \in PCBs /\ e.pid = x /\ colaListo' = Append(colaListo, e)
    BY <1>10, LosPids DEF Original
  <2>3. KBloqueado[colaBloqueado[i]] = x /\ KListo[e] = x
    BY <1>2, <1>10, <2>1, <2>2, SemaforosAssumption DEF KBloqueado, KListo
  <2>4. Bloqueados \subseteq Bloqueados' \cup {x}
    <3>1. SinElLugar(colaBloqueado, RemoveAt(colaBloqueado, i), i)
      BY <1>10, <2>1, SacarDejaElResto
    <3>2. Claves(colaBloqueado, KBloqueado)
            \subseteq Claves(RemoveAt(colaBloqueado, i), KBloqueado) \cup {KBloqueado[colaBloqueado[i]]}
      BY <1>10, <3>1, ClavesSinUna
    <3>3. QED
      BY <1>10, <2>3, <3>2 DEF Bloqueados
  <2>5. \A p \in Pids \ {x} : estado'[p] = estado[p]
    BY <1>1, <1>10 DEF TypeOK
  <2> HIDE DEF x, e
  <2>6. Listos \subseteq Listos' /\ x \in Listos'
    <3>1. /\ Claves(colaListo, KListo) \subseteq Claves(Append(colaListo, e), KListo)
          /\ KListo[e] # 0 => KListo[e] \in Claves(Append(colaListo, e), KListo)
      BY <2>1, <2>2, ClavesCrecen
    <3>2. QED
      BY <2>2, <2>3, <3>1 DEF Listos
  <2>7. NadieMasSale(x) /\ ConLugarTras(x)
    BY <1>2, <2>4, <2>6 DEF NadieMasSale, ConLugarTras, EnColasFIFO, Nuevos
  <2>8. Activos' \subseteq Activos \cup {x}
    BY <1>2, <2>5 DEF Activos, Creados
  <2>9. QED
    BY <1>2, <1>8, <2>7, <2>8, LugaresTrasMover
<1>11. QED
  BY <1>3, <1>7, <1>9, <1>10

(* The message that ends the turn: the process has ended, or a semaphore   *)
(* blocked it before.                                                      *)
LEMMA LugaresFinDeTurno ==
  ASSUME FIFOInv, Lugares, NEW c \in CPUs, FinDeTurno(c)
  PROVE  Lugares'
<1> DEFINE m == Head(aKernel[c])
<1>1. TypeOK /\ EnFase(c)
  BY DEF FIFOInv, TipoInv
<1>2. /\ aKernel[c] # << >> /\ Recibido(c) /\ m.pid \in Pids
      /\ hilo[c].paso = "atendiendo"
      /\ SoloEnHilo(c) /\ hilo'[c].paso = "buscando"
      /\ UNCHANGED << colaNuevo, colaEjecutando, procesos, aCPU, planificador, cpu >>
  BY <1>1, EfectoDeFinDeTurno
<1>3. \/ /\ m.tipo \in {"PROCESO_ABORTADO", "PROCESO_FINALIZADO"}
         /\ colaFinalizado' = colaFinalizado \cup {m.pid}
         /\ UNCHANGED << colaListo, colaBloqueado >>
      \/ /\ m.tipo = "PROCESO_BLOQUEADO" /\ UNCHANGED << colaListo, colaFinalizado >>
         /\ \/ /\ [pid |-> m.pid, semaforo |-> CRUDA] \in Bloqueos
               /\ colaBloqueado' = Append(colaBloqueado, [pid |-> m.pid, semaforo |-> CRUDA])
            \/ colaBloqueado' = colaBloqueado
      \/ m.tipo = "PROCESO_FINALIZO_RAFAGA"
  BY <1>1, EfectoDeFinDeTurno
<1>4. /\ SoloEnAKernel(c) /\ aKernel[c] \in Seq(Mensajes) /\ aKernel'[c] = Tail(aKernel[c])
  BY <1>1, <1>2, EfectoRecibido
<1>5. SoloDe(c)
  BY <1>2, <1>4 DEF SoloDe, SoloEnHilo, SoloEnAKernel
<1>6. c \in Turnos /\ c \notin Turnos'
  BY <1>2 DEF Turnos
<1>7. m.tipo \notin {"SIGNAL_SEMAFORO", "WAIT_SEMAFORO"}
  BY <1>3
<1>8. ~Tiene(c)' /\ m.tipo \in Marcas
  BY <1>1, <1>2, <1>4, <1>6, <1>7, FaseTrasElTurno
<1>9. m.pid = hilo[c].pcb.pid
  BY <1>1, <1>2, <1>4, <1>6, UnoMenosEnElCanal DEF EnFase
<1>10. m.tipo = "PROCESO_BLOQUEADO" => ~Tiene(c)
  <2>1. 1 \in DOMAIN aKernel[c] /\ aKernel[c][1] = m
    BY <1>2, <1>4, SacarElPrimero
  <2>2. QED
    BY <2>1 DEF Tiene, Entregando, Hay
<1> HIDE DEF m
<1>11. \A d \in CPUs \ {c} : (Tiene(d)' <=> Tiene(d)) /\ hilo'[d].pcb.pid = hilo[d].pcb.pid
  BY <1>5, LosOtrosTienen
<1>12. EnLaCola'
  <2>1. \A d \in CPUs : Tiene(d)' => Tiene(d) /\ hilo'[d].pcb.pid = hilo[d].pcb.pid
    BY <1>8, <1>11
  <2>2. QED
    BY <1>2, <2>1, EnLaColaIgual DEF Lugares
<1>13. /\ Nuevos' = Nuevos /\ Listos' = Listos /\ Bloqueados \subseteq Bloqueados'
  <2>1. CASE colaBloqueado' = colaBloqueado
    BY <1>2, <1>3, <1>8, <2>1 DEF Marcas, Nuevos, Listos, Bloqueados
  <2>2. CASE /\ [pid |-> m.pid, semaforo |-> CRUDA] \in Bloqueos
             /\ colaBloqueado' = Append(colaBloqueado, [pid |-> m.pid, semaforo |-> CRUDA])
    <3> DEFINE e == [pid |-> m.pid, semaforo |-> CRUDA]
    <3>1. e \in Bloqueos /\ colaBloqueado' = Append(colaBloqueado, e)
      BY <2>2
    <3> HIDE DEF e
    <3>2. colaBloqueado \in Seq(Bloqueos)
      BY <1>1 DEF TypeOK, Bloqueos
    <3>3. Claves(colaBloqueado, KBloqueado) \subseteq Claves(Append(colaBloqueado, e), KBloqueado)
      BY <3>1, <3>2, ClavesCrecen
    <3>4. colaListo' = colaListo
      BY <1>3, <1>8 DEF Marcas
    <3>5. QED
      BY <1>2, <3>1, <3>3, <3>4 DEF Nuevos, Listos, Bloqueados
  <2>3. QED
    BY <1>3, <1>8, <2>1, <2>2 DEF Marcas
<1>14. LosActivosConLugar'
  <2> DEFINE x == IF m.tipo = "PROCESO_BLOQUEADO" THEN 0 ELSE m.pid
  <2>1. x \notin Activos'
    <3>1. 0 \notin Activos'
      BY LosPids DEF Activos, Creados
    <3>2. m.tipo # "PROCESO_BLOQUEADO" => m.pid \notin Activos'
      BY <1>3, <1>8 DEF Activos, Marcas
    <3>3. QED
      BY <3>1, <3>2
  <2>2. \A d \in CPUs : Tiene(d) =>
          hilo[d].pcb.pid = x \/ (Tiene(d)' /\ hilo'[d].pcb.pid = hilo[d].pcb.pid)
    BY <1>9, <1>10, <1>11
  <2> HIDE DEF x
  <2>3. Activos' \subseteq Activos \cup {x}
    BY <1>2, <1>3, <1>8 DEF Activos, Creados, procesos, Marcas
  <2>4. NadieMasSale(x)
    BY <1>2, <1>13 DEF NadieMasSale
  <2>5. QED
    BY <2>1, <2>2, <2>3, <2>4, ConLugarTrasMover DEF Lugares
<1>15. QED
  BY <1>12, <1>14 DEF Lugares

LEMMA LugaresInexistente ==
  ASSUME FIFOInv, Lugares, NEW c \in CPUs, NEW tipo \in {"WAIT_SEMAFORO", "SIGNAL_SEMAFORO"},
         SemaforoInexistente(c, tipo)
  PROVE  Lugares' /\ (Tiene(c)' <=> Tiene(c))
<1> DEFINE m == Head(aKernel[c])
<1>1. TypeOK /\ EnFase(c)
  BY DEF FIFOInv, TipoInv
<1>2. /\ aKernel[c] # << >> /\ Recibido(c) /\ m.tipo = tipo /\ m.pid \in Pids
      /\ finalizarProceso(m.pid) /\ hilo[c].paso = "atendiendo"
      /\ UNCHANGED << pidActual, rechazados, colaEjecutando, colaFinalizado, aCPU,
                      planificador, hilo, cpu >>
  BY <1>1, EfectoDeInexistente DEF SemaforoInexistente, Atendiendo
<1>3. SoloEnAKernel(c) /\ aKernel[c] \in Seq(Mensajes) /\ aKernel'[c] = Tail(aKernel[c])
  BY <1>1, <1>2, EfectoRecibido
<1>4. SoloDe(c)
  BY <1>2, <1>3 DEF SoloDe, SoloEnAKernel
<1>5. c \in Turnos /\ c \in Turnos'
  BY <1>2 DEF Turnos
<1>6. Tiene(c)' <=> Tiene(c)
  <2>1. CASE tipo = "SIGNAL_SEMAFORO"
    BY <1>1, <1>2, <1>3, <1>5, <2>1, FaseTrasSignal
  <2>2. CASE tipo = "WAIT_SEMAFORO"
    <3>1. /\ Tiene(c)
          /\ Tiene(c)' \/ aCPU'[c] = Append(aCPU[c], [tipo |-> "BLOQUEO_POR_SEMAFORO", pid |-> 0])
      BY <1>1, <1>2, <1>3, <1>5, <2>2, FaseTrasWait
    <3> DEFINE e == [tipo |-> "BLOQUEO_POR_SEMAFORO", pid |-> 0]
    <3>2. aCPU[c] \in Seq(Envios) /\ e \in Envios
      BY <1>1 DEF TypeOK, Envios, Avisos
    <3> HIDE DEF e
    <3>3. Append(aCPU[c], e) # aCPU[c]
      <4>1. Len(Append(aCPU[c], e)) = Len(aCPU[c]) + 1 /\ Len(aCPU[c]) \in Nat
        BY <3>2, PonerAlFinal, LenProperties
      <4>2. QED
        BY <4>1
    <3>4. QED
      BY <1>2, <3>1, <3>3 DEF e
  <2>3. QED
    BY <2>1, <2>2
<1>7. MismosTienen
  BY <1>2, <1>4, <1>6, MismosTienenDeUno
<1> HIDE DEF m
<1>8. QED
  BY <1>1, <1>2, <1>6, <1>7, LugaresTrasFinalizar

LEMMA LugaresManejador ==
  ASSUME FIFOInv, Primeros, Lugares, NEW c \in CPUs, manejadorCPU(c), kernel = "vivo"
  PROVE  Lugares'
<1>1. TypeOK /\ EnFase(c) /\ estadoPlanificacionesSistema
  BY DEF FIFOInv, TipoInv
<1>2. ASSUME Caer
      PROVE  Lugares'
  BY <1>2, LugaresNadaCambia DEF Caer
<1>3. CASE MirarListo(c) \/ CambiaValor(c)
  <2>1. /\ SoloEnHilo(c) /\ hilo'[c].pcb = hilo[c].pcb
        /\ c \in Turnos' <=> c \in Turnos
        /\ UNCHANGED << colas, procesos, canales, planificador, cpu >>
    <3>1. CASE MirarListo(c)
      BY <1>1, <3>1, CambioDePaso DEF MirarListo, Pasos, Turnos
    <3>2. CASE CambiaValor(c)
      BY <1>1, <3>2, EfectoDeCambiarValor DEF Turnos
    <3>3. QED
      BY <1>3, <3>1, <3>2
  <2>2. SoloDe(c)
    BY <2>1 DEF SoloDe, SoloEnHilo, canales
  <2>3. Tiene(c)' <=> Tiene(c)
    BY <2>1 DEF Tiene, Entregando, canales
  <2>4. MismosTienen
    BY <2>1, <2>2, <2>3, MismosTienenDeUno
  <2>5. Activos' \subseteq Activos
    BY <2>1 DEF Activos, Creados, procesos, colas
  <2>6. QED
    BY <2>1, <2>4, <2>5, LugaresQuietos DEF colas
<1>4. CASE TomarListo(c)
  BY <1>2, <1>4, LugaresTomarListo DEF TomarListo
<1>5. ~EnviarSinTomar(c)
  BY <1>1 DEF EnviarSinTomar
<1>6. ASSUME NEW tipo \in {"WAIT_SEMAFORO", "SIGNAL_SEMAFORO"}, SemaforoInexistente(c, tipo)
      PROVE  Lugares'
  BY <1>6, LugaresInexistente
<1>7. CASE waitSemaforo(c)
  BY <1>7, LugaresWait
<1>8. CASE signalSemaforo(c)
  <2>1. kernel' = kernel \/ Caer
    BY <1>8 DEF signalSemaforo
  <2>2. QED
    BY <1>2, <1>8, <2>1, LugaresSignal
<1>9. CASE FinDeTurno(c)
  BY <1>9, LugaresFinDeTurno
<1>10. CASE CPUPerdida(c)
  BY <1>2, <1>10 DEF CPUPerdida
<1>11. CASE RecibirCorrido(c)
  <2>1. SoloDe(c)
    BY <1>1, ElHiloSoloLoSuyo
  <2>2. hilo'[c].pcb = hilo[c].pcb /\ UNCHANGED << colas, procesos, planificador >>
    BY <1>1, <1>11, EfectoDeCorrido
  <2>3. Tiene(c)' <=> Tiene(c)
    BY <1>1, <1>11, FaseTrasCorrido DEF Primeros
  <2>4. MismosTienen
    BY <2>1, <2>2, <2>3, MismosTienenDeUno
  <2>5. Activos' \subseteq Activos
    BY <2>2 DEF Activos, Creados, procesos, colas
  <2>6. QED
    BY <2>2, <2>4, <2>5, LugaresQuietos DEF colas
<1>12. QED
  BY <1>3, <1>4, <1>5, <1>6, <1>7, <1>8, <1>9, <1>10, <1>11
     DEF manejadorCPU, FinDeTurno, CambiaValor

LEMMA LugaresIniciales == Init => Lugares
<1> SUFFICES ASSUME Init
             PROVE  Lugares
  OBVIOUS
<1>1. /\ pidActual = 1
      /\ hilo = [c \in CPUs |-> [paso |-> "buscando", pcb |-> SinPCB, semaforo |-> "",
                                 lectura |-> "corrida"]]
  BY DEF Init
<1>2. \A c \in CPUs : ~Tiene(c)
  BY <1>1 DEF Tiene, Turnos
<1>3. Activos = {}
  <2>1. \A p \in Pids : ~(p < 1)
    BY LosPids
  <2>2. QED
    BY <1>1, <2>1 DEF Activos, Creados
<1>4. QED
  BY <1>2, <1>3 DEF Lugares, EnLaCola, LosActivosConLugar

LugarInv == FIFOInv /\ Primeros /\ Lugares

LEMMA LugarSiguiente ==
  ASSUME FIFO
  PROVE  LugarInv /\ [Next]_vars => LugarInv'
<1> SUFFICES ASSUME LugarInv, [Next]_vars
             PROVE  LugarInv'
  OBVIOUS
<1>1. FIFOInv' /\ Primeros'
  BY FIFOSiguiente DEF LugarInv
<1>2. CASE Next
  <2>1. Lugares'
    BY <1>2, LugaresOperadores, LugaresPlanificador, LugaresManejador, LugaresCicloCPU
       DEF Next, FIFO, LugarInv
  <2>2. QED
    BY <1>1, <2>1 DEF LugarInv
<1>3. CASE UNCHANGED vars
  BY <1>1, <1>3, LugaresNadaCambia DEF vars, LugarInv
<1>4. QED
  BY <1>2, <1>3

(* With one CPU nobody serves a signal from when a wait has blocked a      *)
(* process until its turn ends: it is still in colaBloqueado, and the CPU  *)
(* asks for nothing more.                                                  *)
UnaCPU == \A c, d \in CPUs : c = d

Entregado(c) ==
  c \in Turnos /\ Entregando(c) =>
    hilo[c].pcb.pid \in Bloqueados /\ ~Hay(aKernel[c], Pedidos)

LEMMA EntregadoQuieto ==
  ASSUME \A c \in CPUs : Entregado(c), Bloqueados \subseteq Bloqueados',
         hilo' = hilo, canales' = canales,
         \A d \in CPUs : cpu'[d].modo = cpu[d].modo /\ cpu'[d].marca = cpu[d].marca
  PROVE  \A c \in CPUs : Entregado(c)'
<1>1. Turnos' = Turnos /\ aCPU' = aCPU /\ aKernel' = aKernel
  BY DEF Turnos, canales
<1>2. QED
  BY <1>1 DEF Entregado, Entregando

LEMMA EntregadoOperadores ==
  ASSUME LugarInv, \A c \in CPUs : Entregado(c), Operadores
  PROVE  \A c \in CPUs : Entregado(c)'
<1>1. TypeOK /\ Lugares /\ \A c \in CPUs : EnFase(c)
  BY DEF LugarInv, FIFOInv, TipoInv
<1>2. CASE Operadores /\ ~\E p \in Pids : finalizarPrograma(p)
  <2>1. /\ UNCHANGED << colaBloqueado, hilo, canales >>
        /\ cpu' = cpu \/ \E c \in CPUs : SIGUSR1(c)
    BY <1>2 DEF Operadores, iniciarPCB, detenerPlanificacion, reanudarPlanificacion,
       modificarGradoMultiprogramacion, SIGUSR1, SoloCPU, colas
  <2>2. \A d \in CPUs : cpu'[d].modo = cpu[d].modo /\ cpu'[d].marca = cpu[d].marca
    BY <1>1, <2>1, EfectoSIGUSR1
  <2>3. Bloqueados' = Bloqueados
    BY <2>1 DEF Bloqueados
  <2>4. QED
    BY <2>1, <2>2, <2>3, EntregadoQuieto
<1>3. ASSUME NEW p \in Pids, finalizarPrograma(p)
      PROVE  \A c \in CPUs : Entregado(c)'
  <2>1. /\ finalizarProceso(p)
        /\ UNCHANGED << pidActual, rechazados, colaEjecutando, colaFinalizado, canales,
                        planificador, hilo, cpu >>
    BY <1>3 DEF finalizarPrograma
  <2>2. MismosTienen
    BY <1>1, <2>1, MismosTienenDeTodos
  <2>3. Bloqueados \subseteq Bloqueados'
    BY <1>1, <2>1, <2>2, ConLugarTrasFinalizar DEF Lugares, MismosTienen
  <2>4. QED
    BY <2>1, <2>3, EntregadoQuieto
<1>4. QED
  BY <1>2, <1>3

LEMMA EntregadoPlanificador ==
  ASSUME \A c \in CPUs : Entregado(c), planificarSistema
  PROVE  \A c \in CPUs : Entregado(c)'
<1>1. UNCHANGED << colaBloqueado, hilo, canales, cpu >>
  BY DEF planificarSistema, MirarNuevo, GradoCompleto, TomarNuevo, Admitir, Rechazar, Caer, colas
<1>2. Bloqueados' = Bloqueados
  BY <1>1 DEF Bloqueados
<1>3. QED
  BY <1>1, <1>2, EntregadoQuieto

LEMMA EntregadoCicloCPU ==
  ASSUME FIFOInv, QUANTUM = -1, NEW c \in CPUs, Entregado(c), CicloCPU(c)
  PROVE  Entregado(c)'
<1>1. TypeOK /\ TipoInv /\ EnFase(c)
  BY DEF FIFOInv, TipoInv
<1>2. UNCHANGED SoloCPU /\ (Tiene(c)' <=> Tiene(c))
  BY <1>1, TrasCicloCPU
<1>3. hilo' = hilo /\ Turnos' = Turnos /\ Bloqueados' = Bloqueados
  BY <1>2 DEF SoloCPU, Turnos, Bloqueados, colas
<1>4. SUFFICES ASSUME c \in Turnos', Entregando(c)'
               PROVE  ~Hay(aKernel'[c], Pedidos) /\ hilo'[c].pcb.pid \in Bloqueados'
  BY DEF Entregado
<1>5. c \in Turnos /\ Entregando(c) /\ hilo'[c].pcb.pid \in Bloqueados' /\ ~Hay(aKernel[c], Pedidos)
  BY <1>2, <1>3, <1>4 DEF Tiene, Entregado
<1>6. ~SigueEjecutando(c)
  <2>1. ASSUME SigueEjecutando(c)
        PROVE  FALSE
    <3>1. Corriendo(c)
      BY <1>1, <1>5, <2>1 DEF EnFase, SigueEjecutando, PCBEnviada, Parada, Cerrando, Perdida
    <3>2. QED
      BY <1>5, <2>1, <3>1, EntregaSegunFase DEF EntregasEnFase, EntregaEnFase, SigueEjecutando
  <2>2. QED
    BY <2>1
<1>7. CASE recibirPCBDeKernel(c) \/ RespuestaWait(c)
  <2>1. aKernel' = aKernel
    BY <1>7 DEF recibirPCBDeKernel, RespuestaWait
  <2>2. QED
    BY <1>5, <2>1
<1>8. CASE TerminarTurno(c)
  <2> DEFINE e == Cierre(cpu[c].marca, cpu[c].pid)
  <2>1. cpu[c].quantum # 0
    BY <1>1 DEF EnFase
  <2>2. <<e>> \in Seq(Mensajes) /\ Enviar(c, <<e>>) /\ e.tipo \in Marcas
    BY <1>1, <1>8, <2>1, EfectoTerminarTurno DEF Cierre
  <2> HIDE DEF e
  <2>3. ~Hay(<<e>>, Pedidos)
    BY <2>2, CanalDeUno DEF Marcas, Pedidos
  <2>4. aKernel'[c] = aKernel[c] \o <<e>> /\ aKernel[c] \in Seq(Mensajes)
    BY <1>1, <2>2, EfectoEnviar
  <2> DEFINE antes == aKernel[c]
             m == <<e>>
  <2>5. antes \in Seq(Mensajes) /\ m \in Seq(Mensajes) /\ ~Hay(m, Pedidos) /\ ~Hay(antes, Pedidos)
    BY <1>5, <2>2, <2>3, <2>4
  <2> HIDE DEF antes, m
  <2>6. ~Hay(antes \o m, Pedidos)
    BY <2>5, PonerVarios
  <2>7. ~Hay(aKernel'[c], Pedidos)
    BY <2>4, <2>6 DEF antes, m
  <2>8. QED
    BY <1>5, <2>7
<1>9. QED
  BY <1>6, <1>7, <1>8 DEF CicloCPU, LineaComun, LineaFinal, pedirSignal, pedirWait

LEMMA EntregadoManejador ==
  ASSUME LugarInv, NEW c \in CPUs, Entregado(c), manejadorCPU(c), kernel = "vivo"
  PROVE  Entregado(c)'
<1>1. /\ TypeOK /\ TipoInv /\ EnFase(c) /\ FIFOInv /\ Lugares
      /\ estadoPlanificacionesSistema /\ PrimerTurno(c)
  BY DEF LugarInv, FIFOInv, TipoInv, Primeros
<1>2. ASSUME UNCHANGED << colaBloqueado, canales, cpu >>, hilo'[c].pcb = hilo[c].pcb,
             c \in Turnos' <=> c \in Turnos
      PROVE  Entregado(c)'
  BY <1>2 DEF Entregado, Entregando, Bloqueados, canales
<1>3. ASSUME Tiene(c)' \/ c \notin Turnos'
      PROVE  Entregado(c)'
  BY <1>3 DEF Entregado, Tiene
<1>4. ASSUME Caer
      PROVE  Entregado(c)'
  BY <1>2, <1>4 DEF Caer, colas, Turnos
<1>5. CASE MirarListo(c)
  BY <1>1, <1>3, <1>5, CambioDePaso DEF MirarListo, Pasos, Turnos
<1>6. CASE CambiaValor(c)
  <2>1. /\ hilo'[c].pcb = hilo[c].pcb /\ UNCHANGED << colas, canales, cpu >>
        /\ c \in Turnos /\ c \in Turnos'
    BY <1>1, <1>6, EfectoDeCambiarValor DEF Turnos
  <2>2. QED
    BY <1>2, <2>1 DEF colas
<1>7. CASE TomarListo(c) /\ colaListo # << >>
  <2>1. Tiene(c)'
    BY <1>1, <1>7, LugaresTomarListo
  <2>2. QED
    BY <1>3, <2>1
<1>8. ASSUME Tiene(c)' <=> Tiene(c), Head(aKernel[c]).tipo \in Pedidos, aKernel[c] # << >>,
             hilo[c].paso = "atendiendo"
      PROVE  Entregado(c)'
  <2>1. Hay(aKernel[c], Pedidos)
    <3>1. aKernel[c] \in Seq(Mensajes)
      BY <1>1 DEF TypeOK
    <3>2. 1 \in DOMAIN aKernel[c] /\ aKernel[c][1] = Head(aKernel[c])
      BY <1>8, <3>1, SacarElPrimero
    <3>3. QED
      BY <1>8, <3>2 DEF Hay
  <2>2. Tiene(c)
    BY <1>8, <2>1 DEF Entregado, Tiene, Turnos
  <2>3. QED
    BY <1>3, <1>8, <2>2
<1>9. ASSUME NEW tipo \in {"WAIT_SEMAFORO", "SIGNAL_SEMAFORO"}, SemaforoInexistente(c, tipo)
      PROVE  Entregado(c)'
  BY <1>1, <1>8, <1>9, LugaresInexistente DEF SemaforoInexistente, Atendiendo, Pedidos
<1>10. CASE waitSemaforo(c)
  <2>1. Tiene(c)' \/ (hilo'[c].pcb.pid \in Bloqueados' /\ aKernel'[c] = << >>)
    BY <1>1, <1>10, LugaresWait
  <2>2. QED
    BY <1>3, <2>1, NadaEnElCanal DEF Entregado
<1>11. CASE signalSemaforo(c)
  <2>1. kernel' = kernel \/ Caer
    BY <1>11 DEF signalSemaforo
  <2>2. QED
    BY <1>1, <1>4, <1>8, <1>11, <2>1, LugaresSignal DEF signalSemaforo, Atendiendo, Pedidos
<1>12. CASE FinDeTurno(c)
  <2>1. hilo'[c].paso = "buscando"
    BY <1>1, <1>12, EfectoDeFinDeTurno
  <2>2. QED
    BY <1>3, <2>1 DEF Turnos
<1>13. CASE CPUPerdida(c)
  BY <1>4, <1>13 DEF CPUPerdida
<1>14. ~EnviarSinTomar(c)
  BY <1>1 DEF EnviarSinTomar
<1>15. CASE TomarListo(c)
  BY <1>4, <1>7, <1>15 DEF TomarListo
<1>16. CASE RecibirCorrido(c)
  <2>1. Tiene(c)'
    BY <1>1, <1>16, FaseTrasCorrido
  <2>2. QED
    BY <1>3, <2>1
<1>17. QED
  BY <1>5, <1>6, <1>9, <1>10, <1>11, <1>12, <1>13, <1>14, <1>15, <1>16
     DEF manejadorCPU, FinDeTurno, CambiaValor

EntregadoInv == LugarInv /\ \A c \in CPUs : Entregado(c)

LEMMA EntregadoSiguiente ==
  ASSUME FIFO, UnaCPU
  PROVE  EntregadoInv /\ [Next]_vars => EntregadoInv'
<1> SUFFICES ASSUME EntregadoInv, [Next]_vars
             PROVE  EntregadoInv'
  OBVIOUS
<1>1. LugarInv' /\ LugarInv /\ FIFOInv /\ \A c \in CPUs : Entregado(c)
  BY LugarSiguiente DEF EntregadoInv, LugarInv
<1>2. CASE Next
  <2>1. ASSUME NEW c \in CPUs, manejadorCPU(c) \/ CicloCPU(c)
        PROVE  \A d \in CPUs : Entregado(d)'
    <3>1. Entregado(c)'
      BY <1>1, <1>2, <2>1, EntregadoManejador, EntregadoCicloCPU DEF Next, FIFO
    <3>2. \A d \in CPUs : d = c
      BY DEF UnaCPU
    <3>3. QED
      BY <3>1, <3>2
  <2>2. \A c \in CPUs : Entregado(c)'
    BY <1>1, <1>2, <2>1, EntregadoOperadores, EntregadoPlanificador DEF Next
  <2>3. QED
    BY <1>1, <2>2 DEF EntregadoInv
<1>3. CASE UNCHANGED vars
  <2>1. Bloqueados' = Bloqueados
    BY <1>3 DEF Bloqueados, vars, colas
  <2>2. \A c \in CPUs : Entregado(c)'
    BY <1>1, <1>3, <2>1, EntregadoQuieto DEF vars
  <2>3. QED
    BY <1>1, <2>2 DEF EntregadoInv
<1>4. QED
  BY <1>2, <1>3

LEMMA EntregadoInicial == QUANTUM = -1 /\ Init => EntregadoInv
<1> SUFFICES ASSUME QUANTUM = -1, Init
             PROVE  EntregadoInv
  OBVIOUS
<1>1. Turnos = {}
  BY DEF Init, Turnos
<1>2. QED
  BY <1>1, FIFOInicial, LugaresIniciales, PrimerosIniciales
     DEF EntregadoInv, LugarInv, Entregado

(* How often a pid is in a queue where each one is at most once.           *)
LEMMA CuantasVeces ==
  ASSUME NEW s, NEW K, NEW p, p # 0, Unicas(s, K), NEW I,
         I = {i \in DOMAIN s : K[s[i]] = p}
  PROVE  Cardinality(I) = Uno(p \in Claves(s, K))
<1>1. CASE p \in Claves(s, K)
  <2>1. PICK i \in DOMAIN s : K[s[i]] = p
    BY <1>1 DEF Claves
  <2>2. I = {i}
    BY <2>1 DEF Unicas
  <2>3. QED
    BY <1>1, <2>2, FS_Singleton DEF Uno
<1>2. CASE p \notin Claves(s, K)
  <2>1. I = {}
    BY <1>2 DEF Claves
  <2>2. QED
    BY <1>2, <2>1, FS_EmptySet DEF Uno
<1>3. QED
  BY <1>1, <1>2

LEMMA VecesSegunLasClaves ==
  ASSUME TypeOK, UnLugar, NEW p \in Pids
  PROVE  /\ Contains(colaNuevo, p) <=> p \in Nuevos
         /\ VecesEn(colaListo, p) = Uno(p \in Listos)
         /\ VecesBloqueado(p) = Uno(p \in Bloqueados)
<1>1. /\ colaNuevo \in Seq(Pids) /\ colaListo \in Seq(PCBs) /\ colaBloqueado \in Seq(Bloqueos)
      /\ p # 0
  BY LosPids DEF TypeOK, Bloqueos
<1>2. /\ \A i \in DOMAIN colaNuevo : colaNuevo[i] \in Pids
      /\ \A i \in DOMAIN colaListo : colaListo[i] \in PCBs
      /\ \A i \in DOMAIN colaBloqueado : colaBloqueado[i] \in Bloqueos
      /\ DOMAIN colaNuevo = 1 .. Len(colaNuevo)
  BY <1>1, ElementOfSeq, LenProperties
<1>3. Contains(colaNuevo, p) <=> p \in Nuevos
  <2>1. \A i \in DOMAIN colaNuevo : KNuevo[colaNuevo[i]] = colaNuevo[i]
    BY <1>2 DEF KNuevo
  <2>2. QED
    BY <1>1, <1>2, <2>1 DEF Contains, Nuevos, Claves
<1>4. VecesEn(colaListo, p) = Uno(p \in Listos)
  <2> DEFINE I == {i \in DOMAIN colaListo : colaListo[i].pid = p}
  <2>1. I = {i \in DOMAIN colaListo : KListo[colaListo[i]] = p}
    BY <1>2 DEF KListo
  <2>2. Unicas(colaListo, KListo)
    BY DEF UnLugar
  <2> HIDE DEF I
  <2>3. Cardinality(I) = Uno(p \in Claves(colaListo, KListo))
    BY <1>1, <2>1, <2>2, CuantasVeces
  <2>4. QED
    BY <2>3 DEF I, VecesEn, Listos
<1>5. VecesBloqueado(p) = Uno(p \in Bloqueados)
  <2> DEFINE I == {i \in DOMAIN colaBloqueado :
                     colaBloqueado[i].pid = p /\ colaBloqueado[i].semaforo # CRUDA}
  <2>1. I = {i \in DOMAIN colaBloqueado : KBloqueado[colaBloqueado[i]] = p}
    BY <1>1, <1>2 DEF KBloqueado
  <2>2. Unicas(colaBloqueado, KBloqueado)
    BY DEF UnLugar
  <2> HIDE DEF I
  <2>3. Cardinality(I) = Uno(p \in Claves(colaBloqueado, KBloqueado))
    BY <1>1, <2>1, <2>2, CuantasVeces
  <2>4. QED
    BY <2>3 DEF I, VecesBloqueado, Bloqueados
<1>6. QED
  BY <1>3, <1>4, <1>5

(* With one CPU under FIFO, while nobody stops the planning, a live        *)
(* process is in exactly one place, whatever the programs do with the      *)
(* semaphores and the operators finish: the queues, the planner and the    *)
(* turn of the thread neither lose it nor hold it twice.                   *)
THEOREM CadaUnoEnUnLugar ==
  ASSUME FIFO, UnaCPU
  PROVE  Spec => []EnUnSoloLugar
<1>1. EntregadoInv => EnUnSoloLugar
  <2> SUFFICES ASSUME EntregadoInv, NEW p \in Activos
               PROVE  Uno(Contains(colaNuevo, p)) + Uno(planificador.pid = p)
                        + VecesEn(colaListo, p) + VecesBloqueado(p)
                        + Uno(EnTurno(p) /\ VecesBloqueado(p) = 0) = 1
    BY DEF EnUnSoloLugar
  <2> DEFINE T == EnTurno(p) /\ VecesBloqueado(p) = 0
  <2>1. /\ TypeOK /\ UnLugar /\ LosActivosConLugar
        /\ \A c \in CPUs : Entregado(c) /\ (c \in Turnos => hilo[c].pcb \in PCBs)
    BY DEF EntregadoInv, LugarInv, Lugares, FIFOInv, TipoInv, EnFase
  <2>2. p \in Pids
    BY DEF Activos, Creados
  <2>3. /\ Contains(colaNuevo, p) <=> p \in Nuevos
        /\ VecesEn(colaListo, p) = Uno(p \in Listos)
        /\ VecesBloqueado(p) = Uno(p \in Bloqueados)
    BY <2>1, <2>2, VecesSegunLasClaves
  <2>4. T <=> \E c \in CPUs : Tiene(c) /\ hilo[c].pcb.pid = p
    <3>1. VecesBloqueado(p) = 0 <=> p \notin Bloqueados
      BY <2>3 DEF Uno
    <3>2. EnTurno(p) <=> \E c \in Turnos : hilo[c].pcb.pid = p
      BY <2>1 DEF EnTurno, Turnos, TypeOK, EstadosHilo
    <3>3. \A c \in CPUs : Tiene(c) => c \in Turnos /\ hilo[c].pcb.pid \notin Bloqueados
      BY <2>1 DEF Tiene, UnLugar, EnColasFIFO
    <3>4. \A c \in Turnos : c \in CPUs /\ (Tiene(c) \/ hilo[c].pcb.pid \in Bloqueados)
      BY <2>1 DEF Entregado, Tiene, Turnos
    <3>5. QED
      BY <3>1, <3>2, <3>3, <3>4
  <2>5. T => p \notin EnColasFIFO
    BY <2>1, <2>4 DEF UnLugar
  <2>6. T \/ p \in EnColasFIFO
    BY <2>1, <2>4 DEF LosActivosConLugar, ConLugar
  <2>7. Uno(p \in Nuevos) + Uno(planificador.pid = p) + Uno(p \in Listos)
          + Uno(p \in Bloqueados) + Uno(T) = 1
    <3>1. /\ ~(p \in Nuevos /\ p \in Listos) /\ ~(p \in Nuevos /\ p \in Bloqueados)
          /\ ~(p \in Listos /\ p \in Bloqueados)
          /\ planificador.pid = p => p \notin Nuevos /\ p \notin Listos /\ p \notin Bloqueados
      BY <2>1 DEF UnLugar
    <3>2. /\ T => p \notin Nuevos /\ p \notin Listos /\ p \notin Bloqueados
                  /\ planificador.pid # p
          /\ \/ T \/ p \in Nuevos \/ p \in Listos
             \/ p \in Bloqueados \/ planificador.pid = p
      BY <2>5, <2>6 DEF EnColasFIFO
    <3>3. /\ Uno(p \in Nuevos) = (IF p \in Nuevos THEN 1 ELSE 0)
          /\ Uno(planificador.pid = p) = (IF planificador.pid = p THEN 1 ELSE 0)
          /\ Uno(p \in Listos) = (IF p \in Listos THEN 1 ELSE 0)
          /\ Uno(p \in Bloqueados) = (IF p \in Bloqueados THEN 1 ELSE 0)
          /\ Uno(T) = (IF T THEN 1 ELSE 0)
      BY DEF Uno
    <3> HIDE DEF T
    <3>4. CASE T
      BY <3>1, <3>2, <3>3, <3>4
    <3>5. CASE ~T
      BY <3>1, <3>2, <3>3, <3>5
    <3>6. QED
      BY <3>4, <3>5
  <2>8. Uno(Contains(colaNuevo, p)) = Uno(p \in Nuevos)
    BY <2>3 DEF Uno
  <2>9. QED
    BY <2>3, <2>7, <2>8
<1>2. FIFO => QUANTUM = -1
  BY DEF FIFO
<1>3. QED
  BY <1>1, <1>2, EntregadoInicial, EntregadoSiguiente, PTL DEF Spec

-----------------------------------------------------------------------------
(* How many processes a semaphore has blocked.                             *)
CuentaPor(cola, s) == Cardinality({i \in DOMAIN cola : cola[i].semaforo = s})

LEMMA LugaresFinitos ==
  ASSUME NEW S, NEW cola \in Seq(S), NEW s
  PROVE  /\ IsFiniteSet({i \in DOMAIN cola : cola[i].semaforo = s})
         /\ CuentaPor(cola, s) \in Nat
<1> DEFINE I == {i \in DOMAIN cola : cola[i].semaforo = s}
<1>1. IsFiniteSet(DOMAIN cola)
  <2>1. DOMAIN cola = 1 .. Len(cola) /\ Len(cola) \in Nat
    BY LenProperties
  <2>2. QED
    BY <2>1, FS_Interval
<1>2. I \in SUBSET DOMAIN cola
  OBVIOUS
<1>3. QED
  <2> HIDE DEF I
  <2>1. IsFiniteSet(I)
    BY <1>1, <1>2, FS_Subset
  <2>2. Cardinality(I) \in Nat
    BY <2>1, FS_CardinalityType
  <2>3. QED
    BY <2>1, <2>2 DEF I, CuentaPor

LEMMA CuentaAlPoner ==
  ASSUME NEW S, NEW cola \in Seq(S), NEW e \in S, NEW s
  PROVE  CuentaPor(Append(cola, e), s) = CuentaPor(cola, s) + Uno(e.semaforo = s)
<1> DEFINE n == Len(cola) + 1
           t == Append(cola, e)
           I == {i \in DOMAIN cola : cola[i].semaforo = s}
           J == {i \in DOMAIN t : t[i].semaforo = s}
<1>1. /\ DOMAIN t = DOMAIN cola \cup {n} /\ n \notin DOMAIN cola /\ t[n] = e
      /\ \A i \in DOMAIN cola : t[i] = cola[i]
  BY PonerAlFinal
<1>2. IsFiniteSet(I) /\ Cardinality(I) \in Nat
  BY LugaresFinitos DEF CuentaPor
<1> HIDE DEF t, n
<1>3. n \notin I /\ J = IF e.semaforo = s THEN I \cup {n} ELSE I
  BY <1>1
<1> HIDE DEF I, J
<1>4. Cardinality(J) = Cardinality(I) + Uno(e.semaforo = s)
  <2>1. Cardinality(I \cup {n}) = Cardinality(I) + 1
    BY <1>2, <1>3, FS_AddElement
  <2>2. QED
    BY <1>2, <1>3, <2>1 DEF Uno
<1>5. QED
  BY <1>4 DEF I, J, t, CuentaPor

LEMMA CuentaAlSacar ==
  ASSUME NEW S, NEW cola \in Seq(S), NEW i \in DOMAIN cola, NEW t \in Seq(S),
         SinElLugar(cola, t, i), NEW s
  PROVE  CuentaPor(t, s) = CuentaPor(cola, s) - Uno(cola[i].semaforo = s)
<1> DEFINE I == {k \in DOMAIN cola : cola[k].semaforo = s}
           J == {j \in DOMAIN t : t[j].semaforo = s}
<1>1. PICK f \in [DOMAIN t -> DOMAIN cola \ {i}] :
        /\ \A j \in DOMAIN t : t[j] = cola[f[j]]
        /\ \A j, k \in DOMAIN t : f[j] = f[k] => j = k
        /\ \A k \in DOMAIN cola \ {i} : \E j \in DOMAIN t : f[j] = k
  BY DEF SinElLugar
<1>2. IsFiniteSet(J) /\ IsFiniteSet(I) /\ Cardinality(I) \in Nat
  BY LugaresFinitos DEF CuentaPor
<1>3. Cardinality(I \ {i}) = Cardinality(J)
  <2> DEFINE g == [j \in J |-> f[j]]
  <2>1. g \in [J -> I \ {i}]
    BY <1>1
  <2>2. \A j, k \in DOMAIN g : g[j] = g[k] => j = k
    BY <1>1
  <2>3. \A k \in I \ {i} : \E j \in J : g[j] = k
    <3>1. ASSUME NEW k \in I \ {i}
          PROVE  \E j \in J : g[j] = k
      <4>1. PICK j \in DOMAIN t : f[j] = k
        BY <1>1, <3>1
      <4>2. j \in J
        BY <1>1, <3>1, <4>1
      <4>3. QED
        BY <4>1, <4>2
    <3>2. QED
      BY <3>1
  <2> HIDE DEF g, I, J
  <2>4. ExistsBijection(J, I \ {i})
    BY <2>1, <2>2, <2>3 DEF ExistsBijection, Bijection, Injection, Surjection, IsInjective
  <2>5. QED
    BY <1>2, <2>4, FS_Bijection
<1>4. i \in I <=> cola[i].semaforo = s
  OBVIOUS
<1> HIDE DEF I, J
<1>5. Cardinality(I \ {i}) = Cardinality(I) - Uno(cola[i].semaforo = s)
  <2>1. Cardinality(I \ {i}) = IF i \in I THEN Cardinality(I) - 1 ELSE Cardinality(I)
    BY <1>2, FS_RemoveElement
  <2>2. Uno(cola[i].semaforo = s) = IF i \in I THEN 1 ELSE 0
    BY <1>4 DEF Uno
  <2>3. QED
    BY <1>2, <2>1, <2>2
<1>6. QED
  BY <1>3, <1>5 DEF I, J, CuentaPor

LEMMA CuentaTrasFinalizar ==
  ASSUME TypeOK, NEW p \in Pids, finalizarProceso(p), NEW s \in Semaforos
  PROVE  CuentaPor(colaBloqueado', s) = CuentaPor(colaBloqueado, s)
<1> DEFINE I == {i \in LugaresDe(colaBloqueado, p) : colaBloqueado[i].semaforo = CRUDA}
<1>1. Quita(colaBloqueado, colaBloqueado', I) /\ colaBloqueado \in Seq(Bloqueos)
  BY EfectoDeFinalizar DEF TypeOK, Bloqueos
<1>2. s # CRUDA
  BY SemaforosAssumption
<1>3. \A i \in I : i \in DOMAIN colaBloqueado /\ colaBloqueado[i].semaforo = CRUDA
  BY DEF LugaresDe
<1> HIDE DEF I
<1>4. ASSUME NEW i \in I, colaBloqueado' = RemoveAt(colaBloqueado, i)
      PROVE  CuentaPor(colaBloqueado', s) = CuentaPor(colaBloqueado, s)
  <2>1. i \in DOMAIN colaBloqueado /\ colaBloqueado[i].semaforo # s
    BY <1>2, <1>3
  <2>2. /\ RemoveAt(colaBloqueado, i) \in Seq(Bloqueos)
        /\ SinElLugar(colaBloqueado, RemoveAt(colaBloqueado, i), i)
    BY <1>1, <2>1, SacarDejaElResto
  <2>3. CuentaPor(RemoveAt(colaBloqueado, i), s)
          = CuentaPor(colaBloqueado, s) - Uno(colaBloqueado[i].semaforo = s)
    BY <1>1, <2>1, <2>2, CuentaAlSacar
  <2>4. CuentaPor(colaBloqueado, s) \in Nat /\ Uno(colaBloqueado[i].semaforo = s) = 0
    BY <1>1, <2>1, LugaresFinitos DEF Uno
  <2>5. QED
    BY <1>4, <2>3, <2>4
<1>5. QED
  BY <1>1, <1>4 DEF Quita

LEMMA DeudaTrasElPaso ==
  ASSUME NEW v \in Int
  PROVE  /\ v > 0 => Debidos(v) = Debidos(v - 1)
         /\ ~(v > 0) => Debidos(v) + 1 = Debidos(v - 1)
         /\ v < 0 => Debidos(v) - 1 = Debidos(v + 1) /\ Debidos(v) # 0
         /\ ~(v < 0) => Debidos(v) = Debidos(v + 1)
BY DEF Debidos

(* No thread is in the middle of a request before the step.                *)
Quietas == \A c \in CPUs : ~EnMedio(c)

LEMMA NingunoPendiente ==
  ASSUME Quietas, NEW s
  PROVE  Pendientes(s, "restando") = 0 /\ Pendientes(s, "sumando") = 0
<1>1. ASSUME NEW paso \in {"restando", "sumando"}
      PROVE  Pendientes(s, paso) = 0
  <2>1. {c \in CPUs : hilo[c].paso = paso /\ hilo[c].semaforo = s} = {}
    BY <1>1 DEF Quietas, EnMedio
  <2>2. QED
    BY <2>1, FS_EmptySet DEF Pendientes
<1>2. QED
  BY <1>1

LEMMA UnoPendiente ==
  ASSUME Quietas, NEW c \in CPUs, SoloEnHilo(c), NEW s, NEW paso \in {"restando", "sumando"}
  PROVE  Pendientes(s, paso)' = Uno(hilo'[c].paso = paso /\ hilo'[c].semaforo = s)
<1> DEFINE I == {d \in CPUs : hilo'[d].paso = paso /\ hilo'[d].semaforo = s}
<1>1. \A d \in CPUs \ {c} : d \notin I
  BY DEF SoloEnHilo, Quietas, EnMedio
<1>2. I = IF hilo'[c].paso = paso /\ hilo'[c].semaforo = s THEN {c} ELSE {}
  BY <1>1
<1>3. Cardinality(I) = Uno(hilo'[c].paso = paso /\ hilo'[c].semaforo = s)
  <2> HIDE DEF I
  <2>1. Cardinality({c}) = 1 /\ Cardinality({}) = 0
    BY FS_Singleton, FS_EmptySet
  <2>2. QED
    BY <1>2, <2>1 DEF Uno
<1>4. QED
  BY <1>3 DEF Pendientes

LEMMA DeudaAntes ==
  ASSUME TypeOK, Quietas, NEW s \in Semaforos
  PROVE  /\ valorSemaforo[s] \in Int
         /\ Cuadran(s) <=> CuentaPor(colaBloqueado, s) = Debidos(valorSemaforo[s])
<1>1. valorSemaforo[s] \in Int
  BY DEF TypeOK
<1>2. valorSemaforo[s] - 0 + 0 = valorSemaforo[s]
  BY <1>1
<1>3. QED
  BY <1>1, <1>2, NingunoPendiente DEF Cuadran, CuentaPor, BloqueadosPor

LEMMA DeudaDespues ==
  ASSUME TypeOK, Quietas, NEW c \in CPUs, SoloEnHilo(c), valorSemaforo' = valorSemaforo,
         NEW s \in Semaforos,
         CuentaPor(colaBloqueado', s) =
           Debidos(valorSemaforo[s]
                     - Uno(hilo'[c].paso = "restando" /\ hilo'[c].semaforo = s)
                     + Uno(hilo'[c].paso = "sumando" /\ hilo'[c].semaforo = s))
  PROVE  Cuadran(s)'
<1>1. /\ Pendientes(s, "restando")' = Uno(hilo'[c].paso = "restando" /\ hilo'[c].semaforo = s)
      /\ Pendientes(s, "sumando")' = Uno(hilo'[c].paso = "sumando" /\ hilo'[c].semaforo = s)
  BY UnoPendiente
<1>2. QED
  BY <1>1 DEF Cuadran, CuentaPor, BloqueadosPor

(* Nothing happens to the semaphores.                                      *)
LEMMA CuadranIgual ==
  ASSUME TypeOK, Quietas, valorSemaforo' = valorSemaforo, NEW s \in Semaforos, Cuadran(s),
         CuentaPor(colaBloqueado', s) = CuentaPor(colaBloqueado, s),
         \/ hilo' = hilo
         \/ \E c \in CPUs : SoloEnHilo(c) /\ hilo'[c].paso \notin {"restando", "sumando"}
  PROVE  Cuadran(s)'
<1>1. CuentaPor(colaBloqueado', s) = Debidos(valorSemaforo[s]) /\ valorSemaforo[s] \in Int
  BY DeudaAntes
<1>2. CASE hilo' = hilo
  <2>1. Pendientes(s, "restando")' = 0 /\ Pendientes(s, "sumando")' = 0
    BY <1>2, NingunoPendiente DEF Pendientes
  <2>2. valorSemaforo[s] - 0 + 0 = valorSemaforo[s]
    BY <1>1
  <2>3. QED
    BY <1>1, <2>1, <2>2 DEF Cuadran, CuentaPor, BloqueadosPor
<1>3. ASSUME NEW c \in CPUs, SoloEnHilo(c), hilo'[c].paso \notin {"restando", "sumando"}
      PROVE  Cuadran(s)'
  <2>1. /\ Uno(hilo'[c].paso = "restando" /\ hilo'[c].semaforo = s) = 0
        /\ Uno(hilo'[c].paso = "sumando" /\ hilo'[c].semaforo = s) = 0
    BY <1>3 DEF Uno
  <2>2. valorSemaforo[s] - 0 + 0 = valorSemaforo[s]
    BY <1>1
  <2>3. QED
    BY <1>1, <1>3, <2>1, <2>2, DeudaDespues
<1>4. QED
  BY <1>2, <1>3

LEMMA CuadranWait ==
  ASSUME TypeOK, Quietas, NEW c \in CPUs, waitSemaforo(c), ~EsperaSinEntrada(c),
         NEW s \in Semaforos, Cuadran(s)
  PROVE  Cuadran(s)'
<1> DEFINE m == Head(aKernel[c])
           r == m.semaforo
           e == [pid |-> m.pid, semaforo |-> r]
           U == Uno(r = s)
<1>1. /\ SoloEnHilo(c) /\ hilo'[c].paso = "restando" /\ hilo'[c].semaforo = r
      /\ r \in Semaforos
  BY EfectoDeWait
<1>2. valorSemaforo' = valorSemaforo /\ Atendiendo(c, "WAIT_SEMAFORO")
  BY DEF waitSemaforo
<1>3. EstaEn(colaEjecutando, m.pid)
  <2>1. LugarDePid(colaEjecutando, m.pid) # 0
    BY <1>2 DEF EsperaSinEntrada
  <2>2. QED
    BY <2>1, ElLugarDePid DEF TypeOK, EstaEn
<1>4. \/ EstaLibre(valorSemaforo[r]) /\ colaBloqueado' = colaBloqueado
      \/ /\ ~EstaLibre(valorSemaforo[r]) /\ colaBloqueado' = Append(colaBloqueado, e)
         /\ e \in Bloqueos
  BY <1>3, EfectoDeWait
<1>5. /\ colaBloqueado \in Seq(Bloqueos) /\ valorSemaforo[s] \in Int
      /\ CuentaPor(colaBloqueado, s) = Debidos(valorSemaforo[s])
      /\ CuentaPor(colaBloqueado, s) \in Nat
  <2>1. colaBloqueado \in Seq(Bloqueos)
    BY DEF TypeOK, Bloqueos
  <2>2. QED
    BY <2>1, DeudaAntes, LugaresFinitos
<1>6. e.semaforo = r
  OBVIOUS
<1> HIDE DEF m, r, e
<1>7. CuentaPor(colaBloqueado', s) = Debidos(valorSemaforo[s] - U + 0)
  <2>1. CASE EstaLibre(valorSemaforo[r]) /\ colaBloqueado' = colaBloqueado
    <3>1. r = s => valorSemaforo[s] > 0
      BY <2>1 DEF EstaLibre
    <3>2. Debidos(valorSemaforo[s] - U + 0) = Debidos(valorSemaforo[s])
      BY <1>5, <3>1 DEF Debidos, Uno
    <3>3. QED
      BY <1>5, <2>1, <3>2
  <2>2. CASE /\ ~EstaLibre(valorSemaforo[r]) /\ colaBloqueado' = Append(colaBloqueado, e)
             /\ e \in Bloqueos
    <3>1. r = s => ~(valorSemaforo[s] > 0)
      BY <2>2 DEF EstaLibre
    <3>2. CuentaPor(Append(colaBloqueado, e), s) = CuentaPor(colaBloqueado, s) + U
      BY <1>5, <1>6, <2>2, CuentaAlPoner
    <3>3. Debidos(valorSemaforo[s] - U + 0) = Debidos(valorSemaforo[s]) + U
      BY <1>5, <3>1 DEF Debidos, Uno
    <3>4. QED
      BY <1>5, <2>2, <3>2, <3>3
  <2>3. QED
    BY <1>4, <2>1, <2>2
<1>8. /\ Uno(hilo'[c].paso = "restando" /\ hilo'[c].semaforo = s) = U
      /\ Uno(hilo'[c].paso = "sumando" /\ hilo'[c].semaforo = s) = 0
  BY <1>1 DEF Uno
<1> HIDE DEF U
<1>9. QED
  BY <1>1, <1>2, <1>7, <1>8, DeudaDespues

LEMMA CuadranSignal ==
  ASSUME TypeOK, Quietas, NEW c \in CPUs, signalSemaforo(c), kernel' = kernel,
         kernel = "vivo", NEW s \in Semaforos, Cuadran(s)
  PROVE  Cuadran(s)'
<1> DEFINE r == Head(aKernel[c]).semaforo
           U == Uno(r = s)
<1>1. /\ r \in Semaforos /\ SoloEnHilo(c) /\ hilo'[c].paso = "sumando"
      /\ hilo'[c].semaforo = r /\ valorSemaforo' = valorSemaforo
      /\ \/ /\ valorSemaforo[r] < 0
            /\ \E i \in DOMAIN colaBloqueado :
                 /\ colaBloqueado[i].semaforo = r
                 /\ colaBloqueado' = RemoveAt(colaBloqueado, i)
         \/ /\ colaBloqueado' = colaBloqueado
            /\ \/ ~(valorSemaforo[r] < 0)
               \/ ~\E i \in DOMAIN colaBloqueado : colaBloqueado[i].semaforo = r
  BY EfectoDeSignal
<1>2. /\ colaBloqueado \in Seq(Bloqueos) /\ valorSemaforo[s] \in Int
      /\ CuentaPor(colaBloqueado, s) = Debidos(valorSemaforo[s])
      /\ CuentaPor(colaBloqueado, s) \in Nat
  <2>1. colaBloqueado \in Seq(Bloqueos)
    BY DEF TypeOK, Bloqueos
  <2>2. QED
    BY <2>1, DeudaAntes, LugaresFinitos
<1> HIDE DEF r
<1>3. ~(valorSemaforo[s] < 0) \/ \E i \in DOMAIN colaBloqueado : colaBloqueado[i].semaforo = s
  <2> DEFINE I == {i \in DOMAIN colaBloqueado : colaBloqueado[i].semaforo = s}
  <2>1. valorSemaforo[s] < 0 => Cardinality(I) # 0
    BY <1>2, DeudaTrasElPaso DEF CuentaPor
  <2>2. I = {} => Cardinality(I) = 0
    BY FS_EmptySet
  <2>3. QED
    BY <2>1, <2>2
<1>4. CuentaPor(colaBloqueado', s) = Debidos(valorSemaforo[s] - 0 + U)
  <2>1. CASE colaBloqueado' = colaBloqueado /\ (r = s => ~(valorSemaforo[s] < 0))
    <3>1. Debidos(valorSemaforo[s] - 0 + U) = Debidos(valorSemaforo[s])
      BY <1>2, <2>1 DEF Debidos, Uno
    <3>2. QED
      BY <1>2, <2>1, <3>1
  <2>2. ASSUME valorSemaforo[r] < 0, NEW i \in DOMAIN colaBloqueado,
               colaBloqueado[i].semaforo = r, colaBloqueado' = RemoveAt(colaBloqueado, i)
        PROVE  CuentaPor(colaBloqueado', s) = Debidos(valorSemaforo[s] - 0 + U)
    <3>1. /\ RemoveAt(colaBloqueado, i) \in Seq(Bloqueos)
          /\ SinElLugar(colaBloqueado, RemoveAt(colaBloqueado, i), i)
      BY <1>2, <2>2, SacarDejaElResto
    <3>2. CuentaPor(RemoveAt(colaBloqueado, i), s)
            = CuentaPor(colaBloqueado, s) - Uno(colaBloqueado[i].semaforo = s)
      BY <1>2, <2>2, <3>1, CuentaAlSacar
    <3>3. Uno(colaBloqueado[i].semaforo = s) = U
      BY <2>2
    <3>4. Debidos(valorSemaforo[s] - 0 + U) = Debidos(valorSemaforo[s]) - U
      BY <1>2, <2>2 DEF Debidos, Uno
    <3>5. QED
      BY <1>2, <2>2, <3>2, <3>3, <3>4
  <2>3. QED
    BY <1>1, <1>3, <2>1, <2>2
<1>5. /\ Uno(hilo'[c].paso = "restando" /\ hilo'[c].semaforo = s) = 0
      /\ Uno(hilo'[c].paso = "sumando" /\ hilo'[c].semaforo = s) = U
  BY <1>1 DEF Uno
<1> HIDE DEF U
<1>6. QED
  BY <1>1, <1>4, <1>5, DeudaDespues

LEMMA CuadranFinDeTurno ==
  ASSUME TypeOK, Quietas, NEW c \in CPUs, FinDeTurno(c), NEW s \in Semaforos, Cuadran(s)
  PROVE  Cuadran(s)'
<1> DEFINE cruda == [pid |-> Head(aKernel[c]).pid, semaforo |-> CRUDA]
<1>1. /\ SoloEnHilo(c) /\ hilo'[c].paso = "buscando" /\ valorSemaforo' = valorSemaforo
      /\ \/ colaBloqueado' = colaBloqueado
         \/ cruda \in Bloqueos /\ colaBloqueado' = Append(colaBloqueado, cruda)
  BY EfectoDeFinDeTurno
<1>2. cruda.semaforo = CRUDA /\ CRUDA \notin Semaforos
  BY SemaforosAssumption
<1> HIDE DEF cruda
<1>3. ASSUME cruda \in Bloqueos, colaBloqueado' = Append(colaBloqueado, cruda)
      PROVE  CuentaPor(colaBloqueado', s) = CuentaPor(colaBloqueado, s)
  <2>1. colaBloqueado \in Seq(Bloqueos)
    BY DEF TypeOK, Bloqueos
  <2>2. CuentaPor(Append(colaBloqueado, cruda), s)
          = CuentaPor(colaBloqueado, s) + Uno(cruda.semaforo = s)
    BY <1>3, <2>1, CuentaAlPoner
  <2>3. CuentaPor(colaBloqueado, s) \in Nat /\ Uno(cruda.semaforo = s) = 0
    BY <1>2, <2>1, LugaresFinitos DEF Uno
  <2>4. QED
    BY <1>3, <2>2, <2>3
<1>4. CuentaPor(colaBloqueado', s) = CuentaPor(colaBloqueado, s)
  BY <1>1, <1>3
<1>5. QED
  BY <1>1, <1>4, CuadranIgual

LEMMA CuadranManejador ==
  ASSUME TypeOK, Quietas, NEW c \in CPUs, manejadorCPU(c), kernel = "vivo",
         ~EsperaSinEntrada(c), NEW s \in Semaforos, Cuadran(s)
  PROVE  Cuadran(s)'
<1>1. ASSUME UNCHANGED << colaBloqueado, valorSemaforo, hilo >>
      PROVE  Cuadran(s)'
  BY <1>1, CuadranIgual
<1>2. ASSUME Caer
      PROVE  Cuadran(s)'
  BY <1>1, <1>2 DEF Caer, colas
<1>3. CASE MirarListo(c)
  <2>1. SoloEnHilo(c) /\ hilo'[c].paso = "vioListo" /\ UNCHANGED << colaBloqueado, valorSemaforo >>
    BY <1>3, CambioDePaso DEF MirarListo, Pasos, colas
  <2>2. QED
    BY <2>1, CuadranIgual
<1>4. CASE TomarListo(c) /\ colaListo # << >>
  <2>1. SoloEnHilo(c) /\ hilo'[c].paso = "atendiendo" /\ UNCHANGED << colaBloqueado, valorSemaforo >>
    BY <1>4, EfectoTomarListo
  <2>2. QED
    BY <2>1, CuadranIgual
<1>5. CASE TomarListo(c)
  BY <1>2, <1>4, <1>5 DEF TomarListo
<1>6. CASE EnviarSinTomar(c)
  <2>1. Caer \/ UNCHANGED << colaBloqueado, valorSemaforo, hilo >>
    BY <1>6 DEF EnviarSinTomar, colas
  <2>2. QED
    BY <1>1, <1>2, <2>1
<1>7. ASSUME NEW tipo, SemaforoInexistente(c, tipo)
      PROVE  Cuadran(s)'
  <2>1. PICK p \in Pids : finalizarProceso(p)
    BY <1>7, EfectoDeInexistente
  <2>2. UNCHANGED << valorSemaforo, hilo >>
    BY <1>7, EfectoDeInexistente
  <2>3. QED
    BY <2>1, <2>2, CuentaTrasFinalizar, CuadranIgual
<1>8. CASE signalSemaforo(c)
  <2>1. kernel' = kernel \/ Caer
    BY <1>8 DEF signalSemaforo
  <2>2. QED
    BY <1>2, <1>8, <2>1, CuadranSignal
<1>9. CASE CPUPerdida(c)
  BY <1>2, <1>9 DEF CPUPerdida
<1>10. CASE RecibirCorrido(c)
  <2>1. SoloEnHilo(c) /\ hilo'[c].paso = "atendiendo" /\ UNCHANGED << colaBloqueado, valorSemaforo >>
    BY <1>10, EfectoDeCorrido DEF colas
  <2>2. QED
    BY <2>1, CuadranIgual
<1>11. ~CambiaValor(c)
  BY EfectoDeCambiarValor DEF Quietas, EnMedio
<1>12. QED
  BY <1>3, <1>5, <1>6, <1>7, <1>8, <1>9, <1>10, <1>11, CuadranWait, CuadranFinDeTurno
  DEF manejadorCPU, FinDeTurno, CambiaValor

(* However many CPUs there are, only a request that overlaps another one,  *)
(* or the wait of a process without an entry in colaEjecutando, can take   *)
(* the blocked processes away from what the value of the semaphore owes.   *)
THEOREM SoloElCruceDescuadra == Spec => SoloDescuadraElCruce
<1>1. ASSUME TypeOK, [Next]_vars
      PROVE  [\A s \in Semaforos : Cuadran(s) /\ ~Cuadran(s)' =>
                \E c \in CPUs : EnMedio(c) \/ EsperaSinEntrada(c)]_vars
  <2> SUFFICES ASSUME Next, NEW s \in Semaforos, Cuadran(s),
                      \A c \in CPUs : ~EnMedio(c) /\ ~EsperaSinEntrada(c)
               PROVE  Cuadran(s)'
    BY <1>1
  <2>1. Quietas
    BY DEF Quietas
  <2>2. ASSUME UNCHANGED << colaBloqueado, valorSemaforo, hilo >>
        PROVE  Cuadran(s)'
    BY <1>1, <2>1, <2>2, CuadranIgual
  <2>3. CASE Operadores
    <3>1. CASE ~\E p \in Pids : finalizarPrograma(p)
      <4>1. UNCHANGED << colaBloqueado, valorSemaforo, hilo >>
        BY <2>3, <3>1 DEF Operadores, iniciarPCB, detenerPlanificacion, reanudarPlanificacion,
           modificarGradoMultiprogramacion, SIGUSR1, SoloCPU, colas
      <4>2. QED
        BY <2>2, <4>1
    <3>2. ASSUME NEW p \in Pids, finalizarPrograma(p)
          PROVE  Cuadran(s)'
      <4>1. finalizarProceso(p) /\ UNCHANGED << valorSemaforo, hilo >>
        BY <3>2 DEF finalizarPrograma
      <4>2. QED
        BY <1>1, <2>1, <4>1, CuentaTrasFinalizar, CuadranIgual
    <3>3. QED
      BY <3>1, <3>2
  <2>4. CASE planificarSistema
    <3>1. UNCHANGED << colaBloqueado, valorSemaforo, hilo >>
      BY <2>4 DEF planificarSistema, MirarNuevo, GradoCompleto, TomarNuevo, Admitir, Rechazar,
         Caer, colas
    <3>2. QED
      BY <2>2, <3>1
  <2>5. ASSUME NEW c \in CPUs, manejadorCPU(c), kernel = "vivo"
        PROVE  Cuadran(s)'
    BY <1>1, <2>1, <2>5, CuadranManejador
  <2>6. ASSUME NEW c \in CPUs, CicloCPU(c)
        PROVE  Cuadran(s)'
    <3>1. UNCHANGED SoloCPU
      BY <2>6 DEF CicloCPU, recibirPCBDeKernel, LineaComun, LineaFinal, pedirSignal, pedirWait,
         RespuestaWait, TerminarTurno
    <3>2. QED
      BY <2>2, <3>1 DEF SoloCPU, colas
  <2>7. QED
    BY <2>3, <2>4, <2>5, <2>6 DEF Next
<1>2. QED
  BY <1>1, TipoDelPlanificador, PTL DEF Spec, SoloDescuadraElCruce
=============================================================================

----------------------- MODULE ProtocoloMemoriaProofs ------------------------
(***************************************************************************)
(* Proofs about the kernel as a client of Memoria, for any number of CPUs  *)
(* and programs.  Two threads may serve the same process, so that little   *)
(* can be said of who has it.  What holds is about numbers: a word comes   *)
(* for each thread that waits (EsperaInv), and a page of heap is numbered  *)
(* at least two below its place in the list (PaginasInv), so that only the *)
(* second page of a process, or one after it, has the number of a pointer. *)
(***************************************************************************)
EXTENDS ProtocoloMemoria, SequenceTheorems, FiniteSetTheorems,
        WellFoundedInduction, TLAPS

(* A non-empty set of naturals has a least element.                        *)
LEMMA HayMinimo ==
  ASSUME NEW T \in SUBSET Nat, T # {}
  PROVE  \E n \in T : \A m \in T : n <= m
<1> DEFINE Menor == {ss \in Nat \X Nat : ss[1] < ss[2]}
<1>1. IsWellFoundedOn(Menor, Nat)
  BY NatLessThanWellFounded, Zenon DEF OpToRel
<1>2. PICK n \in T : \A m \in T : <<m, n>> \notin Menor
  <2> HIDE DEF Menor
  <2>1. QED
    BY <1>1, WFMin
<1>3. ASSUME NEW m \in T
      PROVE  n <= m
  <2>1. <<m, n>> \notin Menor
    BY <1>2
  <2>2. ~(m < n)
    BY <2>1
  <2>3. QED
    BY <2>2
<1>4. QED
  BY <1>3

Bloques == [size : 0 .. ANCHO - 1, offset : Int]

PaginasHeap == [pagina : Int, tamanioDisponible : Int, bloques : Seq(Bloques)]

PedidosMemoria ==
  [pid : Pids, pagina : Int,
   tipo : {"INICIAR_PROGRAMA", "ASIGNAR_PAGINAS", "ESCRIBIR_DATOS", "LIBERAR_PAGINA",
           "FINALIZAR_PROCESO"}]

TipoHilo == [paso : {"libre", "atendiendo", "agregando"} \cup Esperas,
             proceso : Pids \cup {SinPid}, pid : Pids \cup {SinPid},
             tamanio : Tamanios \cup {0}, numero : Int]

TipoCPU == [modo : {"libre", "ejecutando", "abortado", "esperando", "muerta", "desfasada"},
            pid : Pids \cup {SinPid}]

TipoPlanificador == [paso : {"mirando", "esperando"}, pid : Pids \cup {SinPid}]

Fines == {"PROCESO_ABORTADO", "PROCESO_FINALIZADO", "PROCESO_FINALIZO_RAFAGA"}

Mensajes ==
  {m \in [tipo : {"RESERVAR_HEAP", "LIBERAR_HEAP"} \cup Fines, pid : Pids, valor : Nat] :
     m.tipo = "RESERVAR_HEAP" => m.valor \in Tamanios}

Palabras == [w : {"MENSAJE_PCB", "OPERACION_EXITOSA", "OPERACION_CON_CPU_FALLIDA",
                  "tamanio", "contenido"}, v : Nat]

Estados == {"anda", "kernel caido", "memoria colgada"}

(* TypeOK, with names for its sets.                                        *)
Tipos ==
  /\ pidActual \in Pids \cup {Cardinality(Pids) + 1}
  /\ colaNuevo \in Seq(Pids) /\ colaListo \in Seq(Pids)
  /\ asignadas \in [Pids -> Nat]
  /\ planificador \in TipoPlanificador
  /\ hilo \in [CPUs -> TipoHilo]
  /\ paginas \in [Pids -> Seq(PaginasHeap)]
  /\ alMemoria \in Seq(PedidosMemoria)
  /\ deMemoria \in Seq(BOOLEAN)
  /\ cpu \in [CPUs -> TipoCPU]
  /\ deMas \in 0 .. MaxDeMas
  /\ \A p \in Pids : pedidos[p] \in 0 .. MaxPedidos[p]
  /\ punteros \in [Pids -> SUBSET (0 .. ANCHO - 1)]
  /\ sistema \in Estados

(* A packet with a PCB is whole.                                           *)
BienFormado(s) ==
  \A i \in DOMAIN s : s[i].w = "MENSAJE_PCB" => i + 2 \in DOMAIN s /\ s[i + 2].v \in Pids

(* The channels, which TypeOK leaves out.                                  *)
CanalesOK ==
  /\ aKernel \in [CPUs -> Seq(Mensajes)] /\ aCPU \in [CPUs -> Seq(Palabras)]
  /\ \A c \in CPUs : BienFormado(aCPU[c])
  /\ pedidos \in [Pids -> Nat]

PidEnUso(h) == h.paso \in {"esperando", "agregando"} => h.pid \in Pids
PidEnCPU(x) == x.modo \in {"ejecutando", "esperando", "abortado"} => x.pid \in Pids

(* Who works for a process knows which one.                                *)
ConPid ==
  /\ planificador.paso = "esperando" => planificador.pid \in Pids
  /\ \A c \in CPUs : PidEnUso(hilo[c]) /\ PidEnCPU(cpu[c])

Numeradas(tabla) == \A i \in DOMAIN tabla : tabla[i].pagina <= i - 2

PorAgregar(h, tabla) == h.paso = "agregando" => h.numero <= Len(tabla) - 1

(* The number of a page was taken before the page was in the list.         *)
PaginasInv ==
  /\ \A p \in Pids : Numeradas(paginas[p])
  /\ \A c \in CPUs : PorAgregar(hilo[c], paginas[hilo[c].pid])

EsperaInv == IsFiniteSet(HilosEsperando) /\ NadieEsperaDeMas

ProtocoloInv ==
  Tipos /\ CanalesOK /\ ConPid /\ PaginasInv /\ SoloDevuelveConDos /\ EsperaInv

LEMMA NombresDeTipos ==
  TypeOK <=> Tipos
BY DEF TypeOK, Tipos, TipoPlanificador, TipoHilo, TipoCPU, PaginasHeap, Bloques, PedidosMemoria,
       Estados

-----------------------------------------------------------------------------
(* Sequences.                                                              *)
LEMMA Agregado ==
  ASSUME NEW S, NEW q \in Seq(S), NEW x \in S
  PROVE  /\ Append(q, x) \in Seq(S) /\ Len(Append(q, x)) = Len(q) + 1 /\ Len(q) \in Nat
         /\ DOMAIN Append(q, x) = 1 .. Len(q) + 1 /\ DOMAIN q = 1 .. Len(q)
         /\ \A i \in 1 .. Len(q) : Append(q, x)[i] = q[i]
         /\ Append(q, x)[Len(q) + 1] = x
BY AppendProperties, LenProperties

LEMMA Concatenado ==
  ASSUME NEW S, NEW q \in Seq(S), NEW r \in Seq(S)
  PROVE  /\ q \o r \in Seq(S) /\ Len(q \o r) = Len(q) + Len(r)
         /\ Len(q) \in Nat /\ Len(r) \in Nat
         /\ DOMAIN (q \o r) = 1 .. Len(q) + Len(r)
         /\ DOMAIN q = 1 .. Len(q) /\ DOMAIN r = 1 .. Len(r)
         /\ \A i \in DOMAIN (q \o r) :
              \/ i \in DOMAIN q /\ (q \o r)[i] = q[i]
              \/ i - Len(q) \in DOMAIN r /\ (q \o r)[i] = r[i - Len(q)]
         /\ \A i \in DOMAIN q : i \in DOMAIN (q \o r) /\ (q \o r)[i] = q[i]
         /\ \A i \in DOMAIN r : i + Len(q) \in DOMAIN (q \o r) /\ (q \o r)[i + Len(q)] = r[i]
<1>1. /\ q \o r \in Seq(S) /\ Len(q \o r) = Len(q) + Len(r)
      /\ \A i \in 1 .. Len(q) + Len(r) :
           (q \o r)[i] = IF i <= Len(q) THEN q[i] ELSE r[i - Len(q)]
  BY ConcatProperties
<1>2. /\ Len(q) \in Nat /\ Len(r) \in Nat /\ DOMAIN (q \o r) = 1 .. Len(q \o r)
      /\ DOMAIN q = 1 .. Len(q) /\ DOMAIN r = 1 .. Len(r)
  BY <1>1, LenProperties
<1> DEFINE u == q \o r
           n == Len(q)
           m == Len(r)
<1>3. /\ \A i \in 1 .. n + m : u[i] = IF i <= n THEN q[i] ELSE r[i - n]
      /\ n \in Nat /\ m \in Nat /\ DOMAIN u = 1 .. n + m /\ DOMAIN q = 1 .. n /\ DOMAIN r = 1 .. m
  BY <1>1, <1>2
<1> HIDE DEF u, n, m
<1>4. \A i \in DOMAIN u :
        \/ i \in DOMAIN q /\ u[i] = q[i]
        \/ i - n \in DOMAIN r /\ u[i] = r[i - n]
  <2>1. TAKE i \in DOMAIN u
  <2>2. CASE i <= n
    BY <1>3, <2>2
  <2>3. CASE ~(i <= n)
    BY <1>3, <2>3
  <2>4. QED
    BY <2>2, <2>3
<1>5. \A i \in DOMAIN q : i \in DOMAIN u /\ u[i] = q[i]
  <2>1. TAKE i \in DOMAIN q
  <2>2. i \in 1 .. n + m /\ i <= n
    BY <1>3
  <2>3. QED
    BY <1>3, <2>2
<1>6. \A i \in DOMAIN r : i + n \in DOMAIN u /\ u[i + n] = r[i]
  <2>1. TAKE i \in DOMAIN r
  <2>2. i + n \in 1 .. n + m /\ ~(i + n <= n) /\ (i + n) - n = i
    BY <1>3
  <2>3. QED
    BY <1>3, <2>2
<1>7. QED
  BY <1>1, <1>2, <1>4, <1>5, <1>6 DEF u, n, m

LEMMA SinElPrimero ==
  ASSUME NEW S, NEW q \in Seq(S), q # << >>
  PROVE  /\ Tail(q) \in Seq(S) /\ Head(q) \in S
         /\ Len(q) \in Nat /\ Len(Tail(q)) = Len(q) - 1
         /\ \A i \in DOMAIN Tail(q) : i \in 1 .. Len(q) - 1 /\ Tail(q)[i] = q[i + 1]
<1>1. /\ Head(q) \in S /\ Tail(q) \in Seq(S) /\ Len(Tail(q)) = Len(q) - 1
      /\ \A i \in 1 .. Len(Tail(q)) : Tail(q)[i] = q[i + 1]
  BY HeadTailProperties
<1>2. /\ Len(q) \in Nat /\ DOMAIN q = 1 .. Len(q) /\ Len(q) # 0
      /\ DOMAIN Tail(q) = 1 .. Len(Tail(q)) /\ Head(q) = q[1]
  BY <1>1, LenProperties, EmptySeq
<1>3. QED
  BY <1>1, <1>2

-----------------------------------------------------------------------------
(* What the searches of the heap return.                                   *)
LEMMA BloqueUtil ==
  ASSUME NEW pagina \in PaginasHeap, NEW t
  PROVE  obtenerBloqueUtil(pagina, t) \in {0} \cup DOMAIN pagina.bloques
<1>1. DEFINE I == {i \in 1 .. Len(pagina.bloques) : pagina.bloques[i].size > t}
<1>2. pagina.bloques \in Seq(Bloques)
  BY DEF PaginasHeap
<1>3. Len(pagina.bloques) \in Nat /\ DOMAIN pagina.bloques = 1 .. Len(pagina.bloques)
  BY <1>2, LenProperties
<1>4. obtenerBloqueUtil(pagina, t) = IF I # {} THEN Min(I) ELSE 0
  BY DEF obtenerBloqueUtil, SelectInSeq
<1>5. CASE I = {}
  BY <1>4, <1>5
<1>6. CASE I # {}
  <2>1. I \subseteq Nat
    BY <1>3
  <2>2. \E n \in I : \A m \in I : n <= m
    BY <1>6, <2>1, HayMinimo
  <2>3. Min(I) \in I
    BY <2>2 DEF Min
  <2>4. QED
    BY <1>3, <1>4, <1>6, <2>3
<1>7. QED
  BY <1>5, <1>6

LEMMA PaginaUtil ==
  ASSUME NEW tabla \in Seq(PaginasHeap), NEW t
  PROVE  LET i == buscarPaginaHeapConSuficienteTamanio(tabla, t) IN
         i # 0 => i \in DOMAIN tabla /\ obtenerBloqueUtil(tabla[i], t) # 0
<1>1. DEFINE I == {i \in 1 .. Len(tabla) : obtenerBloqueUtil(tabla[i], t) # 0}
<1>2. Len(tabla) \in Nat /\ DOMAIN tabla = 1 .. Len(tabla)
  BY LenProperties
<1>3. buscarPaginaHeapConSuficienteTamanio(tabla, t) = IF I # {} THEN Min(I) ELSE 0
  BY DEF buscarPaginaHeapConSuficienteTamanio, SelectInSeq
<1>4. CASE I = {}
  BY <1>3, <1>4
<1>5. CASE I # {}
  <2>1. I \subseteq Nat
    BY <1>2
  <2>2. \E n \in I : \A m \in I : n <= m
    BY <1>5, <2>1, HayMinimo
  <2>3. Min(I) \in I
    BY <2>2 DEF Min
  <2>4. QED
    BY <1>2, <1>3, <1>5, <2>3
<1>6. QED
  BY <1>4, <1>5

(* The width and the type of what an operation of the heap leaves.         *)
LEMMA AnchoPositivo ==
  /\ ANCHO \in Nat /\ ANCHO > 0 /\ TAM_PAGINA \in Nat /\ TAM_PAGINA > 0 /\ TamanioUtil \in Nat
  /\ \A n \in Int : n % ANCHO \in 0 .. ANCHO - 1
<1>1. TAM_PAGINA \in Nat /\ TAM_PAGINA > 10 /\ ANCHO \in Nat /\ ANCHO > 2 * TAM_PAGINA
  BY TamaniosAssumption DEF SizeofHeapMetadata
<1>2. ANCHO > 0
  BY <1>1
<1>3. TamanioUtil \in Nat
  BY <1>1 DEF TamanioUtil, SizeofHeapMetadata
<1>4. \A n \in Int : n % ANCHO \in 0 .. ANCHO - 1
  BY <1>1, <1>2
<1>5. QED
  BY <1>1, <1>2, <1>3, <1>4

LEMMA ConBloqueTipo ==
  ASSUME NEW pg \in PaginasHeap, NEW b \in Bloques, NEW t \in Nat
  PROVE  /\ ConBloque(pg, b, t) \in PaginasHeap
         /\ ConBloque(pg, b, t).pagina = pg.pagina
         /\ ConBloque(pg, b, t).tamanioDisponible = pg.tamanioDisponible
         /\ Puntero(pg, BloqueNuevo(b, t)) \in 0 .. ANCHO - 1
<1>1. DEFINE n == BloqueNuevo(b, t)
<1>2. b.size \in Int /\ b.offset \in Int
  BY AnchoPositivo DEF Bloques
<1>3. /\ b.size - t - SizeofHeapMetadata \in Int
      /\ b.offset + t + SizeofHeapMetadata \in Int
  BY <1>2 DEF SizeofHeapMetadata
<1>4. n \in Bloques
  BY <1>3, AnchoPositivo DEF BloqueNuevo, Bloque, Bloques
<1>5. n.offset \in Int
  BY <1>4 DEF Bloques
<1> HIDE DEF n
<1>6. pg.bloques \in Seq(Bloques) /\ pg.pagina \in Int /\ pg.tamanioDisponible \in Int
  BY DEF PaginasHeap
<1>7. Append(pg.bloques, n) \in Seq(Bloques)
  BY <1>4, <1>6, AppendProperties
<1>8. ConBloque(pg, b, t) = [pg EXCEPT !.bloques = Append(pg.bloques, n)]
  BY DEF ConBloque, n
<1>9. /\ ConBloque(pg, b, t) \in PaginasHeap
      /\ ConBloque(pg, b, t).pagina = pg.pagina
      /\ ConBloque(pg, b, t).tamanioDisponible = pg.tamanioDisponible
  BY <1>7, <1>8 DEF PaginasHeap
<1>10. pg.pagina * TAM_PAGINA + n.offset \in Int
  BY <1>5, <1>6, AnchoPositivo
<1>11. Puntero(pg, n) \in 0 .. ANCHO - 1
  BY <1>10, AnchoPositivo DEF Puntero
<1>12. QED
  BY <1>9, <1>11 DEF n

LEMMA PaginaCambiada ==
  ASSUME NEW tabla \in Seq(PaginasHeap), NEW i \in 1 .. Len(tabla), NEW pg \in PaginasHeap
  PROVE  /\ [tabla EXCEPT ![i] = pg] \in Seq(PaginasHeap)
         /\ Len([tabla EXCEPT ![i] = pg]) = Len(tabla)
BY ExceptSeq

-----------------------------------------------------------------------------
(* The parts of the invariant, when what they speak of hardly changes.     *)
EnMemoria == Len(alMemoria) + Len(deMemoria)

Partes == << hilo, paginas, aKernel, aCPU, cpu, pedidos >>

LEMMA Tipos0 ==
  ASSUME Tipos
  PROVE  /\ Len(alMemoria) \in Nat /\ Len(deMemoria) \in Nat /\ EnMemoria \in Nat
         /\ Pids \subseteq Nat \ {0} /\ PaginasDeCodigo \in Nat
         /\ Tamanios \subseteq Nat /\ MaxPedidos \in [Pids -> Nat]
         /\ \A p \in Pids : Len(paginas[p]) \in Nat
<1>1. Cardinality(Pids) \in Nat /\ Pids = 1 .. Cardinality(Pids)
  BY PidsAssumption, FS_CardinalityType
<1>2. Len(alMemoria) \in Nat /\ Len(deMemoria) \in Nat
  BY LenProperties DEF Tipos
<1>3. PaginasDeCodigo \in Nat /\ Tamanios \subseteq Nat /\ MaxPedidos \in [Pids -> Nat]
  BY TamaniosAssumption
<1>4. ASSUME NEW p \in Pids
      PROVE  Len(paginas[p]) \in Nat
  <2>1. paginas[p] \in Seq(PaginasHeap)
    BY DEF Tipos
  <2>2. QED
    BY <2>1, LenProperties
<1>5. QED
  BY <1>1, <1>2, <1>3, <1>4 DEF EnMemoria

LEMMA PartesIguales ==
  ASSUME CanalesOK, ConPid, PaginasInv, UNCHANGED Partes,
         planificador'.paso = "esperando" => planificador'.pid \in Pids
  PROVE  CanalesOK' /\ ConPid' /\ PaginasInv' /\ HilosEsperando' = HilosEsperando
<1>1. UNCHANGED << hilo, paginas, aKernel, aCPU, cpu, pedidos >>
  BY DEF Partes
<1>2. CanalesOK'
  BY <1>1 DEF CanalesOK, BienFormado
<1>3. ConPid'
  BY <1>1 DEF ConPid, PidEnUso, PidEnCPU
<1>4. PaginasInv'
  BY <1>1 DEF PaginasInv, PorAgregar, Numeradas
<1>5. HilosEsperando' = HilosEsperando
  BY <1>1 DEF HilosEsperando
<1>6. QED
  BY <1>2, <1>3, <1>4, <1>5

(* Requests that are not of a page back, or are of a process with two.     *)
LEMMA SiguenConDos ==
  ASSUME SoloDevuelveConDos, Tipos,
         \A p \in Pids : Len(paginas'[p]) \in Nat /\ Len(paginas'[p]) >= Len(paginas[p]),
         \A i \in DOMAIN alMemoria' :
           \/ \E j \in DOMAIN alMemoria : alMemoria'[i] = alMemoria[j]
           \/ alMemoria'[i].tipo # "LIBERAR_PAGINA"
           \/ Len(paginas'[alMemoria'[i].pid]) >= 2
  PROVE  SoloDevuelveConDos'
<1>1. \A p \in Pids : Len(paginas[p]) \in Nat
  BY Tipos0
<1>2. \A j \in DOMAIN alMemoria : alMemoria[j].pid \in Pids
  <2>1. TAKE j \in DOMAIN alMemoria
  <2>2. alMemoria \in Seq(PedidosMemoria)
    BY DEF Tipos
  <2>3. alMemoria[j] \in PedidosMemoria
    BY <2>2, ElementOfSeq, LenProperties
  <2>4. QED
    BY <2>3 DEF PedidosMemoria
<1>3. ASSUME NEW i \in DOMAIN alMemoria', alMemoria'[i].tipo = "LIBERAR_PAGINA"
      PROVE  Len(paginas'[alMemoria'[i].pid]) >= 2
  <2>1. CASE \E j \in DOMAIN alMemoria : alMemoria'[i] = alMemoria[j]
    <3>1. PICK j \in DOMAIN alMemoria : alMemoria'[i] = alMemoria[j]
      BY <2>1
    <3>2. Len(paginas[alMemoria[j].pid]) >= 2 /\ alMemoria[j].pid \in Pids
      BY <1>2, <1>3, <3>1 DEF SoloDevuelveConDos
    <3>3. QED
      BY <1>1, <3>1, <3>2
  <2>2. QED
    BY <1>3, <2>1
<1>4. QED
  BY <1>3 DEF SoloDevuelveConDos

LEMMA NadaNuevo ==
  ASSUME SoloDevuelveConDos, UNCHANGED << alMemoria, paginas >>
  PROVE  SoloDevuelveConDos'
BY DEF SoloDevuelveConDos

(* How many wait and how many words come.                                  *)
LEMMA EsperanLosMismos ==
  ASSUME EsperaInv, HilosEsperando' = HilosEsperando, EnMemoria \in Int, EnMemoria' \in Int,
         planificador'.paso = "esperando" => planificador.paso = "esperando",
         EnMemoria' >= EnMemoria
  PROVE  EsperaInv'
<1>1. Cardinality(HilosEsperando) \in Nat
  BY FS_CardinalityType DEF EsperaInv
<1>2. Esperan' <= Esperan /\ Esperan \in Nat /\ Esperan' \in Nat
  BY <1>1 DEF Esperan
<1>3. QED
  BY <1>2 DEF EsperaInv, NadieEsperaDeMas, EnMemoria

(* planificarSistema begins or ends its wait.                              *)
LEMMA EsperaElPlanificador ==
  ASSUME EsperaInv, HilosEsperando' = HilosEsperando, EnMemoria \in Int, EnMemoria' \in Int,
         \/ planificador.paso # "esperando" /\ EnMemoria' = EnMemoria + 1
         \/ /\ planificador.paso = "esperando" /\ planificador'.paso # "esperando"
            /\ EnMemoria' >= EnMemoria - 1
  PROVE  EsperaInv'
<1>1. Cardinality(HilosEsperando) \in Nat
  BY FS_CardinalityType DEF EsperaInv
<1>2. Cardinality(HilosEsperando)' = Cardinality(HilosEsperando)
  OBVIOUS
<1>3. Cardinality(HilosEsperando) + (IF planificador.paso = "esperando" THEN 1 ELSE 0) <= EnMemoria
  BY DEF EsperaInv, NadieEsperaDeMas, Esperan, EnMemoria
<1>4. Esperan' <= EnMemoria'
  BY <1>1, <1>2, <1>3 DEF Esperan
<1>5. QED
  BY <1>4 DEF EsperaInv, NadieEsperaDeMas, EnMemoria

(* A thread begins or ends its wait.                                       *)
LEMMA EsperaUnHilo ==
  ASSUME EsperaInv, NEW c, planificador' = planificador, EnMemoria \in Int, EnMemoria' \in Int,
         \/ HilosEsperando' = HilosEsperando \cup {c} /\ EnMemoria' >= EnMemoria + 1
         \/ /\ c \in HilosEsperando /\ HilosEsperando' = HilosEsperando \ {c}
            /\ EnMemoria' >= EnMemoria - 1
  PROVE  EsperaInv'
<1>0. IsFiniteSet(HilosEsperando) /\ Cardinality(HilosEsperando) \in Nat
  BY FS_CardinalityType DEF EsperaInv
<1>1. DEFINE e == IF planificador.paso = "esperando" THEN 1 ELSE 0
             n == Cardinality(HilosEsperando)
             N == Cardinality(HilosEsperando')
<1>2. e \in Nat /\ n \in Nat /\ n + e <= EnMemoria /\ Esperan' = N + e
  BY <1>0 DEF EsperaInv, NadieEsperaDeMas, Esperan, EnMemoria
<1>3. CASE HilosEsperando' = HilosEsperando \cup {c} /\ EnMemoria' >= EnMemoria + 1
  <2>1. IsFiniteSet(HilosEsperando') /\ N \in Nat /\ N <= n + 1
    BY <1>0, <1>3, FS_AddElement, FS_CardinalityType
  <2> HIDE DEF e, n, N
  <2>2. N + e <= EnMemoria'
    BY <1>2, <1>3, <2>1
  <2>3. QED
    BY <1>2, <2>1, <2>2 DEF EsperaInv, NadieEsperaDeMas, EnMemoria
<1>4. CASE /\ c \in HilosEsperando /\ HilosEsperando' = HilosEsperando \ {c}
           /\ EnMemoria' >= EnMemoria - 1
  <2>1. IsFiniteSet(HilosEsperando') /\ N \in Nat /\ N = n - 1
    BY <1>0, <1>4, FS_RemoveElement, FS_CardinalityType
  <2> HIDE DEF e, n, N
  <2>2. N + e <= EnMemoria'
    BY <1>2, <1>4, <2>1
  <2>3. QED
    BY <1>2, <2>1, <2>2 DEF EsperaInv, NadieEsperaDeMas, EnMemoria
<1>5. QED
  BY <1>3, <1>4

LEMMA HilosQueEsperan ==
  ASSUME NEW c \in CPUs, \A d \in CPUs \ {c} : hilo'[d] = hilo[d]
  PROVE  /\ hilo'[c].paso \in Esperas => HilosEsperando' = HilosEsperando \cup {c}
         /\ hilo'[c].paso \notin Esperas => HilosEsperando' = HilosEsperando \ {c}
         /\ hilo[c].paso \in Esperas <=> c \in HilosEsperando
<1>1. /\ HilosEsperando' = {d \in CPUs : hilo'[d].paso \in Esperas}
      /\ HilosEsperando = {d \in CPUs : hilo[d].paso \in Esperas}
  BY DEF HilosEsperando
<1>2. \A d \in CPUs \ {c} : hilo'[d].paso \in Esperas <=> hilo[d].paso \in Esperas
  OBVIOUS
<1>3. QED
  BY <1>1, <1>2

(* A step of the thread of one CPU.                                        *)
LEMMA EsperaDelHilo ==
  ASSUME EsperaInv, NEW c \in CPUs, planificador' = planificador,
         \A d \in CPUs \ {c} : hilo'[d] = hilo[d],
         EnMemoria \in Int, EnMemoria' \in Int,
         \/ /\ hilo[c].paso \notin Esperas /\ hilo'[c].paso \notin Esperas
            /\ EnMemoria' >= EnMemoria
         \/ hilo'[c].paso \in Esperas /\ EnMemoria' >= EnMemoria + 1
         \/ /\ hilo[c].paso \in Esperas /\ hilo'[c].paso \notin Esperas
            /\ EnMemoria' >= EnMemoria - 1
  PROVE  EsperaInv'
<1>1. CASE /\ hilo[c].paso \notin Esperas /\ hilo'[c].paso \notin Esperas
           /\ EnMemoria' >= EnMemoria
  <2>0. HilosEsperando' = HilosEsperando \ {c} /\ c \notin HilosEsperando
    BY <1>1, HilosQueEsperan
  <2>1. HilosEsperando' = HilosEsperando
    BY <2>0
  <2>2. planificador'.paso = planificador.paso
    OBVIOUS
  <2>3. QED
    BY <1>1, <2>1, <2>2, EsperanLosMismos
<1>2. CASE hilo'[c].paso \in Esperas /\ EnMemoria' >= EnMemoria + 1
  BY <1>2, HilosQueEsperan, EsperaUnHilo
<1>3. CASE /\ hilo[c].paso \in Esperas /\ hilo'[c].paso \notin Esperas
           /\ EnMemoria' >= EnMemoria - 1
  BY <1>3, HilosQueEsperan, EsperaUnHilo
<1>4. QED
  BY <1>1, <1>2, <1>3

-----------------------------------------------------------------------------
(* Memoria.                                                                *)
LEMMA RespondeInv ==
  ASSUME ProtocoloInv, NEW exito \in BOOLEAN, alMemoria # << >>, Responder(exito),
         asignadas' \in [Pids -> Nat]
  PROVE  ProtocoloInv'
<1>0. Tipos /\ CanalesOK /\ ConPid /\ PaginasInv /\ SoloDevuelveConDos /\ EsperaInv
  BY DEF ProtocoloInv
<1>1. /\ alMemoria' = Tail(alMemoria) /\ deMemoria' = Append(deMemoria, exito)
      /\ UNCHANGED << pidActual, colaNuevo, colaListo, cpu, deMas, pedidos, punteros, planificador,
                      hilo, paginas, aKernel, aCPU, sistema >>
  BY DEF Responder, procesos, programas
<1>2. /\ alMemoria \in Seq(PedidosMemoria) /\ deMemoria \in Seq(BOOLEAN)
      /\ paginas \in [Pids -> Seq(PaginasHeap)]
  BY <1>0 DEF Tipos
<1>3. /\ alMemoria' \in Seq(PedidosMemoria) /\ Len(alMemoria') = Len(alMemoria) - 1
      /\ \A i \in DOMAIN alMemoria' : i + 1 \in DOMAIN alMemoria /\ alMemoria'[i] = alMemoria[i + 1]
  <2>1. DOMAIN alMemoria = 1 .. Len(alMemoria)
    BY <1>2, LenProperties
  <2>2. QED
    BY <1>1, <1>2, <2>1, SinElPrimero
<1>4. deMemoria' \in Seq(BOOLEAN) /\ Len(deMemoria') = Len(deMemoria) + 1
  BY <1>1, <1>2, Agregado
<1>5. Tipos'
  BY <1>0, <1>1, <1>3, <1>4 DEF Tipos
<1>6. CanalesOK' /\ ConPid' /\ PaginasInv' /\ HilosEsperando' = HilosEsperando
  <2>1. planificador'.paso = "esperando" => planificador'.pid \in Pids
    BY <1>0, <1>1 DEF ConPid
  <2>2. QED
    BY <1>0, <1>1, <2>1, PartesIguales DEF Partes
<1>7. SoloDevuelveConDos'
  BY <1>0, <1>1, <1>3, SiguenConDos, Tipos0
<1>8. EsperaInv'
  <2>1. EnMemoria \in Int /\ EnMemoria' = EnMemoria
    BY <1>0, <1>3, <1>4, Tipos0 DEF EnMemoria
  <2>2. QED
    BY <1>0, <1>1, <1>6, <2>1, EsperanLosMismos
<1>9. QED
  BY <1>5, <1>6, <1>7, <1>8 DEF ProtocoloInv

LEMMA MemoriaInv ==
  ASSUME ProtocoloInv, Memoria
  PROVE  ProtocoloInv'
<1>0. asignadas \in [Pids -> Nat] /\ PaginasDeCodigo \in Nat
  BY Tipos0 DEF ProtocoloInv, Tipos
<1>1. ASSUME NEW exito \in BOOLEAN, MemoriaInicia(exito)
      PROVE  ProtocoloInv'
  <2>1. asignadas' \in [Pids -> Nat]
    BY <1>0, <1>1 DEF MemoriaInicia
  <2>2. QED
    BY <1>1, <2>1, RespondeInv DEF MemoriaInicia, Atiende
<1>2. ASSUME NEW exito \in BOOLEAN, MemoriaAsigna(exito)
      PROVE  ProtocoloInv'
  <2>1. asignadas' \in [Pids -> Nat]
    <3>1. DEFINE p == Head(alMemoria).pid
    <3>2. asignadas' = [asignadas EXCEPT ![p] = IF exito THEN asignadas[p] + 1 ELSE asignadas[p]]
      BY <1>2 DEF MemoriaAsigna
    <3>3. p \in Pids
      <4>1. alMemoria # << >> /\ alMemoria \in Seq(PedidosMemoria)
        BY <1>2 DEF MemoriaAsigna, Atiende, ProtocoloInv, Tipos
      <4>2. Head(alMemoria) \in PedidosMemoria
        BY <4>1, HeadTailProperties
      <4>3. QED
        BY <4>2 DEF PedidosMemoria
    <3> HIDE DEF p
    <3>4. QED
      BY <1>0, <3>2, <3>3
  <2>2. QED
    BY <1>2, <2>1, RespondeInv DEF MemoriaAsigna, Atiende
<1>3. ASSUME MemoriaUsaPagina
      PROVE  ProtocoloInv'
  <2>1. DEFINE m == Head(alMemoria)
               esta == m.pagina \in 0 .. (asignadas[m.pid] - 1)
  <2>2. alMemoria # << >> /\ Responder(esta)
    BY <1>3 DEF MemoriaUsaPagina, Atiende
  <2>3. m \in PedidosMemoria
    BY <2>2, HeadTailProperties DEF ProtocoloInv, Tipos
  <2>4. m.pid \in Pids
    BY <2>3 DEF PedidosMemoria
  <2>5. asignadas' = [asignadas EXCEPT ![m.pid] =
                        IF esta /\ m.tipo = "LIBERAR_PAGINA" THEN asignadas[m.pid] - 1
                                                             ELSE asignadas[m.pid]]
    BY <1>3 DEF MemoriaUsaPagina
  <2>6. esta => asignadas[m.pid] - 1 \in Nat
    BY <1>0, <2>3, <2>4 DEF PedidosMemoria
  <2> HIDE DEF m, esta
  <2>7. asignadas' \in [Pids -> Nat]
    BY <1>0, <2>4, <2>5, <2>6
  <2>8. esta \in BOOLEAN
    BY DEF esta
  <2>9. QED
    BY <2>2, <2>7, <2>8, RespondeInv
<1>4. ASSUME MemoriaFinaliza
      PROVE  ProtocoloInv'
  <2>1. asignadas' \in [Pids -> Nat]
    BY <1>0, <1>4 DEF MemoriaFinaliza
  <2>2. QED
    BY <1>4, <2>1, RespondeInv DEF MemoriaFinaliza, Atiende
<1>5. QED
  BY <1>1, <1>2, <1>3, <1>4 DEF Memoria

(* Nothing moves but who is said to have stopped.                          *)
LEMMA PararInv ==
  ASSUME ProtocoloInv, NEW quien \in Estados, Parar(quien)
  PROVE  ProtocoloInv'
<1>0. Tipos /\ CanalesOK /\ ConPid /\ PaginasInv /\ SoloDevuelveConDos /\ EsperaInv
  BY DEF ProtocoloInv
<1>1. /\ sistema' = quien
      /\ UNCHANGED << pidActual, colaNuevo, colaListo, cpu, deMas, pedidos, punteros, planificador,
                      hilo, paginas, aKernel, aCPU, alMemoria, deMemoria, asignadas >>
  BY DEF Parar, procesos, memoria, programas
<1>2. Tipos'
  BY <1>0, <1>1 DEF Tipos
<1>3. CanalesOK' /\ ConPid' /\ PaginasInv' /\ HilosEsperando' = HilosEsperando
  <2>1. planificador'.paso = "esperando" => planificador'.pid \in Pids
    BY <1>0, <1>1 DEF ConPid
  <2>2. QED
    BY <1>0, <1>1, <2>1, PartesIguales DEF Partes
<1>4. SoloDevuelveConDos'
  BY <1>0, <1>1, NadaNuevo
<1>5. EsperaInv'
  <2>0. alMemoria' = alMemoria /\ deMemoria' = deMemoria /\ planificador' = planificador
    BY <1>1
  <2>1. EnMemoria \in Int /\ EnMemoria' = EnMemoria
    BY <1>0, <2>0, Tipos0 DEF EnMemoria
  <2>2. EnMemoria' \in Int /\ EnMemoria' >= EnMemoria /\ planificador'.paso = planificador.paso
    BY <2>0, <2>1
  <2>3. QED
    BY <1>0, <1>3, <2>1, <2>2, EsperanLosMismos
<1>6. QED
  BY <1>2, <1>3, <1>4, <1>5 DEF ProtocoloInv

-----------------------------------------------------------------------------
(* Programs and the scheduler.                                             *)
LEMMA IniciarInv ==
  ASSUME ProtocoloInv, iniciarPCB
  PROVE  ProtocoloInv'
<1>0. Tipos /\ CanalesOK /\ ConPid /\ PaginasInv /\ SoloDevuelveConDos /\ EsperaInv
  BY DEF ProtocoloInv
<1>1. /\ pidActual \in Pids /\ pidActual' = pidActual + 1
      /\ colaNuevo' = Append(colaNuevo, pidActual)
      /\ UNCHANGED << colaListo, cpu, deMas, pedidos, punteros, planificador,
                      hilo, paginas, aKernel, aCPU, alMemoria, deMemoria, asignadas, sistema >>
  BY DEF iniciarPCB, memoria, programas
<1>2. pidActual' \in Pids \cup {Cardinality(Pids) + 1}
  <2>1. Cardinality(Pids) \in Nat /\ Pids = 1 .. Cardinality(Pids)
    BY PidsAssumption, FS_CardinalityType
  <2>2. QED
    BY <1>1, <2>1
<1>3. colaNuevo' \in Seq(Pids)
  <2>1. colaNuevo \in Seq(Pids)
    BY <1>0 DEF Tipos
  <2>2. QED
    BY <1>1, <2>1, Agregado
<1>4. Tipos'
  BY <1>0, <1>1, <1>2, <1>3 DEF Tipos
<1>5. CanalesOK' /\ ConPid' /\ PaginasInv' /\ HilosEsperando' = HilosEsperando
  <2>1. planificador'.paso = "esperando" => planificador'.pid \in Pids
    BY <1>0, <1>1 DEF ConPid
  <2>2. QED
    BY <1>0, <1>1, <2>1, PartesIguales DEF Partes
<1>6. SoloDevuelveConDos'
  BY <1>0, <1>1, NadaNuevo
<1>7. EsperaInv'
  <2>0. alMemoria' = alMemoria /\ deMemoria' = deMemoria /\ planificador' = planificador
    BY <1>1
  <2>1. EnMemoria \in Int /\ EnMemoria' = EnMemoria
    BY <1>0, <2>0, Tipos0 DEF EnMemoria
  <2>2. EnMemoria' \in Int /\ EnMemoria' >= EnMemoria /\ planificador'.paso = planificador.paso
    BY <2>0, <2>1
  <2>3. QED
    BY <1>0, <1>5, <2>1, <2>2, EsperanLosMismos
<1>8. QED
  BY <1>4, <1>5, <1>6, <1>7 DEF ProtocoloInv

LEMMA MandarInicioInv ==
  ASSUME ProtocoloInv, MandarInicio
  PROVE  ProtocoloInv'
<1>0. Tipos /\ CanalesOK /\ ConPid /\ PaginasInv /\ SoloDevuelveConDos /\ EsperaInv
  BY DEF ProtocoloInv
<1> DEFINE p == Head(colaNuevo)
           m == Pedido("INICIAR_PROGRAMA", p, 0)
<1>1. /\ planificador.paso = "mirando" /\ colaNuevo # << >> /\ colaNuevo' = Tail(colaNuevo)
      /\ alMemoria' = Append(alMemoria, m)
      /\ planificador' = [paso |-> "esperando", pid |-> p]
      /\ UNCHANGED << pidActual, colaListo, cpu, deMas, pedidos, punteros,
                      hilo, paginas, aKernel, aCPU, deMemoria, asignadas, sistema >>
  BY DEF MandarInicio, SoloPlanificador, Pedir, programas
<1>2. colaNuevo \in Seq(Pids) /\ alMemoria \in Seq(PedidosMemoria)
  BY <1>0 DEF Tipos
<1>3. colaNuevo' \in Seq(Pids) /\ p \in Pids
  BY <1>1, <1>2, SinElPrimero
<1>4. m \in PedidosMemoria /\ m.tipo # "LIBERAR_PAGINA"
  BY <1>3 DEF Pedido, PedidosMemoria
<1> HIDE DEF p, m
<1>5. /\ alMemoria' \in Seq(PedidosMemoria) /\ Len(alMemoria') = Len(alMemoria) + 1
      /\ Len(alMemoria) \in Nat
      /\ DOMAIN alMemoria' = 1 .. Len(alMemoria) + 1 /\ DOMAIN alMemoria = 1 .. Len(alMemoria)
      /\ \A i \in 1 .. Len(alMemoria) : alMemoria'[i] = alMemoria[i]
      /\ alMemoria'[Len(alMemoria) + 1] = m
  BY <1>1, <1>2, <1>4, Agregado
<1>6. planificador' \in TipoPlanificador /\ planificador'.pid \in Pids
  BY <1>1, <1>3 DEF TipoPlanificador
<1>7. Tipos'
  BY <1>0, <1>1, <1>3, <1>5, <1>6 DEF Tipos
<1>8. CanalesOK' /\ ConPid' /\ PaginasInv' /\ HilosEsperando' = HilosEsperando
  BY <1>0, <1>1, <1>6, PartesIguales DEF Partes
<1>9. SoloDevuelveConDos'
  <2>1. \A i \in DOMAIN alMemoria' :
          \/ \E j \in DOMAIN alMemoria : alMemoria'[i] = alMemoria[j]
          \/ alMemoria'[i].tipo # "LIBERAR_PAGINA"
    BY <1>4, <1>5
  <2>2. QED
    BY <1>0, <1>1, <2>1, SiguenConDos, Tipos0
<1>10. EsperaInv'
  <2>1. EnMemoria \in Int /\ EnMemoria' \in Int /\ EnMemoria' = EnMemoria + 1
    BY <1>0, <1>1, <1>5, Tipos0 DEF EnMemoria
  <2>2. planificador.paso # "esperando"
    BY <1>1
  <2>3. QED
    BY <1>0, <1>8, <2>1, <2>2, EsperaElPlanificador
<1>11. QED
  BY <1>7, <1>8, <1>9, <1>10 DEF ProtocoloInv

LEMMA RecibirInicioInv ==
  ASSUME ProtocoloInv, RecibirInicio
  PROVE  ProtocoloInv'
<1>0. Tipos /\ CanalesOK /\ ConPid /\ PaginasInv /\ SoloDevuelveConDos /\ EsperaInv
  BY DEF ProtocoloInv
<1> DEFINE p == planificador.pid
           s == EscriturasDeCodigo(p)
<1>1. /\ planificador.paso = "esperando" /\ deMemoria # << >> /\ deMemoria' = Tail(deMemoria)
      /\ \/ alMemoria' = alMemoria \o s /\ colaListo' = Append(colaListo, p)
         \/ alMemoria' = alMemoria /\ colaListo' = colaListo
      /\ planificador' = Ocioso
      /\ UNCHANGED << pidActual, colaNuevo, cpu, deMas, pedidos, punteros,
                      hilo, paginas, aKernel, aCPU, asignadas, sistema >>
  BY DEF RecibirInicio, recvDeMemoria, SoloPlanificador, programas
<1>2. /\ colaListo \in Seq(Pids) /\ alMemoria \in Seq(PedidosMemoria)
      /\ deMemoria \in Seq(BOOLEAN) /\ p \in Pids /\ PaginasDeCodigo \in Nat
  BY <1>0, <1>1, Tipos0 DEF Tipos, ConPid
<1>3. /\ s \in Seq(PedidosMemoria)
      /\ \A i \in DOMAIN s : s[i].tipo # "LIBERAR_PAGINA"
  <2>1. \A i \in 1 .. PaginasDeCodigo : Pedido("ESCRIBIR_DATOS", p, i - 1) \in PedidosMemoria
    BY <1>2 DEF Pedido, PedidosMemoria
  <2>2. s \in [1 .. PaginasDeCodigo -> PedidosMemoria]
    BY <2>1 DEF EscriturasDeCodigo
  <2>3. s \in Seq(PedidosMemoria)
    BY <1>2, <2>2, SeqDef
  <2>4. DOMAIN s = 1 .. PaginasDeCodigo /\ \A i \in 1 .. PaginasDeCodigo : s[i].tipo = "ESCRIBIR_DATOS"
    BY DEF EscriturasDeCodigo, Pedido
  <2>5. QED
    BY <2>3, <2>4
<1> HIDE DEF p, s
<1>4. deMemoria' \in Seq(BOOLEAN) /\ Len(deMemoria') = Len(deMemoria) - 1
  BY <1>1, <1>2, SinElPrimero
<1>5. /\ colaListo' \in Seq(Pids) /\ alMemoria' \in Seq(PedidosMemoria)
      /\ Len(alMemoria') \in Nat /\ Len(alMemoria') >= Len(alMemoria)
      /\ \A i \in DOMAIN alMemoria' :
           \/ \E j \in DOMAIN alMemoria : alMemoria'[i] = alMemoria[j]
           \/ alMemoria'[i].tipo # "LIBERAR_PAGINA"
  <2>1. CASE alMemoria' = alMemoria \o s /\ colaListo' = Append(colaListo, p)
    <3>1. colaListo' \in Seq(Pids)
      BY <1>2, <2>1, Agregado
    <3>2. /\ alMemoria \o s \in Seq(PedidosMemoria)
          /\ Len(alMemoria \o s) = Len(alMemoria) + Len(s) /\ Len(alMemoria) \in Nat /\ Len(s) \in Nat
          /\ \A i \in DOMAIN (alMemoria \o s) :
               \/ i \in DOMAIN alMemoria /\ (alMemoria \o s)[i] = alMemoria[i]
               \/ i - Len(alMemoria) \in DOMAIN s /\ (alMemoria \o s)[i] = s[i - Len(alMemoria)]
      BY <1>2, <1>3, Concatenado
    <3>3. QED
      BY <1>3, <2>1, <3>1, <3>2
  <2>2. CASE alMemoria' = alMemoria /\ colaListo' = colaListo
    BY <1>2, <2>2, LenProperties
  <2>3. QED
    BY <1>1, <2>1, <2>2
<1>6. planificador' \in TipoPlanificador /\ planificador'.paso # "esperando"
  BY <1>1 DEF TipoPlanificador, Ocioso
<1>7. Tipos'
  BY <1>0, <1>1, <1>4, <1>5, <1>6 DEF Tipos
<1>8. CanalesOK' /\ ConPid' /\ PaginasInv' /\ HilosEsperando' = HilosEsperando
  BY <1>0, <1>1, <1>6, PartesIguales DEF Partes
<1>9. SoloDevuelveConDos'
  BY <1>0, <1>1, <1>5, SiguenConDos, Tipos0
<1>10. EsperaInv'
  <2>1. EnMemoria \in Int /\ EnMemoria' \in Int /\ EnMemoria' >= EnMemoria - 1
    BY <1>0, <1>4, <1>5, Tipos0 DEF EnMemoria
  <2>2. QED
    BY <1>0, <1>1, <1>6, <1>8, <2>1, EsperaElPlanificador
<1>11. QED
  BY <1>7, <1>8, <1>9, <1>10 DEF ProtocoloInv

-----------------------------------------------------------------------------
(* What a thread takes and sends.                                          *)
LEMMA MensajeTomado ==
  ASSUME CanalesOK, NEW c \in CPUs, aKernel[c] # << >>, Recibido(c)
  PROVE  /\ aKernel' \in [CPUs -> Seq(Mensajes)] /\ Head(aKernel[c]) \in Mensajes
         /\ Head(aKernel[c]).pid \in Pids /\ Head(aKernel[c]).valor \in Nat
         /\ Head(aKernel[c]).tipo = "RESERVAR_HEAP" => Head(aKernel[c]).valor \in Tamanios
<1> DEFINE k == Tail(aKernel[c])
           m == Head(aKernel[c])
<1>1. aKernel \in [CPUs -> Seq(Mensajes)]
  BY DEF CanalesOK
<1>2. k \in Seq(Mensajes) /\ m \in Mensajes
  BY <1>1, SinElPrimero
<1>3. aKernel' = [aKernel EXCEPT ![c] = k]
  BY DEF Recibido
<1> HIDE DEF k, m
<1>4. aKernel' \in [CPUs -> Seq(Mensajes)]
  BY <1>1, <1>2, <1>3
<1>5. m.pid \in Pids /\ m.valor \in Nat /\ (m.tipo = "RESERVAR_HEAP" => m.valor \in Tamanios)
  BY <1>2 DEF Mensajes
<1>6. QED
  BY <1>2, <1>4, <1>5 DEF m

LEMMA EnvioDePaquete ==
  ASSUME CanalesOK, NEW c \in CPUs, NEW tipo \in {"MENSAJE_PCB", "OPERACION_EXITOSA"},
         NEW v \in Nat, tipo = "MENSAJE_PCB" => v \in Pids, sendRemasterizado(c, tipo, v)
  PROVE  aCPU' \in [CPUs -> Seq(Palabras)] /\ \A d \in CPUs : BienFormado(aCPU'[d])
<1> DEFINE s == aCPU[c]
           q == Paquete(tipo, v)
           u == s \o q
<1>1. aCPU \in [CPUs -> Seq(Palabras)] /\ \A d \in CPUs : BienFormado(aCPU[d])
  BY DEF CanalesOK
<1>2. /\ q \in Seq(Palabras) /\ Len(q) = 3 /\ DOMAIN q = 1 .. 3
      /\ q[1].w = tipo /\ q[2].w = "tamanio" /\ q[3].w = "contenido" /\ q[3].v = v
  BY DEF Paquete, Palabra, Palabras
<1>3. aCPU' = [aCPU EXCEPT ![c] = u]
  BY DEF sendRemasterizado
<1> HIDE DEF q
<1>4. s \in Seq(Palabras) /\ BienFormado(s)
  BY <1>1
<1> HIDE DEF s
<1>5. /\ u \in Seq(Palabras)
      /\ Len(s) \in Nat
      /\ DOMAIN u = 1 .. Len(s) + 3 /\ DOMAIN s = 1 .. Len(s)
      /\ \A i \in DOMAIN u :
           \/ i \in DOMAIN s /\ u[i] = s[i]
           \/ i - Len(s) \in DOMAIN q /\ u[i] = q[i - Len(s)]
      /\ \A i \in DOMAIN s : i \in DOMAIN u /\ u[i] = s[i]
      /\ \A i \in DOMAIN q : i + Len(s) \in DOMAIN u /\ u[i + Len(s)] = q[i]
  <2>0. s \in Seq(Palabras) /\ q \in Seq(Palabras)
    BY <1>2, <1>4
  <2>1. /\ u \in Seq(Palabras) /\ Len(s) \in Nat
        /\ DOMAIN u = 1 .. Len(s) + Len(q) /\ DOMAIN s = 1 .. Len(s)
        /\ \A i \in DOMAIN u :
             \/ i \in DOMAIN s /\ u[i] = s[i]
             \/ i - Len(s) \in DOMAIN q /\ u[i] = q[i - Len(s)]
        /\ \A i \in DOMAIN s : i \in DOMAIN u /\ u[i] = s[i]
        /\ \A i \in DOMAIN q : i + Len(s) \in DOMAIN u /\ u[i + Len(s)] = q[i]
    BY ONLY <2>0, Concatenado
  <2>2. Len(q) = 3
    BY <1>2
  <2> HIDE DEF u
  <2>3. 1 .. Len(s) + Len(q) = 1 .. Len(s) + 3
    BY <2>2
  <2>4. QED
    BY <2>1, <2>3, Zenon
<1> HIDE DEF u
<1>6. ASSUME NEW i \in DOMAIN u, u[i].w = "MENSAJE_PCB"
      PROVE  i + 2 \in DOMAIN u /\ u[i + 2].v \in Pids
  <2>1. CASE i \in DOMAIN s /\ u[i] = s[i]
    <3>1. i + 2 \in DOMAIN s /\ s[i + 2].v \in Pids
      BY <1>4, <1>6, <2>1 DEF BienFormado
    <3>2. QED
      BY <1>5, <3>1
  <2>2. CASE i - Len(s) \in DOMAIN q /\ u[i] = q[i - Len(s)]
    <3>1. i - Len(s) = 1 /\ tipo = "MENSAJE_PCB"
      BY <1>2, <1>6, <2>2
    <3>2. 3 \in DOMAIN q /\ i + 2 = 3 + Len(s)
      BY <1>2, <1>5, <3>1
    <3>3. 3 + Len(s) \in DOMAIN u /\ u[3 + Len(s)] = q[3]
      BY <1>5, <3>2
    <3>4. QED
      BY <1>2, <3>1, <3>2, <3>3
  <2>3. QED
    BY <1>5, <2>1, <2>2
<1>7. BienFormado(u)
  BY <1>6 DEF BienFormado
<1>8. \A d \in CPUs : aCPU'[d] = IF d = c THEN u ELSE aCPU[d]
  BY <1>1, <1>3
<1>9. QED
  BY <1>1, <1>3, <1>5, <1>7, <1>8

LEMMA EnvioDePalabra ==
  ASSUME CanalesOK, NEW c \in CPUs, sendDeNotificacion(c, "OPERACION_CON_CPU_FALLIDA")
  PROVE  aCPU' \in [CPUs -> Seq(Palabras)] /\ \A d \in CPUs : BienFormado(aCPU'[d])
<1> DEFINE s == aCPU[c]
           x == Palabra("OPERACION_CON_CPU_FALLIDA", 0)
           u == Append(s, x)
<1>1. aCPU \in [CPUs -> Seq(Palabras)] /\ \A d \in CPUs : BienFormado(aCPU[d])
  BY DEF CanalesOK
<1>2. x \in Palabras /\ x.w # "MENSAJE_PCB"
  BY DEF Palabra, Palabras
<1>3. aCPU' = [aCPU EXCEPT ![c] = u]
  BY DEF sendDeNotificacion
<1>4. s \in Seq(Palabras) /\ BienFormado(s)
  BY <1>1
<1> HIDE DEF s, x
<1>5. /\ u \in Seq(Palabras) /\ Len(s) \in Nat
      /\ DOMAIN u = 1 .. Len(s) + 1 /\ DOMAIN s = 1 .. Len(s)
      /\ \A i \in 1 .. Len(s) : u[i] = s[i]
      /\ u[Len(s) + 1] = x
  BY <1>2, <1>4, Agregado
<1> HIDE DEF u
<1>6. BienFormado(u)
  BY <1>2, <1>4, <1>5 DEF BienFormado
<1>7. \A d \in CPUs : aCPU'[d] = IF d = c THEN u ELSE aCPU[d]
  BY <1>1, <1>3
<1>8. QED
  BY <1>1, <1>3, <1>5, <1>6, <1>7

(* A request at the end of those of Memoria.                               *)
LEMMA PedidoAlFinal ==
  ASSUME Tipos, NEW m \in PedidosMemoria, alMemoria' = Append(alMemoria, m)
  PROVE  /\ alMemoria' \in Seq(PedidosMemoria) /\ Len(alMemoria') = Len(alMemoria) + 1
         /\ Len(alMemoria) \in Nat
         /\ \A i \in DOMAIN alMemoria' :
              (\E j \in DOMAIN alMemoria : alMemoria'[i] = alMemoria[j]) \/ alMemoria'[i] = m
<1>1. alMemoria \in Seq(PedidosMemoria)
  BY DEF Tipos
<1>2. /\ alMemoria' \in Seq(PedidosMemoria) /\ Len(alMemoria') = Len(alMemoria) + 1
      /\ Len(alMemoria) \in Nat
      /\ DOMAIN alMemoria' = 1 .. Len(alMemoria) + 1 /\ DOMAIN alMemoria = 1 .. Len(alMemoria)
      /\ \A i \in 1 .. Len(alMemoria) : alMemoria'[i] = alMemoria[i]
      /\ alMemoria'[Len(alMemoria) + 1] = m
  BY <1>1, Agregado
<1>3. QED
  BY <1>2

LEMMA PasoDelHilo ==
  ASSUME ProtocoloInv, NEW c \in CPUs, UNCHANGED SoloHilo, sistema' \in Estados \cup {sistema},
         colaListo' \in Seq(Pids), deMas' \in 0 .. MaxDeMas,
         hilo' \in [CPUs -> TipoHilo], \A d \in CPUs \ {c} : hilo'[d] = hilo[d],
         PidEnUso(hilo'[c]), PorAgregar(hilo'[c], paginas'[hilo'[c].pid]),
         aKernel' \in [CPUs -> Seq(Mensajes)], aCPU' \in [CPUs -> Seq(Palabras)],
         \A d \in CPUs : BienFormado(aCPU'[d]),
         alMemoria' \in Seq(PedidosMemoria), deMemoria' \in Seq(BOOLEAN),
         paginas' \in [Pids -> Seq(PaginasHeap)],
         \A p \in Pids : Numeradas(paginas'[p]) /\ Len(paginas'[p]) >= Len(paginas[p]),
         punteros' \in [Pids -> SUBSET (0 .. ANCHO - 1)],
         \A i \in DOMAIN alMemoria' :
           \/ \E j \in DOMAIN alMemoria : alMemoria'[i] = alMemoria[j]
           \/ alMemoria'[i].tipo # "LIBERAR_PAGINA"
           \/ Len(paginas'[alMemoria'[i].pid]) >= 2,
         \/ /\ hilo[c].paso \notin Esperas /\ hilo'[c].paso \notin Esperas
            /\ EnMemoria' >= EnMemoria
         \/ hilo'[c].paso \in Esperas /\ EnMemoria' >= EnMemoria + 1
         \/ /\ hilo[c].paso \in Esperas /\ hilo'[c].paso \notin Esperas
            /\ EnMemoria' >= EnMemoria - 1
  PROVE  ProtocoloInv'
<1>0. Tipos /\ CanalesOK /\ ConPid /\ PaginasInv /\ SoloDevuelveConDos /\ EsperaInv
  BY DEF ProtocoloInv
<1>1. UNCHANGED << pidActual, colaNuevo, planificador, asignadas, cpu, pedidos >>
  BY DEF SoloHilo
<1>2. Tipos'
  <2>1. sistema' \in Estados
    BY <1>0 DEF Tipos
  <2>2. QED
    BY <1>0, <1>1, <2>1 DEF Tipos
<1>3. CanalesOK'
  BY <1>0, <1>1 DEF CanalesOK, BienFormado
<1>4. ConPid'
  <2>1. \A d \in CPUs : PidEnUso(hilo'[d]) /\ PidEnCPU(cpu'[d])
    BY <1>0, <1>1 DEF ConPid
  <2>2. planificador'.paso = "esperando" => planificador'.pid \in Pids
    BY <1>0, <1>1 DEF ConPid
  <2>3. QED
    BY <2>1, <2>2 DEF ConPid, PidEnUso, PidEnCPU
<1>5. \A p \in Pids : Len(paginas'[p]) \in Nat /\ Len(paginas[p]) \in Nat
  BY <1>0, <1>2, Tipos0, LenProperties
<1>6. PaginasInv'
  <2>1. ASSUME NEW d \in CPUs \ {c}
        PROVE  PorAgregar(hilo'[d], paginas'[hilo'[d].pid])
    <3>1. hilo'[d] = hilo[d] /\ PorAgregar(hilo[d], paginas[hilo[d].pid]) /\ PidEnUso(hilo[d])
      BY <1>0 DEF PaginasInv, ConPid
    <3>2. hilo[d] \in TipoHilo
      BY <1>0 DEF Tipos
    <3>3. hilo[d].numero \in Int
      BY <3>2 DEF TipoHilo
    <3>4. ASSUME hilo[d].paso = "agregando"
          PROVE  hilo[d].numero <= Len(paginas'[hilo[d].pid]) - 1
      <4>1. hilo[d].pid \in Pids /\ hilo[d].numero <= Len(paginas[hilo[d].pid]) - 1
        BY <3>1, <3>4 DEF PidEnUso, PorAgregar
      <4>2. QED
        BY <1>5, <3>3, <4>1
    <3>5. QED
      BY <3>1, <3>4 DEF PorAgregar
  <2>2. \A d \in CPUs : PorAgregar(hilo'[d], paginas'[hilo'[d].pid])
    BY <2>1
  <2>3. QED
    BY <2>2 DEF PaginasInv, PorAgregar, Numeradas
<1>7. SoloDevuelveConDos'
  BY <1>0, <1>5, SiguenConDos
<1>8. EsperaInv'
  <2>1. EnMemoria \in Int
    BY <1>0, Tipos0
  <2>2. EnMemoria' \in Int
    BY LenProperties DEF EnMemoria
  <2>3. QED
    BY <1>0, <1>1, <2>1, <2>2, EsperaDelHilo
<1>9. QED
  BY <1>2, <1>3, <1>4, <1>6, <1>7, <1>8 DEF ProtocoloInv

(* What the steps of a thread use of the invariant.                        *)
LEMMA AntesDelPaso ==
  ASSUME ProtocoloInv
  PROVE  /\ Tipos /\ CanalesOK /\ ConPid /\ PaginasInv
         /\ colaListo \in Seq(Pids) /\ deMas \in 0 .. MaxDeMas /\ hilo \in [CPUs -> TipoHilo]
         /\ aKernel \in [CPUs -> Seq(Mensajes)] /\ aCPU \in [CPUs -> Seq(Palabras)]
         /\ \A d \in CPUs : BienFormado(aCPU[d])
         /\ alMemoria \in Seq(PedidosMemoria) /\ deMemoria \in Seq(BOOLEAN)
         /\ paginas \in [Pids -> Seq(PaginasHeap)]
         /\ \A p \in Pids : Numeradas(paginas[p]) /\ Len(paginas[p]) \in Nat
         /\ punteros \in [Pids -> SUBSET (0 .. ANCHO - 1)]
         /\ EnMemoria \in Nat /\ Len(alMemoria) \in Nat /\ Len(deMemoria) \in Nat
         /\ Pids \subseteq Nat /\ Tamanios \subseteq Nat
<1>1. Tipos /\ CanalesOK /\ ConPid /\ PaginasInv
  BY DEF ProtocoloInv
<1>2. /\ colaListo \in Seq(Pids) /\ deMas \in 0 .. MaxDeMas /\ hilo \in [CPUs -> TipoHilo]
      /\ alMemoria \in Seq(PedidosMemoria) /\ deMemoria \in Seq(BOOLEAN)
      /\ paginas \in [Pids -> Seq(PaginasHeap)]
      /\ punteros \in [Pids -> SUBSET (0 .. ANCHO - 1)]
  BY <1>1 DEF Tipos
<1>3. /\ aKernel \in [CPUs -> Seq(Mensajes)] /\ aCPU \in [CPUs -> Seq(Palabras)]
      /\ \A d \in CPUs : BienFormado(aCPU[d])
  BY <1>1 DEF CanalesOK
<1>4. /\ \A p \in Pids : Len(paginas[p]) \in Nat
      /\ EnMemoria \in Nat /\ Len(alMemoria) \in Nat /\ Len(deMemoria) \in Nat
      /\ Pids \subseteq Nat /\ Tamanios \subseteq Nat
  BY <1>1, Tipos0
<1>5. \A p \in Pids : Numeradas(paginas[p])
  BY <1>1 DEF PaginasInv
<1>6. QED
  BY <1>1, <1>2, <1>3, <1>4, <1>5

LEMMA HiloNuevo ==
  ASSUME hilo \in [CPUs -> TipoHilo], NEW c \in CPUs, NEW h \in TipoHilo,
         hilo' = [hilo EXCEPT ![c] = h]
  PROVE  /\ hilo' \in [CPUs -> TipoHilo] /\ hilo'[c] = h
         /\ \A d \in CPUs \ {c} : hilo'[d] = hilo[d]
OBVIOUS

LEMMA VuelveAAtender ==
  ASSUME hilo \in [CPUs -> TipoHilo], NEW c \in CPUs, Atendido(c)
  PROVE  /\ hilo' \in [CPUs -> TipoHilo] /\ hilo'[c].paso = "atendiendo"
         /\ \A d \in CPUs \ {c} : hilo'[d] = hilo[d]
         /\ PidEnUso(hilo'[c]) /\ hilo'[c].paso \notin Esperas
         /\ \A tabla : PorAgregar(hilo'[c], tabla)
<1> DEFINE h == Hilo("atendiendo", hilo[c].proceso)
<1>1. h \in TipoHilo /\ h.paso = "atendiendo"
  BY DEF Hilo, TipoHilo, SinPid
<1>2. hilo' = [hilo EXCEPT ![c] = h]
  BY DEF Atendido
<1> HIDE DEF h
<1>3. hilo' \in [CPUs -> TipoHilo] /\ hilo'[c] = h /\ \A d \in CPUs \ {c} : hilo'[d] = hilo[d]
  BY <1>1, <1>2
<1>4. QED
  BY <1>1, <1>3 DEF PidEnUso, PorAgregar, Esperas

-----------------------------------------------------------------------------
(* The heap.                                                               *)
LEMMA MismosPedidos ==
  ASSUME Tipos, alMemoria' = alMemoria
  PROVE  /\ alMemoria' \in Seq(PedidosMemoria) /\ Len(alMemoria') = Len(alMemoria)
         /\ \A i \in DOMAIN alMemoria' : \E j \in DOMAIN alMemoria : alMemoria'[i] = alMemoria[j]
BY DEF Tipos

LEMMA FallaReservaInv ==
  ASSUME ProtocoloInv, NEW c \in CPUs, FallaReserva(c),
         aKernel' \in [CPUs -> Seq(Mensajes)], deMemoria' \in Seq(BOOLEAN),
         \/ hilo[c].paso \notin Esperas /\ Len(deMemoria') = Len(deMemoria)
         \/ hilo[c].paso \in Esperas /\ Len(deMemoria') = Len(deMemoria) - 1
  PROVE  ProtocoloInv'
<1>0. /\ Tipos /\ CanalesOK
      /\ colaListo \in Seq(Pids) /\ deMas \in 0 .. MaxDeMas /\ hilo \in [CPUs -> TipoHilo]
      /\ paginas \in [Pids -> Seq(PaginasHeap)]
      /\ \A p \in Pids : Numeradas(paginas[p]) /\ Len(paginas[p]) \in Nat
      /\ punteros \in [Pids -> SUBSET (0 .. ANCHO - 1)]
      /\ EnMemoria \in Nat /\ Len(alMemoria) \in Nat /\ Len(deMemoria) \in Nat
  BY AntesDelPaso
<1>1. /\ sendDeNotificacion(c, "OPERACION_CON_CPU_FALLIDA") /\ Atendido(c)
      /\ UNCHANGED << SoloHilo, sistema >>
      /\ UNCHANGED << colaListo, deMas, paginas, alMemoria, punteros >>
  BY DEF FallaReserva, SoloHeap
<1>2. aCPU' \in [CPUs -> Seq(Palabras)] /\ \A d \in CPUs : BienFormado(aCPU'[d])
  BY <1>0, <1>1, EnvioDePalabra
<1>3. /\ hilo' \in [CPUs -> TipoHilo] /\ \A d \in CPUs \ {c} : hilo'[d] = hilo[d]
      /\ PidEnUso(hilo'[c]) /\ hilo'[c].paso \notin Esperas
      /\ PorAgregar(hilo'[c], paginas'[hilo'[c].pid])
  BY <1>0, <1>1, VuelveAAtender
<1>4. /\ alMemoria' \in Seq(PedidosMemoria) /\ Len(alMemoria') = Len(alMemoria)
      /\ \A i \in DOMAIN alMemoria' : \E j \in DOMAIN alMemoria : alMemoria'[i] = alMemoria[j]
  BY <1>0, <1>1, MismosPedidos
<1>5. /\ colaListo' \in Seq(Pids) /\ deMas' \in 0 .. MaxDeMas
      /\ paginas' \in [Pids -> Seq(PaginasHeap)]
      /\ punteros' \in [Pids -> SUBSET (0 .. ANCHO - 1)]
  BY <1>0, <1>1
<1>6. \A p \in Pids : Numeradas(paginas'[p]) /\ Len(paginas'[p]) >= Len(paginas[p])
  BY <1>0, <1>1
<1>7. \/ /\ hilo[c].paso \notin Esperas /\ hilo'[c].paso \notin Esperas
         /\ EnMemoria' >= EnMemoria
      \/ /\ hilo[c].paso \in Esperas /\ hilo'[c].paso \notin Esperas
         /\ EnMemoria' >= EnMemoria - 1
  BY <1>0, <1>3, <1>4 DEF EnMemoria
<1>8. QED
  BY <1>1, <1>2, <1>3, <1>4, <1>5, <1>6, <1>7, PasoDelHilo

(* A block is added, after the writes of a new page or without them.       *)
LEMMA OcuparBloqueInv ==
  ASSUME ProtocoloInv, NEW c \in CPUs, NEW p \in Pids, NEW t \in Nat,
         NEW tabla \in Seq(PaginasHeap), NEW i \in 1 .. Len(tabla),
         NEW antes \in Seq(PedidosMemoria),
         \A k \in DOMAIN antes : antes[k].tipo # "LIBERAR_PAGINA",
         Numeradas(tabla), Len(tabla) >= Len(paginas[p]),
         OcuparBloque(c, p, t, tabla, i, antes), hilo[c].paso \notin Esperas,
         aKernel' \in [CPUs -> Seq(Mensajes)], deMemoria' = deMemoria
  PROVE  ProtocoloInv'
<1>0. /\ Tipos /\ CanalesOK
      /\ colaListo \in Seq(Pids) /\ deMas \in 0 .. MaxDeMas /\ hilo \in [CPUs -> TipoHilo]
      /\ alMemoria \in Seq(PedidosMemoria) /\ deMemoria \in Seq(BOOLEAN)
      /\ paginas \in [Pids -> Seq(PaginasHeap)]
      /\ \A q \in Pids : Numeradas(paginas[q]) /\ Len(paginas[q]) \in Nat
      /\ punteros \in [Pids -> SUBSET (0 .. ANCHO - 1)]
      /\ EnMemoria \in Nat /\ Len(alMemoria) \in Nat /\ Len(deMemoria) \in Nat
  BY AntesDelPaso
<1> DEFINE j == obtenerBloqueUtil(tabla[i], t)
           b == tabla[i].bloques[j]
           pg == ConBloque(tabla[i], b, t)
           puntero == Puntero(tabla[i], BloqueNuevo(b, t))
           nueva == [tabla EXCEPT ![i] = pg]
           m == Escritura(p, tabla[i])
           s == <<m>>
<1>1. /\ j # 0
      /\ paginas' = [paginas EXCEPT ![p] = nueva]
      /\ alMemoria' = alMemoria \o antes \o s
      /\ sendRemasterizado(c, "OPERACION_EXITOSA", puntero)
      /\ punteros' = [punteros EXCEPT ![p] = punteros[p] \cup {puntero}]
      /\ Atendido(c)
      /\ UNCHANGED << SoloHilo, sistema >>
      /\ UNCHANGED << colaListo, deMas >>
  BY DEF OcuparBloque, SoloHeap
<1>2. tabla[i] \in PaginasHeap
  BY ElementOfSeq
<1>3. tabla[i].bloques \in Seq(Bloques) /\ tabla[i].pagina \in Int
  BY <1>2 DEF PaginasHeap
<1>4. b \in Bloques
  <2>1. j \in DOMAIN tabla[i].bloques
    BY <1>1, <1>2, BloqueUtil
  <2>2. QED
    BY <1>3, <2>1, ElementOfSeq, LenProperties
<1>5. pg \in PaginasHeap /\ pg.pagina = tabla[i].pagina /\ puntero \in 0 .. ANCHO - 1
  <2> HIDE DEF b
  <2>1. QED
    BY <1>2, <1>4, ConBloqueTipo
<1>6. m \in PedidosMemoria /\ m.tipo = "ESCRIBIR_DATOS"
  BY <1>3 DEF Escritura, Pedido, PedidosMemoria
<1> HIDE DEF j, b, pg, puntero, m
<1>7. /\ nueva \in Seq(PaginasHeap) /\ Len(nueva) = Len(tabla) /\ Len(tabla) \in Nat
      /\ Numeradas(nueva)
  <2>1. nueva \in Seq(PaginasHeap) /\ Len(nueva) = Len(tabla) /\ Len(tabla) \in Nat
    BY <1>5, PaginaCambiada, LenProperties
  <2>2. DOMAIN nueva = DOMAIN tabla /\ \A k \in DOMAIN tabla : nueva[k].pagina = tabla[k].pagina
    BY <1>5
  <2>3. QED
    BY <2>1, <2>2 DEF Numeradas
<1> HIDE DEF nueva
<1>8. aCPU' \in [CPUs -> Seq(Palabras)] /\ \A d \in CPUs : BienFormado(aCPU'[d])
  <2>1. puntero \in Nat
    BY <1>5, AnchoPositivo
  <2>2. QED
    BY <1>0, <1>1, <2>1, EnvioDePaquete
<1>9. /\ hilo' \in [CPUs -> TipoHilo] /\ \A d \in CPUs \ {c} : hilo'[d] = hilo[d]
      /\ PidEnUso(hilo'[c]) /\ hilo'[c].paso \notin Esperas
      /\ PorAgregar(hilo'[c], paginas'[hilo'[c].pid])
  BY <1>0, <1>1, VuelveAAtender
<1>10. /\ alMemoria' \in Seq(PedidosMemoria) /\ Len(alMemoria') \in Nat
       /\ Len(alMemoria') >= Len(alMemoria)
       /\ \A k \in DOMAIN alMemoria' :
            \/ \E h \in DOMAIN alMemoria : alMemoria'[k] = alMemoria[h]
            \/ alMemoria'[k].tipo # "LIBERAR_PAGINA"
  <2> DEFINE q == alMemoria \o antes
             r == q \o s
  <2>1. s \in Seq(PedidosMemoria) /\ \A k \in DOMAIN s : s[k].tipo # "LIBERAR_PAGINA"
    BY <1>6
  <2> HIDE DEF s
  <2>2. alMemoria \in Seq(PedidosMemoria) /\ antes \in Seq(PedidosMemoria)
    BY <1>0
  <2>3. /\ q \in Seq(PedidosMemoria) /\ Len(q) = Len(alMemoria) + Len(antes)
        /\ Len(alMemoria) \in Nat /\ Len(antes) \in Nat
        /\ \A k \in DOMAIN q :
             \/ k \in DOMAIN alMemoria /\ q[k] = alMemoria[k]
             \/ k - Len(alMemoria) \in DOMAIN antes /\ q[k] = antes[k - Len(alMemoria)]
    BY ONLY <2>2, Concatenado
  <2> HIDE DEF q
  <2>4. /\ r \in Seq(PedidosMemoria) /\ Len(r) = Len(q) + Len(s) /\ Len(s) \in Nat
        /\ \A k \in DOMAIN r :
             \/ k \in DOMAIN q /\ r[k] = q[k]
             \/ k - Len(q) \in DOMAIN s /\ r[k] = s[k - Len(q)]
    <3>1. q \in Seq(PedidosMemoria) /\ s \in Seq(PedidosMemoria)
      BY <2>1, <2>3
    <3>2. QED
      BY ONLY <3>1, Concatenado
  <2>5. alMemoria' = r
    BY <1>1 DEF q, s
  <2> HIDE DEF r
  <2>6. \A k \in DOMAIN q :
          (\E h \in DOMAIN alMemoria : q[k] = alMemoria[h]) \/ q[k].tipo # "LIBERAR_PAGINA"
    BY <2>3
  <2>7. \A k \in DOMAIN r :
          (\E h \in DOMAIN alMemoria : r[k] = alMemoria[h]) \/ r[k].tipo # "LIBERAR_PAGINA"
    BY <2>1, <2>4, <2>6
  <2>8. Len(r) \in Nat /\ Len(r) >= Len(alMemoria)
    BY <2>3, <2>4
  <2>9. QED
    BY <2>4, <2>5, <2>7, <2>8
<1>11. colaListo' \in Seq(Pids) /\ deMas' \in 0 .. MaxDeMas /\ deMemoria' \in Seq(BOOLEAN)
  BY <1>0, <1>1
<1>12. paginas' \in [Pids -> Seq(PaginasHeap)]
  BY <1>0, <1>1, <1>7
<1>13. punteros' \in [Pids -> SUBSET (0 .. ANCHO - 1)]
  BY <1>0, <1>1, <1>5
<1>14. \A q \in Pids : paginas'[q] = IF q = p THEN nueva ELSE paginas[q]
  BY <1>0, <1>1
<1>15. \A q \in Pids : Numeradas(paginas'[q]) /\ Len(paginas'[q]) >= Len(paginas[q])
  <2>1. TAKE q \in Pids
  <2>2. CASE q = p
    BY <1>7, <1>14, <2>2
  <2>3. CASE q # p
    <3>1. paginas'[q] = paginas[q] /\ Numeradas(paginas[q]) /\ Len(paginas[q]) \in Nat
      BY <1>0, <1>14, <2>3
    <3>2. QED
      BY <3>1
  <2>4. QED
    BY <2>2, <2>3
<1>16. EnMemoria' >= EnMemoria
  BY <1>0, <1>10 DEF EnMemoria
<1>17. QED
  BY <1>1, <1>8, <1>9, <1>10, <1>11, <1>12, <1>13, <1>15, <1>16, PasoDelHilo

-----------------------------------------------------------------------------
(* manejadorCPU.                                                           *)
LEMMA TomarListoInv ==
  ASSUME ProtocoloInv, NEW c \in CPUs, TomarListo(c)
  PROVE  ProtocoloInv'
<1>0. /\ Tipos /\ CanalesOK
      /\ colaListo \in Seq(Pids) /\ deMas \in 0 .. MaxDeMas /\ hilo \in [CPUs -> TipoHilo]
      /\ aKernel \in [CPUs -> Seq(Mensajes)] /\ deMemoria \in Seq(BOOLEAN)
      /\ paginas \in [Pids -> Seq(PaginasHeap)]
      /\ \A q \in Pids : Numeradas(paginas[q]) /\ Len(paginas[q]) \in Nat
      /\ punteros \in [Pids -> SUBSET (0 .. ANCHO - 1)]
      /\ EnMemoria \in Nat /\ Pids \subseteq Nat
  BY AntesDelPaso
<1> DEFINE p == Head(colaListo)
           h == Hilo("atendiendo", p)
<1>1. /\ hilo[c].paso = "libre" /\ colaListo # << >> /\ colaListo' = Tail(colaListo)
      /\ hilo' = [hilo EXCEPT ![c] = h] /\ sendRemasterizado(c, "MENSAJE_PCB", p)
      /\ UNCHANGED << SoloHilo, sistema >>
      /\ UNCHANGED << paginas, alMemoria, deMemoria, aKernel, punteros, deMas >>
  BY DEF TomarListo, SoloEnvio
<1>2. colaListo' \in Seq(Pids) /\ p \in Pids
  BY <1>0, <1>1, SinElPrimero
<1> HIDE DEF p
<1>3. h \in TipoHilo /\ h.paso = "atendiendo"
  BY <1>2 DEF Hilo, TipoHilo, SinPid
<1> HIDE DEF h
<1>4. hilo' \in [CPUs -> TipoHilo] /\ hilo'[c] = h /\ \A d \in CPUs \ {c} : hilo'[d] = hilo[d]
  BY <1>0, <1>1, <1>3, HiloNuevo
<1>5. /\ PidEnUso(hilo'[c]) /\ hilo[c].paso \notin Esperas /\ hilo'[c].paso \notin Esperas
      /\ PorAgregar(hilo'[c], paginas'[hilo'[c].pid])
  BY <1>1, <1>3, <1>4 DEF PidEnUso, PorAgregar, Esperas
<1>6. aCPU' \in [CPUs -> Seq(Palabras)] /\ \A d \in CPUs : BienFormado(aCPU'[d])
  <2>1. p \in Nat
    BY <1>0, <1>2
  <2>2. QED
    BY <1>0, <1>1, <1>2, <2>1, EnvioDePaquete
<1>7. /\ alMemoria' \in Seq(PedidosMemoria)
      /\ \A i \in DOMAIN alMemoria' : \E j \in DOMAIN alMemoria : alMemoria'[i] = alMemoria[j]
  BY <1>0, <1>1, MismosPedidos
<1>8. /\ aKernel' \in [CPUs -> Seq(Mensajes)] /\ deMas' \in 0 .. MaxDeMas
      /\ paginas' \in [Pids -> Seq(PaginasHeap)] /\ deMemoria' \in Seq(BOOLEAN)
      /\ punteros' \in [Pids -> SUBSET (0 .. ANCHO - 1)]
  BY <1>0, <1>1
<1>9. \A q \in Pids : Numeradas(paginas'[q]) /\ Len(paginas'[q]) >= Len(paginas[q])
  BY <1>0, <1>1
<1>10. EnMemoria' >= EnMemoria
  BY <1>0, <1>1 DEF EnMemoria
<1>11. QED
  BY <1>1, <1>2, <1>4, <1>5, <1>6, <1>7, <1>8, <1>9, <1>10, PasoDelHilo

LEMMA EnviarSinTomarInv ==
  ASSUME ProtocoloInv, NEW c \in CPUs, EnviarSinTomar(c)
  PROVE  ProtocoloInv'
<1>1. CASE Parar("kernel caido")
  BY <1>1, PararInv DEF Estados
<1>2. CASE ~Parar("kernel caido")
  <2>0. /\ Tipos /\ CanalesOK
        /\ colaListo \in Seq(Pids) /\ deMas \in 0 .. MaxDeMas /\ hilo \in [CPUs -> TipoHilo]
        /\ aKernel \in [CPUs -> Seq(Mensajes)] /\ deMemoria \in Seq(BOOLEAN)
        /\ paginas \in [Pids -> Seq(PaginasHeap)]
        /\ \A q \in Pids : Numeradas(paginas[q]) /\ Len(paginas[q]) \in Nat
        /\ punteros \in [Pids -> SUBSET (0 .. ANCHO - 1)]
        /\ EnMemoria \in Nat /\ Pids \subseteq Nat
    BY AntesDelPaso
  <2>1. /\ hilo[c].paso = "libre" /\ hilo[c].proceso # SinPid
        /\ deMas < MaxDeMas /\ deMas' = deMas + 1
        /\ sendRemasterizado(c, "MENSAJE_PCB", hilo[c].proceso)
        /\ UNCHANGED << SoloHilo, sistema >>
        /\ UNCHANGED << paginas, alMemoria, deMemoria, aKernel, punteros, colaListo, hilo >>
    BY <1>2 DEF EnviarSinTomar, SoloEnvio
  <2>2. hilo[c] \in TipoHilo
    BY <2>0
  <2>3. hilo[c].proceso \in Pids
    BY <2>1, <2>2 DEF TipoHilo
  <2>4. aCPU' \in [CPUs -> Seq(Palabras)] /\ \A d \in CPUs : BienFormado(aCPU'[d])
    <3>1. hilo[c].proceso \in Nat
      BY <2>0, <2>3
    <3>2. QED
      BY <2>0, <2>1, <2>3, <3>1, EnvioDePaquete
  <2>5. /\ PidEnUso(hilo'[c]) /\ hilo[c].paso \notin Esperas /\ hilo'[c].paso \notin Esperas
        /\ PorAgregar(hilo'[c], paginas'[hilo'[c].pid])
    BY <2>1 DEF PidEnUso, PorAgregar, Esperas
  <2>6. /\ alMemoria' \in Seq(PedidosMemoria)
        /\ \A i \in DOMAIN alMemoria' : \E j \in DOMAIN alMemoria : alMemoria'[i] = alMemoria[j]
    BY <2>0, <2>1, MismosPedidos
  <2>7. /\ aKernel' \in [CPUs -> Seq(Mensajes)] /\ hilo' \in [CPUs -> TipoHilo]
        /\ paginas' \in [Pids -> Seq(PaginasHeap)] /\ deMemoria' \in Seq(BOOLEAN)
        /\ punteros' \in [Pids -> SUBSET (0 .. ANCHO - 1)] /\ colaListo' \in Seq(Pids)
        /\ \A d \in CPUs \ {c} : hilo'[d] = hilo[d]
    BY <2>0, <2>1
  <2>8. deMas' \in 0 .. MaxDeMas
    BY <2>0, <2>1, TamaniosAssumption
  <2>9. \A q \in Pids : Numeradas(paginas'[q]) /\ Len(paginas'[q]) >= Len(paginas[q])
    BY <2>0, <2>1
  <2>10. EnMemoria' >= EnMemoria
    BY <2>0, <2>1 DEF EnMemoria
  <2>11. QED
    BY <2>1, <2>4, <2>5, <2>6, <2>7, <2>8, <2>9, <2>10, PasoDelHilo
<1>3. QED
  BY <1>1, <1>2

LEMMA AlocarInv ==
  ASSUME ProtocoloInv, NEW c \in CPUs, alocarMemoria(c)
  PROVE  ProtocoloInv'
<1>0. /\ Tipos /\ CanalesOK
      /\ colaListo \in Seq(Pids) /\ deMas \in 0 .. MaxDeMas /\ hilo \in [CPUs -> TipoHilo]
      /\ aKernel \in [CPUs -> Seq(Mensajes)] /\ aCPU \in [CPUs -> Seq(Palabras)]
      /\ \A d \in CPUs : BienFormado(aCPU[d])
      /\ deMemoria \in Seq(BOOLEAN)
      /\ paginas \in [Pids -> Seq(PaginasHeap)]
      /\ \A q \in Pids : Numeradas(paginas[q]) /\ Len(paginas[q]) \in Nat
      /\ punteros \in [Pids -> SUBSET (0 .. ANCHO - 1)]
      /\ EnMemoria \in Nat /\ Pids \subseteq Nat /\ Len(deMemoria) \in Nat
  BY AntesDelPaso
<1> DEFINE m == Head(aKernel[c])
           t == m.valor
           tabla == paginas[m.pid]
           i == buscarPaginaHeapConSuficienteTamanio(tabla, t)
<1>1. /\ hilo[c].paso = "atendiendo" /\ aKernel[c] # << >> /\ m.tipo = "RESERVAR_HEAP"
      /\ Recibido(c) /\ deMemoria' = deMemoria
  BY DEF alocarMemoria, Atendiendo
<1>2. \/ FallaReserva(c)
      \/ /\ Pedir("ASIGNAR_PAGINAS", m.pid)
         /\ hilo' = [hilo EXCEPT ![c] = [hilo[c] EXCEPT !.paso = "esperando", !.pid = m.pid,
                                                         !.tamanio = t]]
         /\ UNCHANGED << SoloHeap, paginas, aCPU, punteros, sistema >>
      \/ i # 0 /\ OcuparBloque(c, m.pid, t, tabla, i, << >>)
  BY DEF alocarMemoria
<1>3. /\ aKernel' \in [CPUs -> Seq(Mensajes)] /\ m.pid \in Pids /\ t \in Nat /\ t \in Tamanios
  BY <1>0, <1>1, MensajeTomado
<1>4. hilo[c].paso \notin Esperas
  BY <1>1 DEF Esperas
<1>5. CASE FallaReserva(c)
  BY <1>0, <1>1, <1>3, <1>4, <1>5, FallaReservaInv
<1>6. CASE i # 0 /\ OcuparBloque(c, m.pid, t, tabla, i, << >>)
  <2> HIDE DEF m
  <2>1. tabla \in Seq(PaginasHeap) /\ Numeradas(tabla) /\ Len(tabla) >= Len(paginas[m.pid])
    <3>1. Numeradas(paginas[m.pid]) /\ Len(paginas[m.pid]) \in Nat
      BY <1>0, <1>3
    <3>2. paginas[m.pid] \in Seq(PaginasHeap)
      BY <1>0, <1>3
    <3>3. Len(tabla) >= Len(paginas[m.pid])
      BY <3>1
    <3>4. QED
      BY <3>1, <3>2, <3>3, Zenon
  <2>2. i \in 1 .. Len(tabla)
    BY <1>6, <2>1, PaginaUtil, LenProperties
  <2>3. << >> \in Seq(PedidosMemoria) /\ DOMAIN << >> = {}
    OBVIOUS
  <2> HIDE DEF i, t
  <2>4. QED
    BY <1>1, <1>3, <1>4, <1>6, <2>1, <2>2, <2>3, OcuparBloqueInv
<1>7. CASE /\ Pedir("ASIGNAR_PAGINAS", m.pid)
           /\ hilo' = [hilo EXCEPT ![c] = [hilo[c] EXCEPT !.paso = "esperando", !.pid = m.pid,
                                                           !.tamanio = t]]
           /\ UNCHANGED << SoloHeap, paginas, aCPU, punteros, sistema >>
  <2> DEFINE h == [hilo[c] EXCEPT !.paso = "esperando", !.pid = m.pid, !.tamanio = t]
  <2> HIDE DEF m, t
  <2>1. /\ alMemoria' = Append(alMemoria, Pedido("ASIGNAR_PAGINAS", m.pid, 0))
        /\ hilo' = [hilo EXCEPT ![c] = h]
        /\ UNCHANGED << SoloHilo, sistema >>
        /\ UNCHANGED << colaListo, deMas, paginas, aCPU, punteros >>
    BY <1>7 DEF Pedir, SoloHeap
  <2>2. hilo[c] \in TipoHilo
    BY <1>0
  <2>3. h \in TipoHilo /\ h.paso = "esperando" /\ h.pid = m.pid
    BY <1>3, <2>2 DEF TipoHilo, Esperas
  <2> HIDE DEF h
  <2>4. hilo' \in [CPUs -> TipoHilo] /\ hilo'[c] = h /\ \A d \in CPUs \ {c} : hilo'[d] = hilo[d]
    BY <1>0, <2>1, <2>3, HiloNuevo
  <2>5. /\ PidEnUso(hilo'[c]) /\ hilo'[c].paso \in Esperas
        /\ PorAgregar(hilo'[c], paginas'[hilo'[c].pid])
    BY <1>3, <2>3, <2>4 DEF PidEnUso, PorAgregar, Esperas
  <2>6. /\ Pedido("ASIGNAR_PAGINAS", m.pid, 0) \in PedidosMemoria
        /\ Pedido("ASIGNAR_PAGINAS", m.pid, 0).tipo # "LIBERAR_PAGINA"
    BY <1>3 DEF Pedido, PedidosMemoria
  <2>7. /\ alMemoria' \in Seq(PedidosMemoria) /\ Len(alMemoria') = Len(alMemoria) + 1
        /\ Len(alMemoria) \in Nat
        /\ \A k \in DOMAIN alMemoria' :
             \/ \E j \in DOMAIN alMemoria : alMemoria'[k] = alMemoria[j]
             \/ alMemoria'[k].tipo # "LIBERAR_PAGINA"
    <3>1. Tipos /\ alMemoria' = Append(alMemoria, Pedido("ASIGNAR_PAGINAS", m.pid, 0))
      BY <1>0, <2>1
    <3>2. /\ alMemoria' \in Seq(PedidosMemoria) /\ Len(alMemoria') = Len(alMemoria) + 1
          /\ Len(alMemoria) \in Nat
          /\ \A k \in DOMAIN alMemoria' :
               \/ \E j \in DOMAIN alMemoria : alMemoria'[k] = alMemoria[j]
               \/ alMemoria'[k] = Pedido("ASIGNAR_PAGINAS", m.pid, 0)
      BY <2>6, <3>1, PedidoAlFinal
    <3>3. QED
      BY <2>6, <3>2
  <2>8. /\ colaListo' \in Seq(Pids) /\ deMas' \in 0 .. MaxDeMas
        /\ aCPU' \in [CPUs -> Seq(Palabras)]
        /\ paginas' \in [Pids -> Seq(PaginasHeap)] /\ deMemoria' \in Seq(BOOLEAN)
        /\ punteros' \in [Pids -> SUBSET (0 .. ANCHO - 1)]
    BY <1>0, <1>1, <2>1
  <2>9. /\ \A q \in Pids : Numeradas(paginas'[q]) /\ Len(paginas'[q]) >= Len(paginas[q])
        /\ \A d \in CPUs : BienFormado(aCPU'[d])
    BY <1>0, <2>1
  <2>10. EnMemoria' >= EnMemoria + 1
    BY <1>0, <1>1, <2>7 DEF EnMemoria
  <2>11. QED
    BY <1>3, <2>1, <2>4, <2>5, <2>7, <2>8, <2>9, <2>10, PasoDelHilo
<1>8. QED
  BY <1>2, <1>5, <1>6, <1>7

LEMMA RecibirPaginaInv ==
  ASSUME ProtocoloInv, NEW c \in CPUs, RecibirPagina(c)
  PROVE  ProtocoloInv'
<1>0. /\ Tipos /\ CanalesOK /\ ConPid
      /\ colaListo \in Seq(Pids) /\ deMas \in 0 .. MaxDeMas /\ hilo \in [CPUs -> TipoHilo]
      /\ aKernel \in [CPUs -> Seq(Mensajes)] /\ aCPU \in [CPUs -> Seq(Palabras)]
      /\ \A d \in CPUs : BienFormado(aCPU[d])
      /\ deMemoria \in Seq(BOOLEAN)
      /\ paginas \in [Pids -> Seq(PaginasHeap)]
      /\ \A q \in Pids : Numeradas(paginas[q]) /\ Len(paginas[q]) \in Nat
      /\ punteros \in [Pids -> SUBSET (0 .. ANCHO - 1)]
      /\ EnMemoria \in Nat /\ Pids \subseteq Nat /\ Len(deMemoria) \in Nat
      /\ Len(alMemoria) \in Nat
  BY AntesDelPaso
<1> DEFINE n == numeroPagina(paginas[hilo[c].pid])
           h == IF hilo[c].paso = "esperandoLiberacion"
                THEN Hilo("atendiendo", hilo[c].proceso)
                ELSE [hilo[c] EXCEPT !.paso = "agregando", !.numero = n]
<1>1. /\ hilo[c].paso \in Esperas /\ deMemoria # << >> /\ deMemoria' = Tail(deMemoria)
      /\ aKernel' = aKernel
  BY DEF RecibirPagina, recvDeMemoria
<1>2. \/ FallaReserva(c)
      \/ /\ hilo' = [hilo EXCEPT ![c] = h]
         /\ UNCHANGED << SoloHeap, paginas, alMemoria, aCPU, punteros, sistema >>
  BY DEF RecibirPagina
<1>3. deMemoria' \in Seq(BOOLEAN) /\ Len(deMemoria') = Len(deMemoria) - 1
  BY <1>0, <1>1, SinElPrimero
<1>4. CASE FallaReserva(c)
  <2>1. aKernel' \in [CPUs -> Seq(Mensajes)]
    BY <1>0, <1>1
  <2>2. QED
    BY <1>1, <1>3, <1>4, <2>1, FallaReservaInv
<1>5. CASE /\ hilo' = [hilo EXCEPT ![c] = h]
           /\ UNCHANGED << SoloHeap, paginas, alMemoria, aCPU, punteros, sistema >>
  <2>1. /\ UNCHANGED << SoloHilo, sistema >>
        /\ UNCHANGED << colaListo, deMas, paginas, alMemoria, aCPU, punteros >>
    BY <1>5 DEF SoloHeap
  <2>2. hilo[c] \in TipoHilo /\ PidEnUso(hilo[c])
    BY <1>0 DEF ConPid
  <2>3. /\ h \in TipoHilo /\ h.paso \notin Esperas /\ PidEnUso(h)
        /\ PorAgregar(h, paginas'[h.pid])
    <3>1. CASE hilo[c].paso = "esperandoLiberacion"
      BY <2>2, <3>1 DEF Hilo, TipoHilo, SinPid, Esperas, PidEnUso, PorAgregar
    <3>2. CASE hilo[c].paso # "esperandoLiberacion"
      <4>1. hilo[c].paso = "esperando" /\ hilo[c].pid \in Pids
        BY <1>1, <2>2, <3>2 DEF Esperas, PidEnUso
      <4>2. n \in Int /\ n <= Len(paginas'[hilo[c].pid]) - 1
        BY <1>0, <2>1, <4>1 DEF numeroPagina
      <4>3. h = [hilo[c] EXCEPT !.paso = "agregando", !.numero = n]
        BY <3>2
      <4> HIDE DEF n, h
      <4>4. /\ h \in TipoHilo /\ h.paso = "agregando" /\ h.pid = hilo[c].pid
            /\ h.numero = n
        BY <2>2, <4>1, <4>2, <4>3 DEF TipoHilo
      <4>5. QED
        BY <4>1, <4>2, <4>4 DEF Esperas, PidEnUso, PorAgregar
    <3>3. QED
      BY <3>1, <3>2
  <2> HIDE DEF h
  <2>4. hilo' \in [CPUs -> TipoHilo] /\ hilo'[c] = h /\ \A d \in CPUs \ {c} : hilo'[d] = hilo[d]
    BY <1>0, <1>5, <2>3, HiloNuevo
  <2>5. /\ PidEnUso(hilo'[c]) /\ hilo'[c].paso \notin Esperas
        /\ PorAgregar(hilo'[c], paginas'[hilo'[c].pid])
    BY <2>3, <2>4
  <2>6. /\ alMemoria' \in Seq(PedidosMemoria)
        /\ \A i \in DOMAIN alMemoria' : \E j \in DOMAIN alMemoria : alMemoria'[i] = alMemoria[j]
    BY <1>0, <2>1, MismosPedidos
  <2>7. /\ aKernel' \in [CPUs -> Seq(Mensajes)] /\ aCPU' \in [CPUs -> Seq(Palabras)]
        /\ paginas' \in [Pids -> Seq(PaginasHeap)]
        /\ punteros' \in [Pids -> SUBSET (0 .. ANCHO - 1)] /\ colaListo' \in Seq(Pids)
        /\ deMas' \in 0 .. MaxDeMas
    BY <1>0, <1>1, <2>1
  <2>8. /\ \A q \in Pids : Numeradas(paginas'[q]) /\ Len(paginas'[q]) >= Len(paginas[q])
        /\ \A d \in CPUs : BienFormado(aCPU'[d])
    BY <1>0, <2>1
  <2>9. EnMemoria' >= EnMemoria - 1
    BY <1>0, <1>3, <2>1 DEF EnMemoria
  <2>10. QED
    BY <1>1, <1>3, <2>1, <2>4, <2>5, <2>6, <2>7, <2>8, <2>9, PasoDelHilo
<1>6. QED
  BY <1>2, <1>4, <1>5

LEMMA AgregarPaginaInv ==
  ASSUME ProtocoloInv, NEW c \in CPUs, AgregarPagina(c)
  PROVE  ProtocoloInv'
<1>0. /\ Tipos /\ CanalesOK /\ ConPid /\ PaginasInv /\ hilo \in [CPUs -> TipoHilo]
      /\ aKernel \in [CPUs -> Seq(Mensajes)] /\ deMemoria \in Seq(BOOLEAN)
      /\ paginas \in [Pids -> Seq(PaginasHeap)]
      /\ \A q \in Pids : Numeradas(paginas[q]) /\ Len(paginas[q]) \in Nat
      /\ Tamanios \subseteq Nat
  BY AntesDelPaso
<1> DEFINE p == hilo[c].pid
<1> DEFINE n == hilo[c].numero
           t == hilo[c].tamanio
           nueva == PaginaHeap(n)
           tabla == ConPagina(paginas[p], nueva)
           m == Escritura(p, nueva)
           antes == <<m, m>>
<1>1. /\ hilo[c].paso = "agregando" /\ OcuparBloque(c, p, t, tabla, Len(tabla), antes)
      /\ deMemoria' = deMemoria /\ aKernel' = aKernel
  BY DEF AgregarPagina
<1>2. hilo[c] \in TipoHilo /\ PidEnUso(hilo[c]) /\ PorAgregar(hilo[c], paginas[p])
  BY <1>0 DEF ConPid, PaginasInv
<1>3. p \in Pids /\ n \in Int /\ t \in Nat /\ n <= Len(paginas[p]) - 1
  <2>1. p \in Pids /\ n <= Len(paginas[p]) - 1
    <3>1. hilo[c].paso = "agregando"
      BY <1>1
    <3>2. hilo[c].pid \in Pids /\ hilo[c].numero <= Len(paginas[hilo[c].pid]) - 1
      BY <1>2, <3>1 DEF PidEnUso, PorAgregar
    <3>3. QED
      BY <3>2
  <2>2. n \in Int /\ t \in Tamanios \cup {0}
    BY <1>2 DEF TipoHilo
  <2>3. t \in Nat
    <3>1. Tamanios \subseteq Nat
      BY TamaniosAssumption
    <3> HIDE DEF t
    <3>2. QED
      BY <2>2, <3>1
  <2>4. QED
    BY <2>1, <2>2, <2>3
<1> HIDE DEF p, n, t
<1>4. nueva \in PaginasHeap /\ nueva.pagina = n
  <2> DEFINE b1 == Bloque(TamanioUtil, n * TAM_PAGINA + SizeofHeapMetadata)
             b2 == Bloque(0, TAM_PAGINA - SizeofHeapMetadata)
             bs == <<b1, b2>>
  <2>1. n * TAM_PAGINA + SizeofHeapMetadata \in Int /\ TAM_PAGINA - SizeofHeapMetadata \in Int
    BY <1>3, AnchoPositivo DEF SizeofHeapMetadata
  <2>2. b1 \in Bloques
    BY <2>1, AnchoPositivo DEF Bloque, Bloques
  <2>3. b2 \in Bloques
    BY <2>1, AnchoPositivo DEF Bloque, Bloques
  <2> HIDE DEF b1, b2
  <2>4. bs \in Seq(Bloques)
    BY <2>2, <2>3
  <2> HIDE DEF bs
  <2>5. nueva = [pagina |-> n, tamanioDisponible |-> TamanioUtil, bloques |-> bs]
    BY DEF PaginaHeap, bs, b1, b2
  <2>6. QED
    BY <1>3, <2>4, <2>5, AnchoPositivo DEF PaginasHeap
<1> HIDE DEF nueva
<1>5. /\ tabla \in Seq(PaginasHeap) /\ Len(tabla) = Len(paginas[p]) + 1 /\ Len(paginas[p]) \in Nat
      /\ DOMAIN tabla = 1 .. Len(paginas[p]) + 1 /\ DOMAIN paginas[p] = 1 .. Len(paginas[p])
      /\ \A i \in 1 .. Len(paginas[p]) : tabla[i] = paginas[p][i]
      /\ tabla[Len(paginas[p]) + 1] = nueva
  <2>1. paginas[p] \in Seq(PaginasHeap)
    BY <1>0, <1>3
  <2>2. QED
    BY <1>4, <2>1, Agregado DEF ConPagina
<1> HIDE DEF tabla
<1>6. Numeradas(tabla)
  <2>1. SUFFICES ASSUME NEW i \in DOMAIN tabla
                 PROVE  tabla[i].pagina <= i - 2
    BY DEF Numeradas
  <2>2. CASE i <= Len(paginas[p])
    <3>1. i \in DOMAIN paginas[p] /\ tabla[i] = paginas[p][i] /\ Numeradas(paginas[p])
      BY <1>0, <1>3, <1>5, <2>2
    <3>2. QED
      BY <3>1 DEF Numeradas
  <2>3. CASE ~(i <= Len(paginas[p]))
    <3>1. i = Len(paginas[p]) + 1
      BY <1>5, <2>3
    <3>2. tabla[i].pagina = n /\ n <= i - 2
      BY <1>3, <1>4, <1>5, <3>1
    <3>3. QED
      BY <3>2
  <2>4. QED
    BY <2>2, <2>3
<1>7. m \in PedidosMemoria /\ m.tipo = "ESCRIBIR_DATOS"
  <2>1. nueva.pagina \in Int
    BY <1>3, <1>4
  <2>2. QED
    BY <1>3, <2>1 DEF Escritura, Pedido, PedidosMemoria
<1> HIDE DEF m
<1>8. antes \in Seq(PedidosMemoria) /\ \A k \in DOMAIN antes : antes[k].tipo # "LIBERAR_PAGINA"
  BY <1>7
<1> HIDE DEF antes
<1>9. Len(tabla) \in 1 .. Len(tabla) /\ Len(tabla) >= Len(paginas[p])
  BY <1>5
<1>10. hilo[c].paso \notin Esperas /\ aKernel' \in [CPUs -> Seq(Mensajes)]
  BY <1>0, <1>1 DEF Esperas
<1>11. QED
  BY <1>1, <1>3, <1>5, <1>6, <1>8, <1>9, <1>10, OcuparBloqueInv

LEMMA OcuparSinBloqueInv ==
  ASSUME ProtocoloInv, NEW c \in CPUs, OcuparSinBloque(c)
  PROVE  ProtocoloInv'
<1>1. Parar("kernel caido")
  BY DEF OcuparSinBloque, OcuparBloqueMal
<1>2. "kernel caido" \in Estados
  BY DEF Estados
<1>3. QED
  BY <1>1, <1>2, PararInv

PaginaConNumero(tabla, n) == SelectInSeq(tabla, LAMBDA pg : pg.pagina = n)
BloqueEn(bs, o) == SelectInSeq(bs, LAMBDA b : b.offset = o)

(* A page that is found has the number of a pointer, which is not below 0. *)
LEMMA PaginaDelPuntero ==
  ASSUME NEW tabla \in Seq(PaginasHeap), NEW n \in Nat, Numeradas(tabla)
  PROVE  LET i == PaginaConNumero(tabla, n) IN
         i # 0 => i \in DOMAIN tabla /\ tabla[i].pagina = n /\ Len(tabla) >= 2
<1> DEFINE I == {i \in 1 .. Len(tabla) : tabla[i].pagina = n}
<1>1. Len(tabla) \in Nat /\ DOMAIN tabla = 1 .. Len(tabla)
  BY LenProperties
<1>2. PaginaConNumero(tabla, n) = IF I # {} THEN Min(I) ELSE 0
  BY DEF PaginaConNumero, SelectInSeq
<1>3. CASE I = {}
  BY <1>2, <1>3
<1>4. CASE I # {}
  <2>1. I \subseteq Nat
    BY <1>1
  <2>2. \E k \in I : \A l \in I : k <= l
    BY <1>4, <2>1, HayMinimo
  <2>3. Min(I) \in I
    BY <2>2 DEF Min
  <2>4. PICK k \in I : Min(I) = k
    BY <2>3
  <2>5. k \in 1 .. Len(tabla) /\ tabla[k].pagina = n
    BY <2>4
  <2>6. n <= k - 2
    BY <1>1, <2>5 DEF Numeradas
  <2>7. Len(tabla) >= 2
    BY <1>1, <2>5, <2>6
  <2>8. QED
    BY <1>1, <1>2, <1>4, <2>4, <2>5, <2>7
<1>5. QED
  BY <1>3, <1>4

LEMMA BloqueDelPuntero ==
  ASSUME NEW bs \in Seq(Bloques), NEW o
  PROVE  LET j == BloqueEn(bs, o) IN
         j # 0 => j \in DOMAIN bs /\ bs[j] \in Bloques
<1> DEFINE I == {i \in 1 .. Len(bs) : bs[i].offset = o}
<1>1. Len(bs) \in Nat /\ DOMAIN bs = 1 .. Len(bs)
  BY LenProperties
<1>2. BloqueEn(bs, o) = IF I # {} THEN Min(I) ELSE 0
  BY DEF BloqueEn, SelectInSeq
<1>3. CASE I = {}
  BY <1>2, <1>3
<1>4. CASE I # {}
  <2>1. I \subseteq Nat
    BY <1>1
  <2>2. \E k \in I : \A l \in I : k <= l
    BY <1>4, <2>1, HayMinimo
  <2>3. Min(I) \in I
    BY <2>2 DEF Min
  <2>4. QED
    BY <1>1, <1>2, <1>4, <2>3, ElementOfSeq
<1>5. QED
  BY <1>3, <1>4

LEMMA LiberarInv ==
  ASSUME ProtocoloInv, NEW c \in CPUs, liberarDatosDeProceso(c)
  PROVE  ProtocoloInv'
<1>0. /\ Tipos /\ CanalesOK
      /\ colaListo \in Seq(Pids) /\ deMas \in 0 .. MaxDeMas /\ hilo \in [CPUs -> TipoHilo]
      /\ aKernel \in [CPUs -> Seq(Mensajes)] /\ aCPU \in [CPUs -> Seq(Palabras)]
      /\ \A d \in CPUs : BienFormado(aCPU[d])
      /\ alMemoria \in Seq(PedidosMemoria) /\ deMemoria \in Seq(BOOLEAN)
      /\ paginas \in [Pids -> Seq(PaginasHeap)]
      /\ \A q \in Pids : Numeradas(paginas[q]) /\ Len(paginas[q]) \in Nat
      /\ punteros \in [Pids -> SUBSET (0 .. ANCHO - 1)]
      /\ EnMemoria \in Nat /\ Len(alMemoria) \in Nat /\ Len(deMemoria) \in Nat
  BY AntesDelPaso
<1> DEFINE m == Head(aKernel[c])
           num == m.valor \div TAM_PAGINA
           tabla == paginas[m.pid]
           i == PaginaConNumero(tabla, num)
           j == BloqueEn(tabla[i].bloques, m.valor % TAM_PAGINA)
           disponible == ConSigno(tabla[i].tamanioDisponible + tabla[i].bloques[j].size)
           pedido == Pedido("LIBERAR_PAGINA", m.pid, tabla[i].pagina)
           h == [hilo[c] EXCEPT !.paso = "esperandoLiberacion"]
<1>1. /\ hilo[c].paso = "atendiendo" /\ aKernel[c] # << >> /\ Recibido(c)
      /\ UNCHANGED SoloHilo
      /\ UNCHANGED << colaListo, deMas, deMemoria, punteros >>
      /\ sendDeNotificacion(c, "OPERACION_CON_CPU_FALLIDA") \/ aCPU' = aCPU
  BY DEF liberarDatosDeProceso, Atendiendo, SoloHeap
<1>2. \/ UNCHANGED << paginas, alMemoria, hilo, sistema >>
      \/ sistema' = "kernel caido" /\ UNCHANGED << paginas, alMemoria, hilo >>
      \/ /\ i # 0 /\ j # 0
         /\ paginas' = [paginas EXCEPT ![m.pid][i].tamanioDisponible =
                          ConSigno(@ + tabla[i].bloques[j].size)]
         /\ alMemoria' = Append(alMemoria, pedido)
         /\ hilo' = [hilo EXCEPT ![c].paso = "esperandoLiberacion"]
         /\ UNCHANGED sistema
  BY DEF liberarDatosDeProceso, PaginaConNumero, BloqueEn
<1>3. aKernel' \in [CPUs -> Seq(Mensajes)] /\ m.pid \in Pids /\ m.valor \in Nat
  BY <1>0, <1>1, MensajeTomado
<1> HIDE DEF m
<1>4. aCPU' \in [CPUs -> Seq(Palabras)] /\ \A d \in CPUs : BienFormado(aCPU'[d])
  <2>1. CASE sendDeNotificacion(c, "OPERACION_CON_CPU_FALLIDA")
    BY <1>0, <2>1, EnvioDePalabra
  <2>2. CASE aCPU' = aCPU
    BY <1>0, <2>2
  <2>3. QED
    BY <1>1, <2>1, <2>2
<1>5. /\ colaListo' \in Seq(Pids) /\ deMas' \in 0 .. MaxDeMas /\ deMemoria' \in Seq(BOOLEAN)
      /\ punteros' \in [Pids -> SUBSET (0 .. ANCHO - 1)] /\ hilo[c].paso \notin Esperas
  BY <1>0, <1>1 DEF Esperas
<1>6. CASE \/ UNCHANGED << paginas, alMemoria, hilo, sistema >>
           \/ sistema' = "kernel caido" /\ UNCHANGED << paginas, alMemoria, hilo >>
  <2>1. UNCHANGED << paginas, alMemoria, hilo >> /\ sistema' \in Estados \cup {sistema}
    BY <1>6 DEF Estados
  <2>2. /\ PidEnUso(hilo'[c]) /\ hilo'[c].paso \notin Esperas
        /\ PorAgregar(hilo'[c], paginas'[hilo'[c].pid])
    BY <1>1, <2>1 DEF PidEnUso, PorAgregar, Esperas
  <2>3. /\ alMemoria' \in Seq(PedidosMemoria)
        /\ \A k \in DOMAIN alMemoria' : \E l \in DOMAIN alMemoria : alMemoria'[k] = alMemoria[l]
    BY <1>0, <2>1, MismosPedidos
  <2>4. /\ hilo' \in [CPUs -> TipoHilo] /\ paginas' \in [Pids -> Seq(PaginasHeap)]
        /\ \A d \in CPUs \ {c} : hilo'[d] = hilo[d]
    BY <1>0, <2>1
  <2>5. \A q \in Pids : Numeradas(paginas'[q]) /\ Len(paginas'[q]) >= Len(paginas[q])
    BY <1>0, <2>1
  <2>6. EnMemoria' >= EnMemoria
    BY <1>0, <1>1, <2>1 DEF EnMemoria
  <2>7. QED
    BY <1>1, <1>3, <1>4, <1>5, <2>1, <2>2, <2>3, <2>4, <2>5, <2>6, PasoDelHilo
<1>7. CASE /\ i # 0 /\ j # 0
           /\ paginas' = [paginas EXCEPT ![m.pid][i].tamanioDisponible =
                            ConSigno(@ + tabla[i].bloques[j].size)]
           /\ alMemoria' = Append(alMemoria, pedido)
           /\ hilo' = [hilo EXCEPT ![c].paso = "esperandoLiberacion"]
           /\ UNCHANGED sistema
  <2>1. tabla \in Seq(PaginasHeap) /\ Numeradas(tabla) /\ Len(tabla) \in Nat
    <3>1. Numeradas(paginas[m.pid]) /\ Len(paginas[m.pid]) \in Nat
      BY <1>0, <1>3
    <3>2. paginas[m.pid] \in Seq(PaginasHeap)
      BY <1>0, <1>3
    <3>3. QED
      BY <3>1, <3>2, Zenon
  <2>2. num \in Nat
    <3>1. m.valor \in Nat /\ TAM_PAGINA \in Nat /\ TAM_PAGINA > 0
      BY <1>3, AnchoPositivo
    <3>2. \A x, y \in Nat : y > 0 => x \div y \in Nat
      OBVIOUS
    <3>3. QED
      BY <3>1, <3>2
  <2> HIDE DEF num
  <2>3. i \in DOMAIN tabla /\ tabla[i].pagina = num /\ Len(tabla) >= 2
    BY <1>7, <2>1, <2>2, PaginaDelPuntero
  <2> HIDE DEF i
  <2>4. tabla[i] \in PaginasHeap
    BY <2>1, <2>3, LenProperties, ElementOfSeq
  <2>5. tabla[i].bloques \in Seq(Bloques) /\ tabla[i].tamanioDisponible \in Int
    BY <2>4 DEF PaginasHeap
  <2>6. tabla[i].bloques[j] \in Bloques
    BY <1>7, <2>5, BloqueDelPuntero
  <2> HIDE DEF j
  <2>7. disponible \in Int
    <3>1. tabla[i].tamanioDisponible + tabla[i].bloques[j].size \in Int
      BY <2>5, <2>6, AnchoPositivo DEF Bloques
    <3>2. \A x \in Int : ConSigno(x) \in Int
      BY AnchoPositivo DEF ConSigno
    <3>3. QED
      BY <3>1, <3>2
  <2>8. pedido \in PedidosMemoria /\ pedido.pid = m.pid
    BY <1>3, <2>2, <2>3 DEF Pedido, PedidosMemoria
  <2> DEFINE pg == [tabla[i] EXCEPT !.tamanioDisponible = disponible]
             nueva == [tabla EXCEPT ![i] = pg]
  <2>9. paginas' = [paginas EXCEPT ![m.pid] = nueva]
    BY <1>7, <2>3, <2>4 DEF PaginasHeap
  <2> HIDE DEF disponible, pedido
  <2>10. pg \in PaginasHeap /\ pg.pagina = tabla[i].pagina
    BY <2>4, <2>7 DEF PaginasHeap
  <2> HIDE DEF pg
  <2>11. nueva \in Seq(PaginasHeap) /\ Len(nueva) = Len(tabla) /\ Numeradas(nueva)
    <3>0. i \in 1 .. Len(tabla)
      BY <2>1, <2>3, LenProperties
    <3>1. nueva \in Seq(PaginasHeap) /\ Len(nueva) = Len(tabla)
      BY <2>1, <2>10, <3>0, PaginaCambiada
    <3>2. DOMAIN nueva = DOMAIN tabla /\ \A k \in DOMAIN tabla : nueva[k].pagina = tabla[k].pagina
      BY <2>10
    <3>3. QED
      BY <2>1, <3>1, <3>2 DEF Numeradas
  <2> HIDE DEF nueva
  <2>12. paginas' \in [Pids -> Seq(PaginasHeap)]
    BY <1>0, <1>3, <2>9, <2>11
  <2>13. \A q \in Pids : paginas'[q] = IF q = m.pid THEN nueva ELSE paginas[q]
    BY <1>0, <2>9
  <2>14. ASSUME NEW q \in Pids
         PROVE  Numeradas(paginas'[q]) /\ Len(paginas'[q]) >= Len(paginas[q])
    <3>1. CASE q = m.pid
      BY <2>1, <2>11, <2>13, <3>1
    <3>2. CASE q # m.pid
      <4>1. paginas'[q] = paginas[q] /\ Numeradas(paginas[q]) /\ Len(paginas[q]) \in Nat
        BY <1>0, <2>13, <3>2
      <4>2. QED
        BY <4>1
    <3>3. QED
      BY <3>1, <3>2
  <2>15. Len(paginas'[m.pid]) >= 2
    BY <1>3, <2>3, <2>11, <2>13
  <2>16. /\ alMemoria' \in Seq(PedidosMemoria) /\ Len(alMemoria') = Len(alMemoria) + 1
         /\ \A k \in DOMAIN alMemoria' :
              \/ \E l \in DOMAIN alMemoria : alMemoria'[k] = alMemoria[l]
              \/ Len(paginas'[alMemoria'[k].pid]) >= 2
    <3>1. /\ alMemoria' \in Seq(PedidosMemoria) /\ Len(alMemoria') = Len(alMemoria) + 1
          /\ \A k \in DOMAIN alMemoria' :
               (\E l \in DOMAIN alMemoria : alMemoria'[k] = alMemoria[l]) \/ alMemoria'[k] = pedido
      BY <1>0, <1>7, <2>8, PedidoAlFinal
    <3>2. QED
      BY <2>8, <2>15, <3>1
  <2>17. hilo[c] \in TipoHilo
    BY <1>0
  <2>18. h \in TipoHilo /\ h.paso = "esperandoLiberacion"
    BY <2>17 DEF TipoHilo, Esperas
  <2>19. hilo' = [hilo EXCEPT ![c] = h]
    BY <1>7
  <2> HIDE DEF h
  <2>20. hilo' \in [CPUs -> TipoHilo] /\ hilo'[c] = h /\ \A d \in CPUs \ {c} : hilo'[d] = hilo[d]
    BY <1>0, <2>18, <2>19, HiloNuevo
  <2>21. /\ PidEnUso(hilo'[c]) /\ hilo'[c].paso \in Esperas
         /\ PorAgregar(hilo'[c], paginas'[hilo'[c].pid])
    BY <2>18, <2>20 DEF PidEnUso, PorAgregar, Esperas
  <2>22. EnMemoria' >= EnMemoria + 1
    BY <1>0, <1>1, <2>16 DEF EnMemoria
  <2>23. sistema' \in Estados \cup {sistema}
    BY <1>7
  <2>24. QED
    BY <1>1, <1>3, <1>4, <1>5, <2>12, <2>14, <2>16, <2>20, <2>21, <2>22, <2>23, PasoDelHilo
<1>8. QED
  BY <1>2, <1>6, <1>7

LEMMA TerminaTurnoInv ==
  ASSUME ProtocoloInv, NEW c \in CPUs, TerminaTurno(c)
  PROVE  ProtocoloInv'
<1>0. /\ Tipos /\ CanalesOK
      /\ colaListo \in Seq(Pids) /\ deMas \in 0 .. MaxDeMas /\ hilo \in [CPUs -> TipoHilo]
      /\ aKernel \in [CPUs -> Seq(Mensajes)] /\ aCPU \in [CPUs -> Seq(Palabras)]
      /\ \A d \in CPUs : BienFormado(aCPU[d])
      /\ alMemoria \in Seq(PedidosMemoria) /\ deMemoria \in Seq(BOOLEAN)
      /\ paginas \in [Pids -> Seq(PaginasHeap)]
      /\ \A q \in Pids : Numeradas(paginas[q]) /\ Len(paginas[q]) \in Nat
      /\ punteros \in [Pids -> SUBSET (0 .. ANCHO - 1)]
      /\ EnMemoria \in Nat /\ Len(alMemoria) \in Nat /\ Len(deMemoria) \in Nat
  BY AntesDelPaso
<1> DEFINE m == Head(aKernel[c])
           pedido == Pedido("FINALIZAR_PROCESO", m.pid, 0)
           h == [hilo[c] EXCEPT !.paso = "libre"]
<1>1. /\ hilo[c].paso = "atendiendo" /\ aKernel[c] # << >> /\ Recibido(c)
      /\ hilo' = [hilo EXCEPT ![c] = h]
      /\ UNCHANGED << SoloHilo, sistema >>
      /\ UNCHANGED << deMas, paginas, deMemoria, aCPU, punteros >>
      /\ alMemoria' = Append(alMemoria, pedido) \/ alMemoria' = alMemoria
      /\ colaListo' = Append(colaListo, m.pid) \/ colaListo' = colaListo
  BY DEF TerminaTurno, Atendiendo, Pedir, SoloTurno
<1>2. aKernel' \in [CPUs -> Seq(Mensajes)] /\ m.pid \in Pids
  BY <1>0, <1>1, MensajeTomado
<1> HIDE DEF m
<1>3. pedido \in PedidosMemoria /\ pedido.tipo # "LIBERAR_PAGINA"
  BY <1>2 DEF Pedido, PedidosMemoria
<1> HIDE DEF pedido
<1>4. hilo[c] \in TipoHilo
  BY <1>0
<1>5. h \in TipoHilo /\ h.paso = "libre"
  BY <1>4 DEF TipoHilo
<1> HIDE DEF h
<1>6. hilo' \in [CPUs -> TipoHilo] /\ hilo'[c] = h /\ \A d \in CPUs \ {c} : hilo'[d] = hilo[d]
  BY <1>0, <1>1, <1>5, HiloNuevo
<1>7. /\ PidEnUso(hilo'[c]) /\ hilo[c].paso \notin Esperas /\ hilo'[c].paso \notin Esperas
      /\ PorAgregar(hilo'[c], paginas'[hilo'[c].pid])
  BY <1>1, <1>5, <1>6 DEF PidEnUso, PorAgregar, Esperas
<1>8. colaListo' \in Seq(Pids)
  <2>1. CASE colaListo' = Append(colaListo, m.pid)
    BY <1>0, <1>2, <2>1, Agregado
  <2>2. CASE colaListo' = colaListo
    BY <1>0, <2>2
  <2>3. QED
    BY <1>1, <2>1, <2>2
<1>9. /\ alMemoria' \in Seq(PedidosMemoria) /\ Len(alMemoria') \in Nat
      /\ Len(alMemoria') >= Len(alMemoria)
      /\ \A k \in DOMAIN alMemoria' :
           \/ \E l \in DOMAIN alMemoria : alMemoria'[k] = alMemoria[l]
           \/ alMemoria'[k].tipo # "LIBERAR_PAGINA"
  <2>1. CASE alMemoria' = Append(alMemoria, pedido)
    <3>1. /\ alMemoria' \in Seq(PedidosMemoria) /\ Len(alMemoria') = Len(alMemoria) + 1
          /\ \A k \in DOMAIN alMemoria' :
               (\E l \in DOMAIN alMemoria : alMemoria'[k] = alMemoria[l]) \/ alMemoria'[k] = pedido
      BY <1>0, <1>3, <2>1, PedidoAlFinal
    <3>2. Len(alMemoria') \in Nat /\ Len(alMemoria') >= Len(alMemoria)
      BY <1>0, <3>1
    <3>3. QED
      BY <1>3, <3>1, <3>2
  <2>2. CASE alMemoria' = alMemoria
    BY <1>0, <2>2
  <2>3. QED
    BY <1>1, <2>1, <2>2
<1>10. /\ aCPU' \in [CPUs -> Seq(Palabras)] /\ paginas' \in [Pids -> Seq(PaginasHeap)]
       /\ punteros' \in [Pids -> SUBSET (0 .. ANCHO - 1)] /\ deMas' \in 0 .. MaxDeMas
       /\ deMemoria' \in Seq(BOOLEAN)
  BY <1>0, <1>1
<1>11. /\ \A q \in Pids : Numeradas(paginas'[q]) /\ Len(paginas'[q]) >= Len(paginas[q])
       /\ \A d \in CPUs : BienFormado(aCPU'[d])
  BY <1>0, <1>1
<1>12. EnMemoria' >= EnMemoria
  BY <1>0, <1>1, <1>9 DEF EnMemoria
<1>13. QED
  BY <1>1, <1>2, <1>6, <1>7, <1>8, <1>9, <1>10, <1>11, <1>12, PasoDelHilo

-----------------------------------------------------------------------------
(* The CPU.                                                                *)
LEMMA PasoDeCPU ==
  ASSUME ProtocoloInv, UNCHANGED SoloCPU,
         aKernel' \in [CPUs -> Seq(Mensajes)], aCPU' \in [CPUs -> Seq(Palabras)],
         \A d \in CPUs : BienFormado(aCPU'[d]),
         deMas' \in 0 .. MaxDeMas, cpu' \in [CPUs -> TipoCPU],
         \A d \in CPUs : PidEnCPU(cpu'[d]),
         pedidos' \in [Pids -> Nat], \A p \in Pids : pedidos'[p] \in 0 .. MaxPedidos[p]
  PROVE  ProtocoloInv'
<1>0. Tipos /\ CanalesOK /\ ConPid /\ PaginasInv /\ SoloDevuelveConDos /\ EsperaInv
  BY DEF ProtocoloInv
<1>1. UNCHANGED << pidActual, colaNuevo, colaListo, alMemoria, deMemoria, asignadas,
                   planificador, hilo, paginas, punteros, sistema >>
  BY DEF SoloCPU, procesos, memoria
<1>2. Tipos'
  BY <1>0, <1>1 DEF Tipos
<1>3. CanalesOK'
  BY DEF CanalesOK, BienFormado
<1>4. ConPid'
  <2>1. \A d \in CPUs : PidEnUso(hilo'[d])
    BY <1>0, <1>1 DEF ConPid
  <2>2. planificador'.paso = "esperando" => planificador'.pid \in Pids
    BY <1>0, <1>1 DEF ConPid
  <2>3. QED
    BY <2>1, <2>2 DEF ConPid, PidEnUso, PidEnCPU
<1>5. PaginasInv'
  BY <1>0, <1>1 DEF PaginasInv, PorAgregar, Numeradas
<1>6. SoloDevuelveConDos'
  BY <1>0, <1>1, NadaNuevo
<1>7. EsperaInv'
  <2>1. HilosEsperando' = HilosEsperando
    BY <1>1 DEF HilosEsperando
  <2>2. EnMemoria \in Int /\ EnMemoria' = EnMemoria /\ planificador' = planificador
    BY <1>0, <1>1, Tipos0 DEF EnMemoria
  <2>3. QED
    BY <1>0, <2>1, <2>2, EsperanLosMismos
<1>8. QED
  BY <1>2, <1>3, <1>4, <1>5, <1>6, <1>7 DEF ProtocoloInv

(* What the steps of a CPU use of the invariant.                           *)
LEMMA AntesDeLaCPU ==
  ASSUME ProtocoloInv
  PROVE  /\ CanalesOK /\ cpu \in [CPUs -> TipoCPU] /\ \A d \in CPUs : PidEnCPU(cpu[d])
         /\ aKernel \in [CPUs -> Seq(Mensajes)] /\ aCPU \in [CPUs -> Seq(Palabras)]
         /\ \A d \in CPUs : BienFormado(aCPU[d])
         /\ pedidos \in [Pids -> Nat] /\ \A p \in Pids : pedidos[p] \in 0 .. MaxPedidos[p]
         /\ MaxPedidos \in [Pids -> Nat] /\ Tamanios \subseteq Nat /\ deMas \in 0 .. MaxDeMas
         /\ MaxDeMas \in Nat /\ punteros \in [Pids -> SUBSET (0 .. ANCHO - 1)]
<1>1. Tipos /\ CanalesOK /\ ConPid
  BY DEF ProtocoloInv
<1>2. MaxPedidos \in [Pids -> Nat] /\ Tamanios \subseteq Nat /\ MaxDeMas \in Nat
  BY TamaniosAssumption
<1>3. /\ cpu \in [CPUs -> TipoCPU] /\ \A p \in Pids : pedidos[p] \in 0 .. MaxPedidos[p]
      /\ deMas \in 0 .. MaxDeMas /\ punteros \in [Pids -> SUBSET (0 .. ANCHO - 1)]
  BY <1>1 DEF Tipos
<1>4. /\ aKernel \in [CPUs -> Seq(Mensajes)] /\ aCPU \in [CPUs -> Seq(Palabras)]
      /\ \A d \in CPUs : BienFormado(aCPU[d])
      /\ pedidos \in [Pids -> Nat]
  BY <1>1 DEF CanalesOK
<1>5. \A d \in CPUs : PidEnCPU(cpu[d])
  BY <1>1 DEF ConPid
<1>6. QED
  BY <1>1, <1>2, <1>3, <1>4, <1>5

LEMMA CPUNueva ==
  ASSUME cpu \in [CPUs -> TipoCPU], \A d \in CPUs : PidEnCPU(cpu[d]), NEW c \in CPUs,
         NEW x \in TipoCPU, PidEnCPU(x), cpu' = [cpu EXCEPT ![c] = x]
  PROVE  cpu' \in [CPUs -> TipoCPU] /\ \A d \in CPUs : PidEnCPU(cpu'[d])
<1>1. \A d \in CPUs : cpu'[d] = IF d = c THEN x ELSE cpu[d]
  OBVIOUS
<1>2. ASSUME NEW d \in CPUs
      PROVE  PidEnCPU(cpu'[d])
  BY <1>1
<1>3. QED
  BY <1>2

LEMMA Leido ==
  ASSUME ProtocoloInv, NEW c \in CPUs, NEW x \in TipoCPU, PidEnCPU(x), recvRemasterizado(c, x)
  PROVE  /\ aCPU' \in [CPUs -> Seq(Palabras)] /\ \A d \in CPUs : BienFormado(aCPU'[d])
         /\ cpu' \in [CPUs -> TipoCPU] /\ \A d \in CPUs : PidEnCPU(cpu'[d])
<1>0. /\ cpu \in [CPUs -> TipoCPU] /\ \A d \in CPUs : PidEnCPU(cpu[d])
      /\ aCPU \in [CPUs -> Seq(Palabras)] /\ \A d \in CPUs : BienFormado(aCPU[d])
  BY AntesDeLaCPU
<1> DEFINE s == aCPU[c]
           r == SubSeq(s, 4, Len(s))
<1>1. s \in Seq(Palabras) /\ BienFormado(s)
  BY <1>0
<1>2. \/ aCPU' = [aCPU EXCEPT ![c] = r] /\ cpu' = [cpu EXCEPT ![c] = x]
      \/ /\ aCPU' = [aCPU EXCEPT ![c] = << >>]
         /\ \/ cpu' = [cpu EXCEPT ![c] = [cpu[c] EXCEPT !.modo = "muerta"]]
            \/ cpu' = [cpu EXCEPT ![c] = [cpu[c] EXCEPT !.modo = "desfasada"]]
  BY DEF recvRemasterizado
<1> HIDE DEF s
<1>3. r \in Seq(Palabras) /\ BienFormado(r)
  <2>1. Len(s) \in Nat /\ DOMAIN s = 1 .. Len(s)
    BY <1>1, LenProperties
  <2>2. CASE Len(s) < 4
    <3>1. r = << >>
      BY <1>1, <2>1, <2>2, SubSeqProperties
    <3> HIDE DEF r
    <3>2. << >> \in Seq(Palabras) /\ DOMAIN << >> = {}
      OBVIOUS
    <3>3. QED
      BY <3>1, <3>2 DEF BienFormado
  <2>3. CASE Len(s) >= 4
    <3>1. /\ r \in Seq(Palabras) /\ Len(r) = Len(s) - 3
          /\ \A i \in 1 .. Len(s) - 3 : r[i] = s[i + 3]
      <4>1. 4 \in 1 .. Len(s) + 1 /\ Len(s) \in 4 - 1 .. Len(s)
        BY <2>1, <2>3
      <4>2. /\ r \in Seq(Palabras)
            /\ Len(r) = IF 4 <= Len(s) THEN Len(s) - 4 + 1 ELSE 0
            /\ \A i \in 1 .. Len(s) - 4 + 1 : r[i] = s[4 + i - 1]
        BY <1>1, <4>1, SubSeqProperties
      <4> HIDE DEF r
      <4>3. QED
        BY <2>1, <2>3, <4>2
    <3> HIDE DEF r
    <3>2. DOMAIN r = 1 .. Len(s) - 3
      BY <3>1, LenProperties
    <3>3. ASSUME NEW i \in DOMAIN r, r[i].w = "MENSAJE_PCB"
          PROVE  i + 2 \in DOMAIN r /\ r[i + 2].v \in Pids
      <4>1. i \in 1 .. Len(s) - 3 /\ s[i + 3].w = "MENSAJE_PCB" /\ i + 3 \in DOMAIN s
        BY <2>1, <3>1, <3>2, <3>3
      <4>2. i + 3 + 2 \in DOMAIN s /\ s[i + 3 + 2].v \in Pids
        BY <1>1, <4>1 DEF BienFormado
      <4>3. i + 2 \in 1 .. Len(s) - 3 /\ i + 2 + 3 = i + 3 + 2
        BY <2>1, <4>1, <4>2
      <4>4. r[i + 2] = s[i + 2 + 3]
        BY <3>1, <4>3
      <4>5. QED
        BY <3>2, <4>2, <4>3, <4>4
    <3>4. QED
      BY <3>1, <3>3 DEF BienFormado
  <2>4. QED
    BY <2>1, <2>2, <2>3
<1> HIDE DEF r
<1>4. << >> \in Seq(Palabras) /\ BienFormado(<< >>)
  BY DEF BienFormado
<1>5. aCPU' \in [CPUs -> Seq(Palabras)] /\ \A d \in CPUs : BienFormado(aCPU'[d])
  <2>1. PICK u \in {r, << >>} : aCPU' = [aCPU EXCEPT ![c] = u]
    BY <1>2
  <2>2. u \in Seq(Palabras) /\ BienFormado(u)
    BY <1>3, <1>4
  <2>3. \A d \in CPUs : aCPU'[d] = IF d = c THEN u ELSE aCPU[d]
    BY <1>0, <2>1
  <2>4. QED
    BY <1>0, <2>1, <2>2, <2>3
<1>6. /\ [cpu[c] EXCEPT !.modo = "muerta"] \in TipoCPU
      /\ [cpu[c] EXCEPT !.modo = "desfasada"] \in TipoCPU
      /\ PidEnCPU([cpu[c] EXCEPT !.modo = "muerta"])
      /\ PidEnCPU([cpu[c] EXCEPT !.modo = "desfasada"])
  <2>1. cpu[c] \in TipoCPU
    BY <1>0
  <2>2. QED
    BY <2>1 DEF TipoCPU, PidEnCPU
<1>7. cpu' \in [CPUs -> TipoCPU] /\ \A d \in CPUs : PidEnCPU(cpu'[d])
  <2>1. CASE cpu' = [cpu EXCEPT ![c] = x]
    BY <1>0, <2>1, CPUNueva
  <2>2. CASE cpu' = [cpu EXCEPT ![c] = [cpu[c] EXCEPT !.modo = "muerta"]]
    BY <1>0, <1>6, <2>2, CPUNueva
  <2>3. CASE cpu' = [cpu EXCEPT ![c] = [cpu[c] EXCEPT !.modo = "desfasada"]]
    BY <1>0, <1>6, <2>3, CPUNueva
  <2>4. QED
    BY <1>2, <2>1, <2>2, <2>3
<1>8. QED
  BY <1>5, <1>7

LEMMA RecibirPCBInv ==
  ASSUME ProtocoloInv, NEW c \in CPUs, recibirPCBDeKernel(c)
  PROVE  ProtocoloInv'
<1>0. /\ cpu \in [CPUs -> TipoCPU] /\ aKernel \in [CPUs -> Seq(Mensajes)]
      /\ aCPU \in [CPUs -> Seq(Palabras)] /\ \A d \in CPUs : BienFormado(aCPU[d])
      /\ pedidos \in [Pids -> Nat] /\ \A p \in Pids : pedidos[p] \in 0 .. MaxPedidos[p]
      /\ deMas \in 0 .. MaxDeMas
  BY AntesDeLaCPU
<1> DEFINE s == aCPU[c]
           x == IF s[1].w = "MENSAJE_PCB" THEN [modo |-> "ejecutando", pid |-> s[3].v]
                                          ELSE [modo |-> "desfasada", pid |-> SinPid]
<1>1. /\ recvRemasterizado(c, x) /\ Len(s) >= 2
      /\ UNCHANGED SoloCPU
      /\ UNCHANGED << aKernel, deMas, pedidos >>
  BY DEF recibirPCBDeKernel, recvRemasterizado
<1>2. s \in Seq(Palabras) /\ BienFormado(s)
  BY <1>0
<1>3. s[1].w = "MENSAJE_PCB" => s[3].v \in Pids
  <2>1. 1 \in DOMAIN s
    BY <1>1, <1>2, LenProperties
  <2> HIDE DEF s
  <2>2. ASSUME s[1].w = "MENSAJE_PCB"
        PROVE  s[1 + 2].v \in Pids
    BY <1>2, <2>1, <2>2 DEF BienFormado
  <2>3. 1 + 2 = 3
    OBVIOUS
  <2>4. QED
    BY <2>2, <2>3
<1> HIDE DEF s
<1>4. x \in TipoCPU /\ PidEnCPU(x)
  <2>1. CASE s[1].w = "MENSAJE_PCB"
    BY <1>3, <2>1 DEF TipoCPU, PidEnCPU
  <2>2. CASE s[1].w # "MENSAJE_PCB"
    BY <2>2 DEF TipoCPU, PidEnCPU, SinPid
  <2>3. QED
    BY <2>1, <2>2
<1> HIDE DEF x
<1>5. /\ aCPU' \in [CPUs -> Seq(Palabras)] /\ \A d \in CPUs : BienFormado(aCPU'[d])
      /\ cpu' \in [CPUs -> TipoCPU] /\ \A d \in CPUs : PidEnCPU(cpu'[d])
  BY <1>1, <1>4, Leido
<1>6. /\ aKernel' \in [CPUs -> Seq(Mensajes)] /\ pedidos' \in [Pids -> Nat]
      /\ \A p \in Pids : pedidos'[p] \in 0 .. MaxPedidos[p]
      /\ deMas' \in 0 .. MaxDeMas
  BY <1>0, <1>1
<1>7. QED
  BY <1>1, <1>5, <1>6, PasoDeCPU

LEMMA RespuestaReservaInv ==
  ASSUME ProtocoloInv, NEW c \in CPUs, RespuestaReserva(c)
  PROVE  ProtocoloInv'
<1>0. /\ cpu \in [CPUs -> TipoCPU] /\ aKernel \in [CPUs -> Seq(Mensajes)]
      /\ \A d \in CPUs : PidEnCPU(cpu[d])
      /\ pedidos \in [Pids -> Nat] /\ \A p \in Pids : pedidos[p] \in 0 .. MaxPedidos[p]
      /\ deMas \in 0 .. MaxDeMas
  BY AntesDeLaCPU
<1> DEFINE w == IF aCPU[c][1].w = "OPERACION_EXITOSA" THEN "ejecutando" ELSE "abortado"
           x == [cpu[c] EXCEPT !.modo = w]
<1>1. /\ cpu[c].modo = "esperando" /\ recvRemasterizado(c, x)
      /\ UNCHANGED SoloCPU
      /\ UNCHANGED << aKernel, deMas, pedidos >>
  BY DEF RespuestaReserva
<1>2. cpu[c] \in TipoCPU /\ PidEnCPU(cpu[c])
  BY <1>0
<1>3. cpu[c].pid \in Pids
  BY <1>1, <1>2 DEF PidEnCPU
<1>4. w \in {"ejecutando", "abortado"}
  OBVIOUS
<1> HIDE DEF w
<1>5. x \in TipoCPU /\ PidEnCPU(x)
  BY <1>2, <1>3, <1>4 DEF TipoCPU, PidEnCPU
<1> HIDE DEF x
<1>6. /\ aCPU' \in [CPUs -> Seq(Palabras)] /\ \A d \in CPUs : BienFormado(aCPU'[d])
      /\ cpu' \in [CPUs -> TipoCPU] /\ \A d \in CPUs : PidEnCPU(cpu'[d])
  BY <1>1, <1>5, Leido
<1>7. /\ aKernel' \in [CPUs -> Seq(Mensajes)] /\ pedidos' \in [Pids -> Nat]
      /\ \A p \in Pids : pedidos'[p] \in 0 .. MaxPedidos[p]
      /\ deMas' \in 0 .. MaxDeMas
  BY <1>0, <1>1
<1>8. QED
  BY <1>1, <1>6, <1>7, PasoDeCPU

LEMMA CuentaPedidos ==
  ASSUME pedidos \in [Pids -> Nat], NEW p \in Pids, MaxPedidos \in [Pids -> Nat],
         \A q \in Pids : pedidos[q] \in 0 .. MaxPedidos[q], pedidos[p] < MaxPedidos[p],
         pedidos' = [pedidos EXCEPT ![p] = @ + 1]
  PROVE  pedidos' \in [Pids -> Nat] /\ \A q \in Pids : pedidos'[q] \in 0 .. MaxPedidos[q]
<1>1. pedidos[p] \in Nat /\ MaxPedidos[p] \in Nat
  OBVIOUS
<1>2. pedidos[p] + 1 \in Nat /\ pedidos[p] + 1 \in 0 .. MaxPedidos[p]
  BY <1>1
<1>3. \A q \in Pids : pedidos'[q] = IF q = p THEN pedidos[p] + 1 ELSE pedidos[q]
  OBVIOUS
<1>4. QED
  BY <1>2, <1>3

LEMMA Enviado ==
  ASSUME aKernel \in [CPUs -> Seq(Mensajes)], NEW c \in CPUs, cpu[c].pid \in Pids,
         NEW tipo \in {"RESERVAR_HEAP", "LIBERAR_HEAP"} \cup Fines, NEW valor \in Nat,
         tipo = "RESERVAR_HEAP" => valor \in Tamanios, Enviar(c, tipo, valor)
  PROVE  aKernel' \in [CPUs -> Seq(Mensajes)]
<1> DEFINE m == Mensaje(tipo, cpu[c].pid, valor)
<1>1. m \in Mensajes
  BY DEF Mensaje, Mensajes
<1>2. aKernel' = [aKernel EXCEPT ![c] = Append(aKernel[c], m)]
  BY DEF Enviar
<1> HIDE DEF m
<1>3. Append(aKernel[c], m) \in Seq(Mensajes)
  BY <1>1, Agregado
<1>4. QED
  BY <1>2, <1>3

LEMMA ReservarInv ==
  ASSUME ProtocoloInv, NEW c \in CPUs, NEW t \in Tamanios, reservarMemoria(c, t)
  PROVE  ProtocoloInv'
<1>0. /\ cpu \in [CPUs -> TipoCPU] /\ \A d \in CPUs : PidEnCPU(cpu[d])
      /\ aKernel \in [CPUs -> Seq(Mensajes)] /\ aCPU \in [CPUs -> Seq(Palabras)]
      /\ \A d \in CPUs : BienFormado(aCPU[d])
      /\ pedidos \in [Pids -> Nat] /\ \A p \in Pids : pedidos[p] \in 0 .. MaxPedidos[p]
      /\ MaxPedidos \in [Pids -> Nat] /\ Tamanios \subseteq Nat /\ deMas \in 0 .. MaxDeMas
  BY AntesDeLaCPU
<1> DEFINE x == [cpu[c] EXCEPT !.modo = "esperando"]
<1>1. /\ cpu[c].modo = "ejecutando" /\ pedidos[cpu[c].pid] < MaxPedidos[cpu[c].pid]
      /\ Enviar(c, "RESERVAR_HEAP", t)
      /\ pedidos' = [pedidos EXCEPT ![cpu[c].pid] = @ + 1]
      /\ cpu' = [cpu EXCEPT ![c] = x]
      /\ UNCHANGED SoloCPU
      /\ UNCHANGED << aCPU, deMas >>
  BY DEF reservarMemoria, Ejecuta
<1>2. cpu[c] \in TipoCPU /\ PidEnCPU(cpu[c])
  BY <1>0
<1>3. cpu[c].pid \in Pids
  BY <1>1, <1>2 DEF PidEnCPU
<1>4. x \in TipoCPU /\ PidEnCPU(x)
  BY <1>2, <1>3 DEF TipoCPU, PidEnCPU
<1> HIDE DEF x
<1>5. cpu' \in [CPUs -> TipoCPU] /\ \A d \in CPUs : PidEnCPU(cpu'[d])
  BY <1>0, <1>1, <1>4, CPUNueva
<1>6. aKernel' \in [CPUs -> Seq(Mensajes)]
  <2>1. t \in Nat
    BY <1>0
  <2>2. QED
    BY <1>0, <1>1, <1>3, <2>1, Enviado
<1>7. pedidos' \in [Pids -> Nat] /\ \A q \in Pids : pedidos'[q] \in 0 .. MaxPedidos[q]
  BY <1>0, <1>1, <1>3, CuentaPedidos
<1>8. /\ aCPU' \in [CPUs -> Seq(Palabras)] /\ \A d \in CPUs : BienFormado(aCPU'[d])
      /\ deMas' \in 0 .. MaxDeMas
  BY <1>0, <1>1
<1>9. QED
  BY <1>1, <1>5, <1>6, <1>7, <1>8, PasoDeCPU

LEMMA LiberarMemoriaInv ==
  ASSUME ProtocoloInv, NEW c \in CPUs, NEW p \in Pids, NEW puntero \in punteros[p],
         liberarMemoria(c, puntero)
  PROVE  ProtocoloInv'
<1>0. /\ cpu \in [CPUs -> TipoCPU] /\ \A d \in CPUs : PidEnCPU(cpu[d])
      /\ aKernel \in [CPUs -> Seq(Mensajes)] /\ aCPU \in [CPUs -> Seq(Palabras)]
      /\ \A d \in CPUs : BienFormado(aCPU[d])
      /\ pedidos \in [Pids -> Nat] /\ \A q \in Pids : pedidos[q] \in 0 .. MaxPedidos[q]
      /\ MaxPedidos \in [Pids -> Nat] /\ deMas \in 0 .. MaxDeMas
      /\ punteros \in [Pids -> SUBSET (0 .. ANCHO - 1)]
  BY AntesDeLaCPU
<1>1. /\ cpu[c].modo = "ejecutando" /\ pedidos[cpu[c].pid] < MaxPedidos[cpu[c].pid]
      /\ Enviar(c, "LIBERAR_HEAP", puntero)
      /\ pedidos' = [pedidos EXCEPT ![cpu[c].pid] = @ + 1]
      /\ UNCHANGED SoloCPU
      /\ UNCHANGED << cpu, aCPU, deMas >>
  BY DEF liberarMemoria, Ejecuta
<1>2. PidEnCPU(cpu[c])
  BY <1>0
<1>3. cpu[c].pid \in Pids
  BY <1>1, <1>2 DEF PidEnCPU
<1>4. aKernel' \in [CPUs -> Seq(Mensajes)]
  <2>1. puntero \in Nat
    BY <1>0, AnchoPositivo
  <2>2. QED
    BY <1>0, <1>1, <1>3, <2>1, Enviado
<1>5. pedidos' \in [Pids -> Nat] /\ \A q \in Pids : pedidos'[q] \in 0 .. MaxPedidos[q]
  BY <1>0, <1>1, <1>3, CuentaPedidos
<1>6. /\ aCPU' \in [CPUs -> Seq(Palabras)] /\ \A d \in CPUs : BienFormado(aCPU'[d])
      /\ deMas' \in 0 .. MaxDeMas /\ cpu' \in [CPUs -> TipoCPU]
      /\ \A d \in CPUs : PidEnCPU(cpu'[d])
  BY <1>0, <1>1
<1>7. QED
  BY <1>1, <1>4, <1>5, <1>6, PasoDeCPU

(* A turn ends with one message or with two.                               *)
LEMMA TerminarInv ==
  ASSUME ProtocoloInv, NEW c \in CPUs, NEW motivo \in Fines,
         TerminarTurno(c, motivo) \/ TerminarDosVeces(c, motivo)
  PROVE  ProtocoloInv'
<1>0. /\ cpu \in [CPUs -> TipoCPU] /\ \A d \in CPUs : PidEnCPU(cpu[d])
      /\ aKernel \in [CPUs -> Seq(Mensajes)] /\ aCPU \in [CPUs -> Seq(Palabras)]
      /\ \A d \in CPUs : BienFormado(aCPU[d])
      /\ pedidos \in [Pids -> Nat] /\ \A q \in Pids : pedidos[q] \in 0 .. MaxPedidos[q]
      /\ deMas \in 0 .. MaxDeMas /\ MaxDeMas \in Nat
  BY AntesDeLaCPU
<1> DEFINE m == Mensaje(motivo, cpu[c].pid, 0)
           f == Mensaje("PROCESO_FINALIZO_RAFAGA", cpu[c].pid, 0)
           k == aKernel[c]
           x == [cpu[c] EXCEPT !.modo = "muerta"]
<1>1. /\ cpu[c].modo \in {"ejecutando", "abortado"}
      /\ UNCHANGED SoloCPU
      /\ UNCHANGED << aCPU, pedidos >>
      /\ \/ Enviar(c, motivo, 0)
         \/ aKernel' = [aKernel EXCEPT ![c] = k \o <<m, f>>]
      /\ cpu' = [cpu EXCEPT ![c] = CPULibre] \/ cpu' = [cpu EXCEPT ![c] = x]
      /\ deMas' = deMas \/ (deMas < MaxDeMas /\ deMas' = deMas + 1)
  <2>1. CASE TerminarTurno(c, motivo)
    BY <2>1 DEF TerminarTurno, SoloFin
  <2>2. CASE TerminarDosVeces(c, motivo)
    <3>1. /\ cpu[c].modo \in {"ejecutando", "abortado"}
          /\ UNCHANGED SoloFin
          /\ \/ /\ aKernel' = [aKernel EXCEPT ![c] = k \o <<m, f>>]
                /\ cpu' = [cpu EXCEPT ![c] = CPULibre]
                /\ deMas < MaxDeMas /\ deMas' = deMas + 1
             \/ /\ Enviar(c, motivo, 0)
                /\ cpu' = [cpu EXCEPT ![c] = x]
                /\ deMas' = deMas
      BY <2>2 DEF TerminarDosVeces
    <3>2. UNCHANGED SoloCPU /\ UNCHANGED << aCPU, pedidos >>
      BY <3>1 DEF SoloFin
    <3> HIDE DEF k, m, f, x
    <3>3. QED
      BY <3>1, <3>2
  <2>3. QED
    BY <2>1, <2>2
<1>2. cpu[c] \in TipoCPU /\ PidEnCPU(cpu[c])
  BY <1>0
<1>3. cpu[c].pid \in Pids
  BY <1>1, <1>2 DEF PidEnCPU
<1>4. x \in TipoCPU /\ PidEnCPU(x) /\ CPULibre \in TipoCPU /\ PidEnCPU(CPULibre)
  BY <1>2 DEF TipoCPU, PidEnCPU, CPULibre, SinPid
<1> HIDE DEF x
<1>5. cpu' \in [CPUs -> TipoCPU] /\ \A d \in CPUs : PidEnCPU(cpu'[d])
  <2>1. CASE cpu' = [cpu EXCEPT ![c] = CPULibre]
    BY <1>0, <1>4, <2>1, CPUNueva
  <2>2. CASE cpu' = [cpu EXCEPT ![c] = x]
    BY <1>0, <1>4, <2>2, CPUNueva
  <2>3. QED
    BY <1>1, <2>1, <2>2
<1>6. aKernel' \in [CPUs -> Seq(Mensajes)]
  <2>1. CASE Enviar(c, motivo, 0)
    BY <1>0, <1>3, <2>1, Enviado DEF Fines
  <2>2. CASE aKernel' = [aKernel EXCEPT ![c] = k \o <<m, f>>]
    <3>1. m \in Mensajes /\ f \in Mensajes
      BY <1>3 DEF Mensaje, Mensajes, Fines
    <3> HIDE DEF m, f
    <3>2. <<m, f>> \in Seq(Mensajes) /\ k \in Seq(Mensajes)
      BY <1>0, <3>1
    <3>3. k \o <<m, f>> \in Seq(Mensajes)
      BY <3>2, ConcatProperties
    <3>4. QED
      BY <1>0, <2>2, <3>3
  <2>3. QED
    BY <1>1, <2>1, <2>2
<1>7. /\ aCPU' \in [CPUs -> Seq(Palabras)] /\ \A d \in CPUs : BienFormado(aCPU'[d])
      /\ pedidos' \in [Pids -> Nat] /\ \A q \in Pids : pedidos'[q] \in 0 .. MaxPedidos[q]
  BY <1>0, <1>1
<1>8. deMas' \in 0 .. MaxDeMas
  BY <1>0, <1>1
<1>9. QED
  BY <1>1, <1>5, <1>6, <1>7, <1>8, PasoDeCPU

-----------------------------------------------------------------------------
LEMMA Inicio ==
  ASSUME Init
  PROVE  ProtocoloInv
<1>1. /\ pidActual = 1 /\ colaNuevo = << >> /\ colaListo = << >>
      /\ planificador = Ocioso /\ hilo = [c \in CPUs |-> Hilo("libre", SinPid)]
      /\ paginas = [p \in Pids |-> << >>]
      /\ alMemoria = << >> /\ deMemoria = << >> /\ asignadas = [p \in Pids |-> 0]
      /\ cpu = [c \in CPUs |-> CPULibre] /\ deMas = 0
      /\ aKernel = [c \in CPUs |-> << >>] /\ aCPU = [c \in CPUs |-> << >>]
      /\ pedidos = [p \in Pids |-> 0] /\ punteros = [p \in Pids |-> {}] /\ sistema = "anda"
  BY DEF Init
<1>2. /\ Cardinality(Pids) \in Nat /\ Pids = 1 .. Cardinality(Pids)
      /\ MaxPedidos \in [Pids -> Nat] /\ MaxDeMas \in Nat
  BY PidsAssumption, TamaniosAssumption, FS_CardinalityType
<1>3. \A S : << >> \in Seq(S)
  OBVIOUS
<1>4. Hilo("libre", SinPid) \in TipoHilo /\ CPULibre \in TipoCPU /\ Ocioso \in TipoPlanificador
  BY DEF Hilo, TipoHilo, CPULibre, TipoCPU, SinPid, Ocioso, TipoPlanificador
<1>5. Tipos
  <2>1. pidActual \in Pids \cup {Cardinality(Pids) + 1} /\ deMas \in 0 .. MaxDeMas
    BY <1>1, <1>2
  <2>2. \A p \in Pids : pedidos[p] \in 0 .. MaxPedidos[p]
    BY <1>1, <1>2
  <2>3. /\ colaNuevo \in Seq(Pids) /\ colaListo \in Seq(Pids) /\ asignadas \in [Pids -> Nat]
        /\ paginas \in [Pids -> Seq(PaginasHeap)] /\ alMemoria \in Seq(PedidosMemoria)
        /\ deMemoria \in Seq(BOOLEAN)
    BY <1>1, <1>3
  <2>4. /\ planificador \in TipoPlanificador /\ hilo \in [CPUs -> TipoHilo]
        /\ cpu \in [CPUs -> TipoCPU]
    BY <1>1, <1>4
  <2>5. punteros \in [Pids -> SUBSET (0 .. ANCHO - 1)] /\ sistema \in Estados
    BY <1>1 DEF Estados
  <2>6. QED
    BY <2>1, <2>2, <2>3, <2>4, <2>5 DEF Tipos
<1>6. CanalesOK
  <2>1. aKernel \in [CPUs -> Seq(Mensajes)] /\ aCPU \in [CPUs -> Seq(Palabras)]
    BY <1>1, <1>3
  <2>2. \A c \in CPUs : BienFormado(aCPU[c])
    BY <1>1 DEF BienFormado
  <2>3. QED
    BY <1>1, <2>1, <2>2 DEF CanalesOK
<1>7. ConPid
  BY <1>1 DEF ConPid, PidEnUso, PidEnCPU, Hilo, CPULibre, Ocioso
<1>8. PaginasInv
  BY <1>1 DEF PaginasInv, Numeradas, PorAgregar, Hilo
<1>9. SoloDevuelveConDos
  BY <1>1 DEF SoloDevuelveConDos
<1>10. EsperaInv
  <2>1. HilosEsperando = {}
    BY <1>1 DEF HilosEsperando, Hilo, Esperas
  <2>2. IsFiniteSet(HilosEsperando) /\ Cardinality(HilosEsperando) = 0
    BY <2>1, FS_EmptySet
  <2>3. Esperan = 0
    BY <1>1, <2>2 DEF Esperan, Ocioso
  <2>4. Len(alMemoria) + Len(deMemoria) = 0
    BY <1>1
  <2>5. QED
    BY <2>2, <2>3, <2>4 DEF EsperaInv, NadieEsperaDeMas
<1>11. QED
  BY <1>5, <1>6, <1>7, <1>8, <1>9, <1>10 DEF ProtocoloInv

LEMMA Paso ==
  ASSUME ProtocoloInv, Next
  PROVE  ProtocoloInv'
<1>1. \/ iniciarPCB
      \/ planificarSistema
      \/ Memoria
      \/ MemoriaCuelga
      \/ \E c \in CPUs : manejadorCPU(c) \/ CicloCPU(c)
  BY DEF Next
<1>2. CASE iniciarPCB
  BY <1>2, IniciarInv
<1>3. CASE planificarSistema
  BY <1>3, MandarInicioInv, RecibirInicioInv DEF planificarSistema
<1>4. CASE Memoria
  BY <1>4, MemoriaInv
<1>5. CASE MemoriaCuelga
  <2>1. Parar("memoria colgada") /\ "memoria colgada" \in Estados
    BY <1>5 DEF MemoriaCuelga, Estados
  <2>2. QED
    BY <2>1, PararInv
<1>6. ASSUME NEW c \in CPUs, manejadorCPU(c)
      PROVE  ProtocoloInv'
  BY <1>6, TomarListoInv, EnviarSinTomarInv, AlocarInv, RecibirPaginaInv, AgregarPaginaInv,
     OcuparSinBloqueInv, LiberarInv, TerminaTurnoInv DEF manejadorCPU, BuscarListo, AtenderCPU
<1>7. ASSUME NEW c \in CPUs, CicloCPU(c)
      PROVE  ProtocoloInv'
  <2>1. CASE recibirPCBDeKernel(c) \/ RespuestaReserva(c)
    BY <2>1, RecibirPCBInv, RespuestaReservaInv
  <2>2. CASE \E t \in Tamanios : reservarMemoria(c, t)
    BY <2>2, ReservarInv
  <2>3. CASE \E p \in Pids : \E puntero \in punteros[p] : liberarMemoria(c, puntero)
    BY <2>3, LiberarMemoriaInv
  <2>4. CASE \E motivo \in Fines : TerminarTurno(c, motivo) \/ TerminarDosVeces(c, motivo)
    BY <2>4, TerminarInv
  <2>5. QED
    BY <1>7, <2>1, <2>2, <2>3, <2>4 DEF CicloCPU, Fines
<1>8. QED
  BY <1>1, <1>2, <1>3, <1>4, <1>5, <1>6, <1>7

LEMMA Quieto ==
  ASSUME ProtocoloInv, UNCHANGED vars
  PROVE  ProtocoloInv'
<1>1. Parar(sistema)
  BY DEF Parar, vars
<1>2. sistema \in Estados
  BY DEF ProtocoloInv, Tipos
<1>3. QED
  BY <1>1, <1>2, PararInv

THEOREM ProtocoloInvariante == Spec => []ProtocoloInv
<1>1. Init => ProtocoloInv
  BY Inicio
<1>2. ProtocoloInv /\ [Next]_vars => ProtocoloInv'
  BY Paso, Quieto
<1>3. QED
  BY <1>1, <1>2, PTL DEF Spec

(* Every variable of the conversation has its type, the sizes of the       *)
(* blocks and the pointers within the width of the code included.          *)
THEOREM TipoDelProtocolo == Spec => []TypeOK
<1>1. ProtocoloInv => TypeOK
  BY NombresDeTipos DEF ProtocoloInv
<1>2. QED
  BY <1>1, ProtocoloInvariante, PTL

(* For any number of CPUs and programs, with old PCBs sent again and turns *)
(* that end twice: every thread that waits for Memoria has an answer       *)
(* coming, its own or that of another.                                     *)
THEOREM TodosTienenRespuesta == Spec => []NadieEsperaDeMas
<1>1. ProtocoloInv => NadieEsperaDeMas
  BY DEF ProtocoloInv, EsperaInv
<1>2. QED
  BY <1>1, ProtocoloInvariante, PTL

(* liberarDatosDeProceso gives a page back only for a process with two     *)
(* pages of heap: a page is numbered before it is in the list, so that the *)
(* first one never has the number of a pointer.                            *)
THEOREM DevuelveConDos == Spec => []SoloDevuelveConDos
<1>1. ProtocoloInv => SoloDevuelveConDos
  BY DEF ProtocoloInv
<1>2. QED
  BY <1>1, ProtocoloInvariante, PTL
=============================================================================

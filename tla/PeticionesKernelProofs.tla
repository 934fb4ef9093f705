----------------------- MODULE PeticionesKernelProofs -----------------------
(***************************************************************************)
(* The requests of the programs to the kernel, proved for every set of     *)
(* CPUs, consoles and strangers, every set of shared variables and every   *)
(* number of packets.                                                      *)
(***************************************************************************)
EXTENDS PeticionesKernel, SequenceTheorems, FiniteSetTheorems,
        WellFoundedInduction, TLAPS

(* A non-empty set of naturals has a least element.                        *)
LEMMA HayMinimo ==
  ASSUME NEW T \in SUBSET Nat, T # {}
  PROVE  \E n \in T : \A m \in T : n <= m
<1> DEFINE Menor == {ss \in Nat \X Nat : ss[1] < ss[2]}
<1>1. IsWellFoundedOn(Menor, Nat)
  BY NatLessThanWellFounded, Zenon DEF OpToRel
<1>2. PICK n \in T : \A m \in T : <<m, n>> \notin Menor
  <2> HIDE DEF Menor
  <2>1. QED
    BY <1>1, WFMin
<1>3. ASSUME NEW m \in T
      PROVE  n <= m
  <2>1. <<m, n>> \notin Menor
    BY <1>2
  <2>2. ~(m < n)
    BY <2>1
  <2>3. QED
    BY <2>2
<1>4. QED
  BY <1>3

-----------------------------------------------------------------------------
(* Streams.                                                                *)

(* The bytes of the first pieces are what their recursive definition says. *)
LEMMA LargoDefinido ==
  ASSUME NEW flujo \in Seq(Trozos)
  PROVE  /\ LargoHasta(flujo) \in [0 .. Len(flujo) -> Nat]
         /\ LargoHasta(flujo)[0] = 0
         /\ \A k \in 1 .. Len(flujo) :
              LargoHasta(flujo)[k] = LargoHasta(flujo)[k - 1] + flujo[k].largo
<1> DEFINE n == Len(flujo)
           Ok(m, f) == /\ f \in [0 .. m -> Nat]
                       /\ f[0] = 0
                       /\ \A k \in 1 .. m : f[k] = f[k - 1] + flujo[k].largo
<1>1. n \in Nat /\ \A k \in 1 .. n : flujo[k].largo \in Nat
  <2>1. n \in Nat /\ \A k \in 1 .. n : flujo[k] \in Trozos
    BY LenProperties, ElementOfSeq
  <2>2. QED
    BY <2>1 DEF Trozos
<1>2. \E f : Ok(n, f)
  <2> DEFINE T == {m \in 0 .. n : ~\E f : Ok(m, f)}
  <2>1. SUFFICES ASSUME T # {}
                 PROVE  FALSE
    BY <1>1
  <2>2. PICK m \in T : \A j \in T : m <= j
    <3>1. T \in SUBSET Nat
      BY <1>1
    <3> HIDE DEF T
    <3>2. QED
      BY <2>1, <3>1, HayMinimo
  <2>3. m # 0
    <3>1. Ok(0, [k \in 0 .. 0 |-> 0])
      OBVIOUS
    <3>2. QED
      BY <2>2, <3>1
  <2>4. PICK f : Ok(m - 1, f)
    <3>1. m - 1 \in 0 .. n /\ ~(m <= m - 1)
      BY <1>1, <2>2, <2>3
    <3>2. QED
      BY <3>1, <2>2
  <2> DEFINE g == [k \in 0 .. m |-> IF k = m THEN f[m - 1] + flujo[m].largo ELSE f[k]]
  <2>5. Ok(m, g)
    <3>1. m \in 1 .. n /\ flujo[m].largo \in Nat /\ f[m - 1] \in Nat
      BY <1>1, <2>2, <2>3, <2>4
    <3>2. g \in [0 .. m -> Nat] /\ g[0] = 0
      BY <3>1, <2>3, <2>4
    <3>3. ASSUME NEW k \in 1 .. m
          PROVE  g[k] = g[k - 1] + flujo[k].largo
      BY <3>1, <2>4
    <3>4. QED
      BY <3>2, <3>3
  <2>6. QED
    BY <2>2, <2>5
<1>3. PICK f : Ok(n, f)
  BY <1>2
<1> DEFINE Bien(h) == h = [k \in 0 .. n |-> IF k = 0 THEN 0 ELSE h[k - 1] + flujo[k].largo]
<1>4. Bien(f)
  BY <1>1, <1>3
<1>5. LargoHasta(flujo) = CHOOSE h : Bien(h)
  BY DEF LargoHasta
<1> DEFINE g == LargoHasta(flujo)
<1>6. Bien(g)
  <2> HIDE DEF Bien
  <2>1. QED
    BY <1>4, <1>5
<1>7. \A k \in 0 .. n : g[k] = f[k]
  <2> DEFINE T == {k \in 0 .. n : g[k] # f[k]}
  <2>1. SUFFICES ASSUME T # {}
                 PROVE  FALSE
    OBVIOUS
  <2>2. PICK m \in T : \A j \in T : m <= j
    <3>1. T \in SUBSET Nat
      BY <1>1
    <3> HIDE DEF T
    <3>2. QED
      BY <2>1, <3>1, HayMinimo
  <2>3. g[0] = f[0]
    <3> HIDE DEF g
    <3>1. QED
      BY <1>1, <1>3, <1>6
  <2>4. m # 0 /\ m \in 1 .. n /\ m - 1 \in 0 .. n /\ g[m - 1] = f[m - 1]
    <3> HIDE DEF g
    <3>1. m # 0
      BY <2>2, <2>3
    <3>2. m \in 1 .. n /\ m - 1 \in 0 .. n /\ ~(m <= m - 1)
      BY <1>1, <2>2, <3>1
    <3>3. QED
      BY <2>2, <3>1, <3>2
  <2>5. g[m] = g[m - 1] + flujo[m].largo
    <3> HIDE DEF g
    <3>1. QED
      BY <1>1, <1>6, <2>4
  <2>6. QED
    BY <1>3, <2>2, <2>4, <2>5
<1>8. DOMAIN g = 0 .. n
  <2> HIDE DEF g
  <2>1. QED
    BY <1>6
<1>9. g = f
  <2>1. f = [k \in 0 .. n |-> f[k]] /\ g = [k \in 0 .. n |-> g[k]]
    <3> HIDE DEF g
    <3>1. QED
      BY <1>3, <1>6
  <2>2. QED
    BY <1>7, <2>1
<1>10. QED
  BY <1>3, <1>9

(* Pieces have bytes: what comes after the first one adds to it.           *)
LEMMA LargoCrece ==
  ASSUME NEW flujo \in Seq(Trozos), flujo # << >>,
         \A i \in 2 .. Len(flujo) : flujo[i].largo > 0
  PROVE  \A k \in 2 .. Len(flujo) : LargoHasta(flujo)[1] < LargoHasta(flujo)[k]
<1> DEFINE n == Len(flujo)
           g == LargoHasta(flujo)
           T == {k \in 2 .. n : ~(g[1] < g[k])}
<1>1. n \in Nat /\ n >= 1
  BY EmptySeq, LenProperties
<1>2. /\ g \in [0 .. n -> Nat]
      /\ \A k \in 1 .. n : g[k] = g[k - 1] + flujo[k].largo
  BY LargoDefinido
<1>3. \A k \in 1 .. n : flujo[k].largo \in Nat
  <2>1. \A k \in 1 .. n : flujo[k] \in Trozos
    BY ElementOfSeq
  <2>2. QED
    BY <2>1 DEF Trozos
<1> HIDE DEF g
<1>4. SUFFICES ASSUME T # {}
               PROVE  FALSE
  BY DEF g
<1>5. PICK m \in T : \A j \in T : m <= j
  <2>1. T \in SUBSET Nat
    BY <1>1
  <2> HIDE DEF T
  <2>2. QED
    BY <1>4, <2>1, HayMinimo
<1>6. m \in 1 .. n /\ g[m] = g[m - 1] + flujo[m].largo /\ flujo[m].largo > 0
  BY <1>1, <1>2, <1>5
<1>7. CASE m = 2
  BY <1>1, <1>2, <1>3, <1>5, <1>6, <1>7
<1>8. CASE m # 2
  <2>1. m - 1 \in 2 .. n /\ ~(m <= m - 1)
    BY <1>1, <1>5, <1>8
  <2>2. g[1] < g[m - 1]
    BY <1>5, <2>1
  <2>3. g[1] \in Nat /\ g[m - 1] \in Nat /\ g[m] \in Nat /\ flujo[m].largo \in Nat
    BY <1>1, <1>2, <1>3, <1>6, <2>1
  <2>4. QED
    BY <1>5, <1>6, <2>2, <2>3
<1>9. QED
  BY <1>7, <1>8

(* recv takes between none and all of the pieces that have arrived.        *)
LEMMA CuantosRecibidos ==
  ASSUME NEW flujo \in Seq(Trozos), NEW tam
  PROVE  Recibidos(flujo, tam) \in 0 .. Len(flujo)
<1> DEFINE I == {k \in DOMAIN flujo : LargoHasta(flujo)[k] <= tam}
<1>1. Len(flujo) \in Nat /\ I \in SUBSET (1 .. Len(flujo))
  BY LenProperties
<1>2. IsFiniteSet(1 .. Len(flujo)) /\ Cardinality(1 .. Len(flujo)) = Len(flujo)
  BY <1>1, FS_Interval
<1> HIDE DEF I
<1>3. IsFiniteSet(I) /\ Cardinality(I) <= Cardinality(1 .. Len(flujo)) /\ Cardinality(I) \in Nat
  BY <1>1, <1>2, FS_Subset, FS_CardinalityType
<1>4. Recibidos(flujo, tam) = Cardinality(I)
  BY DEF Recibidos, I
<1>5. QED
  BY <1>1, <1>2, <1>3, <1>4

(* When the length asked for is that of the first piece, recv takes it and *)
(* nothing else; when it is zero, nothing.                                 *)
LEMMA RecibidosUno ==
  ASSUME NEW flujo \in Seq(Trozos), flujo # << >>,
         \A i \in 2 .. Len(flujo) : flujo[i].largo > 0
  PROVE  Recibidos(flujo, flujo[1].largo) = 1
<1> DEFINE g == LargoHasta(flujo)
           I == {k \in DOMAIN flujo : g[k] <= flujo[1].largo}
<1>1. Len(flujo) \in Nat /\ Len(flujo) >= 1 /\ DOMAIN flujo = 1 .. Len(flujo)
  BY EmptySeq, LenProperties
<1>2. /\ g \in [0 .. Len(flujo) -> Nat]
      /\ g[0] = 0
      /\ g[1] = g[1 - 1] + flujo[1].largo
  BY <1>1, LargoDefinido
<1>3. flujo[1].largo \in Nat
  <2>1. flujo[1] \in Trozos
    BY <1>1, ElementOfSeq
  <2>2. QED
    BY <2>1 DEF Trozos
<1>4. \A k \in 2 .. Len(flujo) : g[1] < g[k]
  BY LargoCrece
<1>5. I = {1}
  <2> HIDE DEF g
  <2>1. g[1] = flujo[1].largo
    BY <1>2, <1>3
  <2>2. 1 \in I
    BY <1>1, <1>3, <2>1
  <2>3. ASSUME NEW k \in I
        PROVE  k = 1
    <3>1. CASE k \in 2 .. Len(flujo)
      <4>1. g[1] < g[k] /\ g[k] <= flujo[1].largo /\ g[k] \in Nat
        BY <1>1, <1>2, <1>4, <3>1
      <4>2. QED
        BY <4>1, <2>1, <1>3
    <3>2. CASE k \notin 2 .. Len(flujo)
      BY <3>2, <1>1
    <3>3. QED
      BY <3>1, <3>2
  <2>4. QED
    BY <2>2, <2>3
<1>6. Recibidos(flujo, flujo[1].largo) = Cardinality(I)
  BY DEF Recibidos
<1>7. QED
  <2> HIDE DEF I
  <2>1. QED
    BY <1>5, <1>6, FS_Singleton

LEMMA RecibidosNinguno ==
  ASSUME NEW flujo \in Seq(Trozos), \A i \in 1 .. Len(flujo) : flujo[i].largo > 0
  PROVE  Recibidos(flujo, 0) = 0
<1> DEFINE g == LargoHasta(flujo)
           I == {k \in DOMAIN flujo : g[k] <= 0}
<1>1. Len(flujo) \in Nat /\ DOMAIN flujo = 1 .. Len(flujo)
  BY LenProperties
<1>2. /\ g \in [0 .. Len(flujo) -> Nat]
      /\ g[0] = 0
      /\ \A k \in 1 .. Len(flujo) : g[k] = g[k - 1] + flujo[k].largo
  BY LargoDefinido
<1>3. \A k \in 1 .. Len(flujo) : flujo[k].largo \in Nat
  <2>1. \A k \in 1 .. Len(flujo) : flujo[k] \in Trozos
    BY ElementOfSeq
  <2>2. QED
    BY <2>1 DEF Trozos
<1>4. I = {}
  <2> HIDE DEF g
  <2>1. SUFFICES ASSUME NEW k \in 1 .. Len(flujo)
                 PROVE  ~(g[k] <= 0)
    BY <1>1
  <2>2. g[k] = g[k - 1] + flujo[k].largo /\ flujo[k].largo > 0 /\ flujo[k].largo \in Nat
    BY <1>2, <1>3
  <2>3. g[k - 1] \in Nat
    BY <1>1, <1>2
  <2>4. QED
    BY <2>2, <2>3
<1>5. Recibidos(flujo, 0) = Cardinality(I)
  BY DEF Recibidos
<1>6. QED
  <2> HIDE DEF I
  <2>1. QED
    BY <1>4, <1>5, FS_EmptySet

(* What is left of a stream from a piece on.                               *)
LEMMA Desde ==
  ASSUME NEW S, NEW flujo \in Seq(S), NEW m \in Nat \ {0}
  PROVE  /\ SubSeq(flujo, m, Len(flujo)) \in Seq(S)
         /\ Len(SubSeq(flujo, m, Len(flujo))) = IF m <= Len(flujo) THEN Len(flujo) - m + 1 ELSE 0
         /\ \A i \in 1 .. Len(flujo) - m + 1 :
              SubSeq(flujo, m, Len(flujo))[i] = flujo[m + i - 1]
<1>1. Len(flujo) \in Nat /\ \A i \in 1 .. Len(flujo) : flujo[i] \in S
  BY LenProperties, ElementOfSeq
<1>2. m \in Int /\ Len(flujo) \in Int /\ \A i \in m .. Len(flujo) : flujo[i] \in S
  BY <1>1
<1>3. QED
  BY <1>2, SubSeqProperties

(* The body of a packet that carries nothing.                              *)
LEMMA VacioEsCuerpo == Vacio \in Cuerpos
<1>1. 0 \in Valores /\ 0 \in 0 .. MaxMensajes /\ "" \in Nombres \cup {""}
  BY PeticionesAssumption
<1>2. QED
  BY <1>1 DEF Vacio, Cuerpos

(* What any reader of packets gets from a stream, wherever it is cut.      *)
LEMMA LoRecibido ==
  ASSUME NEW flujo \in Seq(Trozos), HayPaquete(flujo)
  PROVE  /\ recvRemasterizado(flujo).tipo \in Int
         /\ recvRemasterizado(flujo).mensaje \in Cuerpos
         /\ recvRemasterizado(flujo).resto \in Seq(Trozos)
<1> DEFINE tam == flujo[2].entero
           despues == SubSeq(flujo, 3, Len(flujo))
           k == Recibidos(despues, tam)
<1>1. Len(flujo) \in Nat /\ Len(flujo) >= 2 /\ \A i \in 1 .. Len(flujo) : flujo[i] \in Trozos
  BY LenProperties, ElementOfSeq DEF HayPaquete
<1>2. despues \in Seq(Trozos)
  BY Desde
<1>3. k \in 0 .. Len(despues) /\ Len(despues) \in Nat
  <2> HIDE DEF despues
  <2>1. QED
    BY <1>2, CuantosRecibidos, LenProperties
<1>4. recvRemasterizado(flujo) =
        [tipo    |-> flujo[1].entero,
         mensaje |-> IF k = 0 THEN Vacio ELSE despues[1].cuerpo,
         resto   |-> SubSeq(despues, k + 1, Len(despues))]
  BY DEF recvRemasterizado
<1> HIDE DEF k, despues
<1>5. SubSeq(despues, k + 1, Len(despues)) \in Seq(Trozos)
  <2>1. k + 1 \in Nat \ {0}
    BY <1>3
  <2>2. QED
    BY <1>2, <2>1, Desde
<1>6. flujo[1].entero \in Int
  <2>1. flujo[1] \in Trozos
    BY <1>1
  <2>2. QED
    BY <2>1 DEF Trozos
<1>7. (IF k = 0 THEN Vacio ELSE despues[1].cuerpo) \in Cuerpos
  <2>1. CASE k = 0
    BY <2>1, VacioEsCuerpo
  <2>2. CASE k # 0
    <3>1. 1 \in 1 .. Len(despues)
      BY <2>2, <1>3
    <3>2. despues[1] \in Trozos
      BY <3>1, <1>2, ElementOfSeq
    <3>3. QED
      BY <2>2, <3>2 DEF Trozos
  <2>3. QED
    BY <2>1, <2>2
<1>8. QED
  BY <1>4, <1>5, <1>6, <1>7

(* In step: a reader of packets takes the packet at the front of the       *)
(* stream, and all of it.                                                  *)
LEMMA PaqueteEntero ==
  ASSUME NEW flujo \in Seq(Trozos), Len(flujo) >= 3,
         flujo[2].entero = flujo[3].largo,
         \A i \in 4 .. Len(flujo) : flujo[i].largo > 0
  PROVE  /\ HayPaquete(flujo)
         /\ recvRemasterizado(flujo).tipo = flujo[1].entero
         /\ recvRemasterizado(flujo).mensaje = flujo[3].cuerpo
         /\ recvRemasterizado(flujo).resto = SubSeq(flujo, 4, Len(flujo))
<1> DEFINE despues == SubSeq(flujo, 3, Len(flujo))
           k == Recibidos(despues, flujo[2].entero)
<1>1. Len(flujo) \in Nat
  BY LenProperties
<1>2. /\ despues \in Seq(Trozos)
      /\ Len(despues) = Len(flujo) - 2
      /\ \A i \in 1 .. Len(flujo) - 2 : despues[i] = flujo[i + 2]
  <2>1. /\ despues \in Seq(Trozos)
        /\ Len(despues) = IF 3 <= Len(flujo) THEN Len(flujo) - 3 + 1 ELSE 0
        /\ \A i \in 1 .. Len(flujo) - 3 + 1 : despues[i] = flujo[3 + i - 1]
    BY Desde
  <2> HIDE DEF despues
  <2>2. QED
    BY <1>1, <2>1
<1>3. recvRemasterizado(flujo) =
        [tipo    |-> flujo[1].entero,
         mensaje |-> IF k = 0 THEN Vacio ELSE despues[1].cuerpo,
         resto   |-> SubSeq(despues, k + 1, Len(despues))]
  BY DEF recvRemasterizado
<1>4. k = 1
  <2> HIDE DEF despues
  <2>1. despues # << >> /\ flujo[2].entero = despues[1].largo
    BY <1>1, <1>2
  <2>2. \A i \in 2 .. Len(despues) : despues[i].largo > 0
    BY <1>1, <1>2
  <2>3. QED
    BY <1>2, <2>1, <2>2, RecibidosUno
<1>5. SubSeq(despues, 2, Len(despues)) = SubSeq(flujo, 4, Len(flujo))
  <2> DEFINE a == SubSeq(despues, 2, Len(despues))
             b == SubSeq(flujo, 4, Len(flujo))
  <2>1. /\ b \in Seq(Trozos)
        /\ Len(b) = IF 4 <= Len(flujo) THEN Len(flujo) - 4 + 1 ELSE 0
        /\ \A i \in 1 .. Len(flujo) - 4 + 1 : b[i] = flujo[4 + i - 1]
    BY Desde
  <2> HIDE DEF despues, b
  <2>2. /\ a \in Seq(Trozos)
        /\ Len(a) = IF 2 <= Len(despues) THEN Len(despues) - 2 + 1 ELSE 0
        /\ \A i \in 1 .. Len(despues) - 2 + 1 : a[i] = despues[2 + i - 1]
    BY <1>2, Desde
  <2> HIDE DEF a
  <2>3. Len(a) = Len(b) /\ Len(a) \in Nat
    BY <1>1, <1>2, <2>1, <2>2
  <2>4. ASSUME NEW i \in 1 .. Len(a)
        PROVE  a[i] = b[i]
    <3>1. i \in 1 .. Len(despues) - 2 + 1 /\ i \in 1 .. Len(flujo) - 4 + 1
      BY <1>1, <1>2, <2>2
    <3>2. a[i] = despues[2 + i - 1] /\ b[i] = flujo[4 + i - 1]
      BY <3>1, <2>1, <2>2
    <3>3. 2 + i - 1 \in 1 .. Len(flujo) - 2 /\ (2 + i - 1) + 2 = 4 + i - 1
      BY <1>1, <3>1
    <3>4. QED
      BY <1>2, <3>2, <3>3
  <2>5. a = b
    BY <2>1, <2>2, <2>3, <2>4, SeqEqual
  <2>6. QED
    BY <2>5 DEF a, b
<1>6. HayPaquete(flujo)
  BY <1>1 DEF HayPaquete
<1>7. despues[1] = flujo[3]
  <2> HIDE DEF despues
  <2>1. 1 \in 1 .. Len(flujo) - 2
    BY <1>1
  <2>2. QED
    BY <1>2, <2>1
<1>8. QED
  <2> HIDE DEF k, despues
  <2>1. QED
    BY <1>3, <1>4, <1>5, <1>6, <1>7

(* A packet without a body.                                                *)
LEMMA PaqueteSinCuerpo ==
  ASSUME NEW flujo \in Seq(Trozos), Len(flujo) = 2, flujo[2].entero = 0
  PROVE  /\ HayPaquete(flujo)
         /\ recvRemasterizado(flujo).tipo = flujo[1].entero
         /\ recvRemasterizado(flujo).resto = << >>
<1> DEFINE despues == SubSeq(flujo, 3, Len(flujo))
           k == Recibidos(despues, flujo[2].entero)
<1>1. despues = << >>
  BY SubSeqEmpty
<1>2. recvRemasterizado(flujo) =
        [tipo    |-> flujo[1].entero,
         mensaje |-> IF k = 0 THEN Vacio ELSE despues[1].cuerpo,
         resto   |-> SubSeq(despues, k + 1, Len(despues))]
  BY DEF recvRemasterizado
<1>3. k = 0
  <2>1. despues \in Seq(Trozos) /\ Len(despues) = 0
    BY <1>1, EmptySeq
  <2> HIDE DEF despues
  <2>2. \A i \in 1 .. Len(despues) : despues[i].largo > 0
    BY <2>1
  <2>3. Recibidos(despues, 0) = 0
    BY <2>1, <2>2, RecibidosNinguno
  <2>4. QED
    BY <2>3
<1>4. SubSeq(despues, 1, Len(despues)) = << >>
  <2>1. Len(despues) = 0
    BY <1>1, EmptySeq
  <2>2. QED
    BY <2>1, SubSeqEmpty
<1>5. HayPaquete(flujo)
  BY DEF HayPaquete
<1>6. QED
  <2> HIDE DEF k, despues
  <2>1. QED
    BY <1>2, <1>3, <1>4, <1>5

(* A packet that is sent.                                                  *)
LEMMA LoEnviado ==
  ASSUME NEW flujo \in Seq(Trozos), NEW tipo \in Int, NEW tam \in Nat, NEW que \in Cuerpos
  PROVE  /\ sendRemasterizado(flujo, tipo, tam, que) \in Seq(Trozos)
         /\ \A i \in 1 .. Len(flujo) : sendRemasterizado(flujo, tipo, tam, que)[i] = flujo[i]
         /\ sendRemasterizado(flujo, tipo, tam, que)[Len(flujo) + 1] = Entero(tipo)
         /\ sendRemasterizado(flujo, tipo, tam, que)[Len(flujo) + 2] = Entero(tam)
         /\ tam = 0 => Len(sendRemasterizado(flujo, tipo, tam, que)) = Len(flujo) + 2
         /\ tam # 0 =>
              /\ Len(sendRemasterizado(flujo, tipo, tam, que)) = Len(flujo) + 3
              /\ sendRemasterizado(flujo, tipo, tam, que)[Len(flujo) + 3] = Bulto(tam, que)
<1> DEFINE ab == <<Entero(tipo), Entero(tam)>>
           c == IF tam = 0 THEN << >> ELSE <<Bulto(tam, que)>>
<1>1. Vacio \in Cuerpos
  BY VacioEsCuerpo
<1>2. Entero(tipo) \in Trozos /\ Entero(tam) \in Trozos /\ Bulto(tam, que) \in Trozos
  BY <1>1 DEF Entero, Bulto, Trozos
<1>3. /\ ab \in Seq(Trozos) /\ Len(ab) = 2
      /\ ab[1] = Entero(tipo) /\ ab[2] = Entero(tam)
  <2> HIDE <1>1
  <2>1. QED
    BY <1>2
<1>4. /\ c \in Seq(Trozos)
      /\ tam = 0 => Len(c) = 0
      /\ tam # 0 => Len(c) = 1 /\ c[1] = Bulto(tam, que)
  BY <1>2, EmptySeq
<1> HIDE DEF ab, c
<1>5. /\ flujo \o ab \in Seq(Trozos)
      /\ Len(flujo \o ab) = Len(flujo) + Len(ab)
      /\ \A i \in 1 .. Len(flujo) + Len(ab) :
           (flujo \o ab)[i] = IF i <= Len(flujo) THEN flujo[i] ELSE ab[i - Len(flujo)]
  BY <1>3, ConcatProperties
<1> DEFINE fab == flujo \o ab
<1> HIDE DEF fab
<1>6. /\ fab \o c \in Seq(Trozos)
      /\ Len(fab \o c) = Len(fab) + Len(c)
      /\ \A i \in 1 .. Len(fab) + Len(c) :
           (fab \o c)[i] = IF i <= Len(fab) THEN fab[i] ELSE c[i - Len(fab)]
  BY <1>4, <1>5, ConcatProperties DEF fab
<1>7. sendRemasterizado(flujo, tipo, tam, que) = fab \o c
  BY DEF sendRemasterizado, fab, ab, c
<1>8. /\ fab \in Seq(Trozos) /\ Len(fab) = Len(flujo) + 2 /\ Len(flujo) \in Nat /\ Len(c) \in Nat
      /\ \A i \in 1 .. Len(flujo) : fab[i] = flujo[i]
      /\ fab[Len(flujo) + 1] = Entero(tipo)
      /\ fab[Len(flujo) + 2] = Entero(tam)
  <2>1. Len(flujo) \in Nat /\ Len(c) \in Nat
    BY <1>4, LenProperties
  <2>2. \A i \in 1 .. Len(flujo) + 2 :
          fab[i] = IF i <= Len(flujo) THEN flujo[i] ELSE ab[i - Len(flujo)]
    BY <1>3, <1>5 DEF fab
  <2>3. fab[Len(flujo) + 1] = ab[1] /\ fab[Len(flujo) + 2] = ab[2]
    BY <2>1, <2>2
  <2>4. \A i \in 1 .. Len(flujo) : fab[i] = flujo[i]
    BY <2>1, <2>2
  <2>5. fab \in Seq(Trozos) /\ Len(fab) = Len(flujo) + 2
    BY <1>3, <1>5 DEF fab
  <2>6. QED
    BY <1>3, <2>1, <2>3, <2>4, <2>5
<1> DEFINE todo == fab \o c
<1>9. /\ todo \in Seq(Trozos)
      /\ Len(todo) = Len(flujo) + 2 + Len(c)
      /\ \A i \in 1 .. Len(flujo) + 2 : todo[i] = fab[i]
      /\ Len(c) = 1 => todo[Len(flujo) + 3] = c[1]
  <2> HIDE DEF todo
  <2>1. /\ todo \in Seq(Trozos)
        /\ Len(todo) = Len(fab) + Len(c)
        /\ \A i \in 1 .. Len(fab) + Len(c) :
             todo[i] = IF i <= Len(fab) THEN fab[i] ELSE c[i - Len(fab)]
    BY <1>6 DEF todo
  <2>2. QED
    BY <1>8, <2>1
<1> HIDE DEF todo
<1>10. sendRemasterizado(flujo, tipo, tam, que) = todo
  BY <1>7 DEF todo
<1>11. \A i \in 1 .. Len(flujo) : todo[i] = flujo[i]
  BY <1>8, <1>9
<1>12. todo[Len(flujo) + 1] = Entero(tipo) /\ todo[Len(flujo) + 2] = Entero(tam)
  BY <1>8, <1>9
<1>13. tam # 0 => Len(todo) = Len(flujo) + 3 /\ todo[Len(flujo) + 3] = Bulto(tam, que)
  <2>1. tam # 0 => Len(c) = 1 /\ c[1] = Bulto(tam, que)
    BY <1>4
  <2>2. Len(c) = 1 => Len(todo) = Len(flujo) + 3 /\ todo[Len(flujo) + 3] = c[1]
    BY <1>8, <1>9
  <2>3. QED
    BY <2>1, <2>2
<1>14. tam = 0 => Len(todo) = Len(flujo) + 2
  BY <1>4, <1>8, <1>9
<1>15. QED
  BY <1>9, <1>10, <1>11, <1>12, <1>13, <1>14

(* A notification that is sent, and one that is received.                  *)
LEMMA LoNotificado ==
  ASSUME NEW flujo \in Seq(Trozos), NEW n \in Int
  PROVE  /\ sendDeNotificacion(flujo, n) \in Seq(Trozos)
         /\ Len(sendDeNotificacion(flujo, n)) = Len(flujo) + 1
         /\ \A i \in 1 .. Len(flujo) : sendDeNotificacion(flujo, n)[i] = flujo[i]
         /\ sendDeNotificacion(flujo, n)[Len(flujo) + 1] = Entero(n)
<1>1. Entero(n) \in Trozos
  BY VacioEsCuerpo DEF Entero, Trozos
<1>2. QED
  BY <1>1, AppendProperties DEF sendDeNotificacion

LEMMA UnaPalabra ==
  ASSUME NEW flujo \in Seq(Trozos), flujo # << >>
  PROVE  /\ recvDeNotificacion(flujo).notificacion = flujo[1].entero
         /\ recvDeNotificacion(flujo).notificacion \in Int
         /\ recvDeNotificacion(flujo).resto \in Seq(Trozos)
         /\ Len(recvDeNotificacion(flujo).resto) = Len(flujo) - 1
         /\ \A i \in 1 .. Len(flujo) - 1 : recvDeNotificacion(flujo).resto[i] = flujo[i + 1]
<1>1. /\ Tail(flujo) \in Seq(Trozos)
      /\ Len(Tail(flujo)) = Len(flujo) - 1
      /\ \A i \in 1 .. Len(flujo) - 1 : Tail(flujo)[i] = flujo[i + 1]
      /\ Head(flujo) \in Trozos
  BY HeadTailProperties
<1>2. Head(flujo) = flujo[1]
  OBVIOUS
<1>3. recvDeNotificacion(flujo) = [notificacion |-> flujo[1].entero, resto |-> Tail(flujo)]
  BY <1>2 DEF recvDeNotificacion
<1>4. flujo[1].entero \in Int
  BY <1>1, <1>2 DEF Trozos
<1>5. QED
  <2> DEFINE t == Tail(flujo)
  <2> HIDE DEF t
  <2>1. /\ t \in Seq(Trozos)
        /\ Len(t) = Len(flujo) - 1
        /\ \A i \in 1 .. Len(flujo) - 1 : t[i] = flujo[i + 1]
    BY <1>1 DEF t
  <2>2. recvDeNotificacion(flujo) = [notificacion |-> flujo[1].entero, resto |-> t]
    BY <1>3 DEF t
  <2>3. QED
    BY <2>1, <2>2, <1>4

-----------------------------------------------------------------------------

(* Types.                                                                  *)

LEMMA CambioDeFlujo ==
  ASSUME NEW f \in [Clientes -> Seq(Trozos)], NEW c, NEW flujo \in Seq(Trozos)
  PROVE  [f EXCEPT ![c] = flujo] \in [Clientes -> Seq(Trozos)]
  OBVIOUS

TiposDeVuelta == {PROCESO_ABORTADO, PROCESO_FINALIZADO, PROCESO_FINALIZO_RAFAGA}

(* What the ends of a turn have in common.                                 *)
LEMMA UnFinDeTurno ==
  ASSUME NEW c, TerminarTurno(c)
  PROVE  \E tipo \in TiposDeVuelta, modo \in {"libre", "muerta", "repite", "destiempo"} :
           /\ enviarPCBAKernel(c, tipo, modo)
           /\ cpu[c].modo \in {"ejecutando", "repite", "destiempo"}
           /\ cpu[c].modo = "ejecutando" => modo # "destiempo"
           /\ cpu[c].modo # "ejecutando" => modo \in {"destiempo", "muerta"}
  BY DEF TerminarTurno, Motivos, TiposDeVuelta

LEMMA CambioDeModo ==
  ASSUME cpu \in [Clientes -> EstadosCPU], NEW c, NEW modo \in Modos, Modo(c, modo)
  PROVE  cpu' \in [Clientes -> EstadosCPU]
<1>1. ASSUME NEW e \in EstadosCPU
      PROVE  [e EXCEPT !.modo = modo] \in EstadosCPU
  BY DEF EstadosCPU
<1>2. cpu' = [cpu EXCEPT ![c] = [cpu[c] EXCEPT !.modo = modo]]
  BY DEF Modo
<1>3. QED
  BY <1>1, <1>2

LEMMA CambioDePaso ==
  ASSUME hilo \in [Clientes -> EstadosHilo], NEW c, NEW paso \in Pasos,
         NEW clave \in Nombres \cup Rutas \cup {""}, NEW dato \in Valores,
         paso = "asignando" => clave \in SHARED_VARS,
         Paso(c, paso, clave, dato)
  PROVE  hilo' \in [Clientes -> EstadosHilo]
<1>1. [paso |-> paso, clave |-> clave, valor |-> dato] \in EstadosHilo
  BY DEF EstadosHilo
<1>2. QED
  BY <1>1 DEF Paso

LEMMA CambioSoloDePaso ==
  ASSUME hilo \in [Clientes -> EstadosHilo], NEW c, NEW paso \in Pasos, paso # "asignando",
         hilo' = [hilo EXCEPT ![c].paso = paso]
  PROVE  hilo' \in [Clientes -> EstadosHilo]
<1>1. ASSUME NEW e \in EstadosHilo
      PROVE  [e EXCEPT !.paso = paso] \in EstadosHilo
  BY DEF EstadosHilo
<1>2. hilo' = [hilo EXCEPT ![c] = [hilo[c] EXCEPT !.paso = paso]]
  OBVIOUS
<1>3. QED
  BY <1>1, <1>2

(* A socket that Memoria has closed is not among those it still attends.   *)
FormaInv == TypeOK /\ cerrados \cap pasada = {}

LEMMA FormaInicial == InitPeticiones => FormaInv
<1> SUFFICES ASSUME InitPeticiones
             PROVE  FormaInv
  OBVIOUS
<1>1. << >> \in Seq(Trozos) /\ << >> \in Seq({VALIDAR_ARCHIVO, CREAR_ARCHIVO}) /\ << >> \in Seq(Nat)
  BY EmptySeq
<1>2. 0 \in Valores /\ 0 \in 0 .. MaxMensajes /\ SHARED_VARS \subseteq Nombres
  BY PeticionesAssumption
<1>3. cpu \in [Clientes -> EstadosCPU]
  BY <1>2 DEF InitPeticiones, Init, Modos, EstadosCPU
<1>4. hilo \in [Clientes -> EstadosHilo]
  BY <1>2 DEF InitPeticiones, Init, Pasos, SinHilo, EstadosHilo
<1>5. FlujosOK
  BY <1>1 DEF InitPeticiones, Init, FlujosOK
<1>6. CompartidoOK
  BY <1>1, <1>2 DEF InitPeticiones, CompartidoOK
<1>7. SocketsOK /\ cerrados \cap pasada = {}
  BY DEF InitPeticiones, Init, SocketsOK
<1>8. QED
  BY <1>3, <1>4, <1>5, <1>6, <1>7 DEF FormaInv, TypeOK

LEMMA FormaMemoria ==
  ASSUME FormaInv, BucleMemoria, UNCHANGED peticiones
  PROVE  FormaInv'
<1>0. /\ SocketsOK /\ FlujosOK /\ cpu \in [Clientes -> EstadosCPU]
      /\ hilo \in [Clientes -> EstadosHilo] /\ CompartidoOK /\ cerrados \cap pasada = {}
  BY DEF FormaInv, TypeOK
<1>1. UNCHANGED << hilo, flujos, porAceptar, socketsCliente >>
  BY DEF BucleMemoria, seleccionar, AtenderPaquete, AtenderCorte, deKernel
<1>2. hilo' \in [Clientes -> EstadosHilo] /\ FlujosOK' /\ CompartidoOK'
  BY <1>0, <1>1 DEF FlujosOK, flujos, CompartidoOK, peticiones
<1>3. SocketsOK' /\ (cerrados \cap pasada)' = {}
  <2>1. CASE seleccionar
    BY <1>0, <2>1 DEF seleccionar, SocketsOK, deKernel
  <2>2. ASSUME NEW s \in CPUs \cup {KERNEL}, AtenderPaquete(s)
        PROVE  SocketsOK' /\ (cerrados \cap pasada)' = {}
    BY <1>0, <2>2 DEF AtenderPaquete, SocketsOK
  <2>3. ASSUME NEW s \in CPUs \cup {KERNEL}, AtenderCorte(s)
        PROVE  SocketsOK' /\ (cerrados \cap pasada)' = {}
    BY <1>0, <2>3 DEF AtenderCorte, SocketsOK, deKernel
  <2>4. QED
    BY <2>1, <2>2, <2>3 DEF BucleMemoria
<1>4. cpu' \in [Clientes -> EstadosCPU]
  <2>1. CASE UNCHANGED cpu
    BY <1>0, <2>1
  <2>2. ASSUME NEW s, Modo(s, IF cpu[s].modo = "saludandoMemoria" THEN "libre" ELSE "conLinea")
        PROVE  cpu' \in [Clientes -> EstadosCPU]
    BY <1>0, <2>2, CambioDeModo DEF Modos
  <2>3. QED
    BY <2>1, <2>2 DEF BucleMemoria, seleccionar, AtenderPaquete, AtenderCorte
<1>5. QED
  BY <1>2, <1>3, <1>4 DEF FormaInv, TypeOK

LEMMA FormaConectarse ==
  ASSUME FormaInv, Conectarse, UNCHANGED peticiones
  PROVE  FormaInv'
<1>0. /\ SocketsOK /\ FlujosOK /\ cpu \in [Clientes -> EstadosCPU]
      /\ hilo \in [Clientes -> EstadosHilo] /\ CompartidoOK /\ cerrados \cap pasada = {}
  BY DEF FormaInv, TypeOK
<1>1. CPUs \subseteq Clientes /\ Consolas \subseteq Clientes /\ Ajenos \subseteq Clientes
  BY DEF Clientes
<1>2. CompartidoOK'
  BY <1>0 DEF CompartidoOK, peticiones
<1>3. ASSUME NEW c \in CPUs, ConectarCPU(c)
      PROVE  FormaInv'
  <2>1. aKernel' = [aKernel EXCEPT ![c] = sendRemasterizado(aKernel[c], CPU, 0, Vacio)]
    BY <1>3 DEF ConectarCPU
  <2>2. FlujosOK'
    <3>1. aKernel[c] \in Seq(Trozos) /\ CPU \in Int /\ 0 \in Nat
      BY <1>0, <1>1 DEF CPU, FlujosOK
    <3>2. sendRemasterizado(aKernel[c], CPU, 0, Vacio) \in Seq(Trozos)
      BY <3>1, LoEnviado, VacioEsCuerpo
    <3>3. QED
      BY <1>0, <1>3, <2>1, <3>2, CambioDeFlujo DEF FlujosOK, ConectarCPU
  <2>3. cpu' \in [Clientes -> EstadosCPU]
    BY <1>0, <1>3, CambioDeModo DEF ConectarCPU, Modos
  <2>4. SocketsOK' /\ (cerrados \cap pasada)' = {}
    BY <1>0, <1>1, <1>3 DEF ConectarCPU, SocketsOK
  <2>5. hilo' \in [Clientes -> EstadosHilo]
    BY <1>0, <1>3 DEF ConectarCPU
  <2>6. QED
    BY <1>2, <2>2, <2>3, <2>4, <2>5 DEF FormaInv, TypeOK
<1>4. ASSUME NEW c \in CPUs, RecibirConfiguracion(c)
      PROVE  FormaInv'
  <2>1. FlujosOK'
    <3>1. aCPU[c] \in Seq(Trozos) /\ HayPaquete(aCPU[c])
      BY <1>0, <1>1, <1>4 DEF RecibirConfiguracion, FlujosOK
    <3>2. recvRemasterizado(aCPU[c]).resto \in Seq(Trozos)
      BY <3>1, LoRecibido
    <3>3. QED
      BY <1>0, <1>4, <3>2, CambioDeFlujo DEF FlujosOK, RecibirConfiguracion
  <2>2. cpu' \in [Clientes -> EstadosCPU]
    BY <1>0, <1>4, CambioDeModo DEF RecibirConfiguracion, Modos
  <2>3. SocketsOK' /\ (cerrados \cap pasada)' = {} /\ hilo' \in [Clientes -> EstadosHilo]
    BY <1>0, <1>4 DEF RecibirConfiguracion, SocketsOK, deKernel, deMemoria
  <2>4. QED
    BY <1>2, <2>1, <2>2, <2>3 DEF FormaInv, TypeOK
<1>5. ASSUME NEW c \in CPUs, PerderMemoria(c)
      PROVE  FormaInv'
  <2>1. cpu' \in [Clientes -> EstadosCPU]
    BY <1>0, <1>5, CambioDeModo DEF PerderMemoria, Modos
  <2>2. /\ SocketsOK' /\ (cerrados \cap pasada)' = {} /\ hilo' \in [Clientes -> EstadosHilo]
        /\ FlujosOK'
    BY <1>0, <1>5 DEF PerderMemoria, SocketsOK, FlujosOK, deKernel, deMemoria, flujos
  <2>3. QED
    BY <1>2, <2>1, <2>2 DEF FormaInv, TypeOK
<1>6. ASSUME NEW s \in Consolas \cup Ajenos, NEW saludo \in {CONSOLA, DESCONOCIDO},
             ConectarOtro(s, saludo)
      PROVE  FormaInv'
  <2>1. FlujosOK'
    <3>1. aKernel[s] \in Seq(Trozos) /\ saludo \in Int
      BY <1>0, <1>1 DEF CONSOLA, DESCONOCIDO, FlujosOK
    <3>2. sendDeNotificacion(aKernel[s], saludo) \in Seq(Trozos)
      BY <3>1, LoNotificado
    <3>3. QED
      BY <1>0, <1>6, <3>2, CambioDeFlujo DEF FlujosOK, ConectarOtro
  <2>2. cpu' \in [Clientes -> EstadosCPU]
    BY <1>0, <1>6, CambioDeModo DEF ConectarOtro, Modos
  <2>3. SocketsOK' /\ (cerrados \cap pasada)' = {} /\ hilo' \in [Clientes -> EstadosHilo]
    BY <1>0, <1>1, <1>6 DEF ConectarOtro, SocketsOK, deMemoria
  <2>4. QED
    BY <1>2, <2>1, <2>2, <2>3 DEF FormaInv, TypeOK
<1>7. QED
  BY <1>3, <1>4, <1>5, <1>6 DEF Conectarse

LEMMA FormaPrincipal ==
  ASSUME FormaInv, PrincipalKernel, UNCHANGED peticiones
  PROVE  FormaInv'
<1>0. /\ SocketsOK /\ FlujosOK /\ cpu \in [Clientes -> EstadosCPU]
      /\ hilo \in [Clientes -> EstadosHilo] /\ CompartidoOK /\ cerrados \cap pasada = {}
  BY DEF FormaInv, TypeOK
<1>1. CompartidoOK'
  BY <1>0 DEF CompartidoOK, peticiones
<1>2. CASE realizarHandshakeMemoria
  <2>1. SocketsOK' /\ (cerrados \cap pasada)' = {}
    BY <1>0, <1>2 DEF realizarHandshakeMemoria, SocketsOK
  <2>2. FlujosOK' /\ hilo' \in [Clientes -> EstadosHilo] /\ cpu' \in [Clientes -> EstadosCPU]
    BY <1>0, <1>2 DEF realizarHandshakeMemoria, FlujosOK, flujos
  <2>3. QED
    BY <1>1, <2>1, <2>2 DEF FormaInv, TypeOK
<1>3. ASSUME NEW s \in Clientes, aceptarConexionDeCliente(s)
      PROVE  FormaInv'
  <2>1. SocketsOK' /\ (cerrados \cap pasada)' = {}
    BY <1>0, <1>3 DEF aceptarConexionDeCliente, SocketsOK, deMemoria
  <2>2. FlujosOK' /\ hilo' \in [Clientes -> EstadosHilo] /\ cpu' \in [Clientes -> EstadosCPU]
    BY <1>0, <1>3 DEF aceptarConexionDeCliente, FlujosOK, flujos
  <2>3. QED
    BY <1>1, <2>1, <2>2 DEF FormaInv, TypeOK
<1>4. ASSUME NEW s \in Clientes, AtenderSaludo(s)
      PROVE  FormaInv'
  <2>1. SocketsOK' /\ (cerrados \cap pasada)' = {}
    BY <1>0, <1>4 DEF AtenderSaludo, DejarDeMirar, SocketsOK, deMemoria
  <2>2. aKernel[s] \in Seq(Trozos) /\ aCPU[s] \in Seq(Trozos)
    BY <1>0 DEF FlujosOK
  <2>3. recvDeNotificacion(aKernel[s]).resto \in Seq(Trozos)
    BY <1>4, <2>2, UnaPalabra DEF AtenderSaludo
  <2>4. aKernel' \in [Clientes -> Seq(Trozos)]
    BY <1>0, <1>4, <2>3, CambioDeFlujo DEF AtenderSaludo, FlujosOK
  <2>5. aCPU' \in [Clientes -> Seq(Trozos)]
    <3>1. HANDSHAKE_CPU \in Int /\ TAMANIO_CONFIG \in Nat
      BY DEF HANDSHAKE_CPU, TAMANIO_CONFIG
    <3>2. sendRemasterizado(aCPU[s], HANDSHAKE_CPU, TAMANIO_CONFIG, Vacio) \in Seq(Trozos)
      BY <2>2, <3>1, LoEnviado, VacioEsCuerpo
    <3>3. aCPU' = aCPU \/ aCPU' = [aCPU EXCEPT ![s] =
            sendRemasterizado(aCPU[s], HANDSHAKE_CPU, TAMANIO_CONFIG, Vacio)]
      BY <1>4 DEF AtenderSaludo
    <3>4. QED
      BY <1>0, <3>2, <3>3, CambioDeFlujo DEF FlujosOK
  <2>6. hilo' \in [Clientes -> EstadosHilo]
    <3>1. \/ hilo' = hilo
          \/ \E paso \in {"escuchando", "buscando"} : hilo' = [hilo EXCEPT ![s].paso = paso]
      BY <1>4 DEF AtenderSaludo
    <3>2. QED
      BY <1>0, <3>1, CambioSoloDePaso DEF Pasos
  <2>7. cpu' \in [Clientes -> EstadosCPU]
    <3>1. cpu' = cpu \/ Modo(s, "rechazado")
      BY <1>4 DEF AtenderSaludo
    <3>2. QED
      BY <1>0, <3>1, CambioDeModo DEF Modos
  <2>8. QED
    BY <1>1, <2>1, <2>4, <2>5, <2>6, <2>7 DEF FormaInv, TypeOK, FlujosOK
<1>5. QED
  BY <1>2, <1>3, <1>4 DEF PrincipalKernel

LEMMA CambioAContestada ==
  ASSUME cpu \in [Clientes -> EstadosCPU], NEW c, NEW modo \in Modos, NEW abortado \in BOOLEAN
  PROVE  /\ Contestada(c, modo) \in [Clientes -> EstadosCPU]
         /\ [Contestada(c, modo) EXCEPT ![c].abortado = abortado] \in [Clientes -> EstadosCPU]
<1>1. ASSUME NEW e \in EstadosCPU
      PROVE  /\ [[[e EXCEPT !.modo = modo] EXCEPT !.op = ""] EXCEPT !.clave = ""] \in EstadosCPU
             /\ [e EXCEPT !.abortado = abortado] \in EstadosCPU
  BY DEF EstadosCPU
<1>2. Contestada(c, modo) =
        [cpu EXCEPT ![c] = [[[cpu[c] EXCEPT !.modo = modo] EXCEPT !.op = ""] EXCEPT !.clave = ""]]
  BY DEF Contestada
<1>3. Contestada(c, modo) \in [Clientes -> EstadosCPU]
  BY <1>1, <1>2, ZenonT(60)
<1> DEFINE f == Contestada(c, modo)
<1> HIDE DEF f
<1>4. f \in [Clientes -> EstadosCPU]
  BY <1>3 DEF f
<1>5. [f EXCEPT ![c].abortado = abortado] = [f EXCEPT ![c] = [f[c] EXCEPT !.abortado = abortado]]
  OBVIOUS
<1>6. [f EXCEPT ![c].abortado = abortado] \in [Clientes -> EstadosCPU]
  BY <1>1, <1>4, <1>5
<1>7. QED
  BY <1>3, <1>6 DEF f

(* The types of the packets and their lengths.                             *)
LEMMA TiposDePaquete ==
  ASSUME NEW op \in Operaciones
  PROVE  /\ Tipo(op) \in Int /\ Tipo(op) # 0 /\ Tamanio(op) \in Nat /\ Tamanio(op) # 0
         /\ ModoDeEspera(op) \in {"ejecutando", "esperaPaquete", "esperaNotificacion"}
<1>1. op \in {"signal"} \cup OperacionesDeVariable \cup OperacionesDeArchivo
  BY OperacionesAssumption
<1>2. Tipo(op) \in Int /\ Tipo(op) # 0
  <2>1. Tipo(op) \in Int
    BY <1>1 DEF Tipo, OperacionesDeVariable, OperacionesDeArchivo, SIGNAL_SEMAFORO,
       PETICION_VARIABLE_COMPARTIDA_KERNEL, PETICION_CAMBIO_VALOR_KERNEL, ABRIR_ARCHIVO,
       BORRAR_ARCHIVO, CERRAR_ARCHIVO, MOVER_CURSOR, ESCRIBIR_DATOS_ARCHIVO, LEER_DATOS_ARCHIVO
  <2>2. Tipo(op) # 0
    BY <1>1 DEF Tipo, OperacionesDeVariable, OperacionesDeArchivo, SIGNAL_SEMAFORO,
       PETICION_VARIABLE_COMPARTIDA_KERNEL, PETICION_CAMBIO_VALOR_KERNEL, ABRIR_ARCHIVO,
       BORRAR_ARCHIVO, CERRAR_ARCHIVO, MOVER_CURSOR, ESCRIBIR_DATOS_ARCHIVO, LEER_DATOS_ARCHIVO
  <2>3. QED
    BY <2>1, <2>2
<1>3. Tamanio(op) \in Nat /\ Tamanio(op) # 0
  BY <1>1 DEF Tamanio, OperacionesDeVariable, OperacionesDeArchivo
<1>4. ModoDeEspera(op) \in {"ejecutando", "esperaPaquete", "esperaNotificacion"}
  BY <1>1 DEF ModoDeEspera, OperacionesDeVariable, OperacionesDeArchivo
<1>5. QED
  BY <1>2, <1>3, <1>4

LEMMA FormaCicloCPU ==
  ASSUME FormaInv, NEW c \in CPUs, CicloCPU(c)
  PROVE  FormaInv'
<1>0. /\ SocketsOK /\ FlujosOK /\ cpu \in [Clientes -> EstadosCPU]
      /\ hilo \in [Clientes -> EstadosHilo] /\ CompartidoOK /\ cerrados \cap pasada = {}
  BY DEF FormaInv, TypeOK
<1>1. c \in Clientes /\ cpu[c] \in EstadosCPU
      /\ aCPU[c] \in Seq(Trozos) /\ aKernel[c] \in Seq(Trozos)
  BY <1>0 DEF Clientes, FlujosOK
<1>2. cpu[c].nro < MaxMensajes => cpu[c].nro + 1 \in 0 .. MaxMensajes
  <2>1. MaxMensajes \in Nat /\ cpu[c].nro \in 0 .. MaxMensajes
    BY <1>1, PeticionesAssumption DEF EstadosCPU
  <2>2. QED
    BY <2>1
<1>3. UNCHANGED SoloCPU
  BY DEF CicloCPU, recibirPCBDeKernel, pedirLineaAMemoria, Pedir, recibirValorCompartida,
         RecibirResultado, TerminarTurno, enviarPCBAKernel
<1>4. SocketsOK' /\ (cerrados \cap pasada)' = {} /\ hilo' \in [Clientes -> EstadosHilo]
  BY <1>0, <1>3 DEF SoloCPU, deKernel, deMemoria, SocketsOK
<1> DEFINE Bien == FlujosOK' /\ cpu' \in [Clientes -> EstadosCPU]
                   /\ vistos' \in [CPUs -> SUBSET Valores]
<1>5. ASSUME recibirPCBDeKernel(c)
      PROVE  Bien
  <2>1. recvRemasterizado(aCPU[c]).resto \in Seq(Trozos)
    BY <1>1, <1>5, LoRecibido DEF recibirPCBDeKernel
  <2>2. FlujosOK'
    BY <1>0, <1>5, <2>1, CambioDeFlujo DEF recibirPCBDeKernel, FlujosOK
  <2>3. [cpu[c] EXCEPT !.modo = "ejecutando", !.abortado = FALSE] \in EstadosCPU
    BY <1>1 DEF EstadosCPU, Modos
  <2>4. cpu' = [cpu EXCEPT ![c] = [cpu[c] EXCEPT !.modo = "ejecutando", !.abortado = FALSE]]
    BY <1>5 DEF recibirPCBDeKernel
  <2>5. QED
    BY <1>0, <1>5, <2>2, <2>3, <2>4 DEF recibirPCBDeKernel, CompartidoOK
<1>6. ASSUME pedirLineaAMemoria(c)
      PROVE  Bien
  <2>1. cpu' \in [Clientes -> EstadosCPU]
    BY <1>0, <1>6, CambioDeModo DEF pedirLineaAMemoria, Modos
  <2>2. QED
    BY <1>0, <1>6, <2>1 DEF pedirLineaAMemoria, FlujosOK, flujos, CompartidoOK
<1>7. ASSUME NEW op \in Operaciones, NEW clave \in Nombres \cup {""}, NEW nuevo \in Valores,
             Pedir(c, op, clave, nuevo)
      PROVE  Bien
  <2>0. Tipo(op) \in Int /\ Tamanio(op) \in Nat
    BY TiposDePaquete
  <2>1. cpu[c].nro + 1 \in 0 .. MaxMensajes
    <3>1. cpu[c].nro < MaxMensajes
      BY <1>7, Zenon DEF Pedir
    <3>2. QED
      BY <1>2, <3>1, Zenon
  <2>2. [clave |-> clave, valor |-> nuevo, nro |-> cpu[c].nro + 1] \in Cuerpos
    BY <2>1 DEF Cuerpos
  <2>3. FlujosOK'
    <3> DEFINE cuerpo == [clave |-> clave, valor |-> nuevo, nro |-> cpu[c].nro + 1]
               flujo == sendRemasterizado(aKernel[c], Tipo(op), Tamanio(op), cuerpo)
    <3>1. aKernel' = [aKernel EXCEPT ![c] = flujo] /\ aCPU' = aCPU
      BY <1>7 DEF Pedir
    <3>2. flujo \in Seq(Trozos)
      <4>1. cuerpo \in Cuerpos
        BY <2>2
      <4> HIDE DEF cuerpo
      <4>2. QED
        BY <1>1, <2>0, <4>1, LoEnviado
    <3> HIDE DEF flujo
    <3>3. QED
      BY <1>0, <3>1, <3>2, CambioDeFlujo DEF FlujosOK
  <2>4. cpu' \in [Clientes -> EstadosCPU]
    <3>1. [modo |-> ModoDeEspera(op), abortado |-> FALSE, op |-> IF op = "signal" THEN "" ELSE op,
           clave |-> clave, nro |-> cpu[c].nro + 1] \in EstadosCPU
      BY <2>1, TiposDePaquete DEF EstadosCPU, Modos
    <3>2. [cpu[c] EXCEPT !.nro = @ + 1] \in EstadosCPU
      BY <1>1, <2>1 DEF EstadosCPU
    <3>3. \/ cpu' = [cpu EXCEPT ![c] = [modo |-> ModoDeEspera(op), abortado |-> FALSE,
                op |-> IF op = "signal" THEN "" ELSE op, clave |-> clave, nro |-> cpu[c].nro + 1]]
          \/ cpu' = [cpu EXCEPT ![c] = [cpu[c] EXCEPT !.nro = @ + 1]]
      BY <1>7 DEF Pedir
    <3>4. QED
      BY <1>0, <3>1, <3>2, <3>3
  <2>5. vistos' \in [CPUs -> SUBSET Valores]
    <3>1. (IF op = "leer" /\ clave \in SHARED_VARS THEN {valor[clave]} ELSE {}) \in SUBSET Valores
      BY <1>0 DEF CompartidoOK
    <3>2. QED
      BY <1>0, <1>7, <3>1 DEF Pedir, CompartidoOK
  <2>6. QED
    BY <2>3, <2>4, <2>5
<1>8. ASSUME recibirValorCompartida(c)
      PROVE  Bien
  <2>1. recvRemasterizado(aCPU[c]).resto \in Seq(Trozos)
    BY <1>1, <1>8, LoRecibido DEF recibirValorCompartida
  <2>2. FlujosOK'
    BY <1>0, <1>8, <2>1, CambioDeFlujo DEF recibirValorCompartida, FlujosOK
  <2>3. cpu' \in [Clientes -> EstadosCPU]
    <3>1. PICK modo \in {"ejecutando", "muerta"} : cpu' = Contestada(c, modo)
      BY <1>8 DEF recibirValorCompartida
    <3>2. QED
      BY <1>0, <3>1, CambioAContestada DEF Modos
  <2>4. vistos' \in [CPUs -> SUBSET Valores]
    BY <1>0, <1>8 DEF recibirValorCompartida, CompartidoOK
  <2>5. QED
    BY <2>2, <2>3, <2>4
<1>9. ASSUME RecibirResultado(c)
      PROVE  Bien
  <2>1. recvDeNotificacion(aCPU[c]).resto \in Seq(Trozos)
    BY <1>1, <1>9, UnaPalabra DEF RecibirResultado
  <2>2. FlujosOK'
    BY <1>0, <1>9, <2>1, CambioDeFlujo DEF RecibirResultado, FlujosOK
  <2>3. cpu' \in [Clientes -> EstadosCPU]
    <3>1. EsError(recvDeNotificacion(aCPU[c]).notificacion) \in BOOLEAN
      BY DEF EsError
    <3>2. QED
      BY <1>0, <1>9, <3>1, CambioAContestada DEF RecibirResultado, Modos
  <2>4. QED
    BY <1>0, <1>9, <2>2, <2>3 DEF RecibirResultado, CompartidoOK
<1>10. ASSUME TerminarTurno(c)
      PROVE  Bien
  <2>0. PICK tipo \in TiposDeVuelta, modo \in {"libre", "muerta", "repite", "destiempo"} :
          enviarPCBAKernel(c, tipo, modo)
    BY <1>10, UnFinDeTurno
  <2>1. cpu[c].nro + 1 \in 0 .. MaxMensajes
    <3>1. cpu[c].nro < MaxMensajes
      BY <2>0 DEF enviarPCBAKernel
    <3>2. QED
      BY <1>2, <3>1
  <2>2. [Vacio EXCEPT !.nro = cpu[c].nro + 1] \in Cuerpos
    BY <2>1, VacioEsCuerpo DEF Cuerpos
  <2>3. FlujosOK'
    <3>1. aKernel' = [aKernel EXCEPT ![c] = sendRemasterizado(aKernel[c], tipo, TAMANIO_PCB,
                                              [Vacio EXCEPT !.nro = cpu[c].nro + 1])]
      BY <2>0 DEF enviarPCBAKernel
    <3>2. tipo \in Int /\ TAMANIO_PCB \in Nat
      BY DEF TiposDeVuelta, PROCESO_ABORTADO, PROCESO_FINALIZADO, PROCESO_FINALIZO_RAFAGA,
         TAMANIO_PCB
    <3>3. sendRemasterizado(aKernel[c], tipo, TAMANIO_PCB, [Vacio EXCEPT !.nro = cpu[c].nro + 1])
            \in Seq(Trozos)
      BY <1>1, <2>2, <3>2, LoEnviado
    <3>4. UNCHANGED aCPU
      BY <2>0 DEF enviarPCBAKernel
    <3>5. QED
      BY <1>0, <3>1, <3>3, <3>4, CambioDeFlujo DEF FlujosOK
  <2>4. cpu' \in [Clientes -> EstadosCPU]
    <3>1. cpu' = [cpu EXCEPT ![c] = [cpu[c] EXCEPT !.modo = modo, !.nro = @ + 1]]
      BY <2>0 DEF enviarPCBAKernel
    <3>2. [cpu[c] EXCEPT !.modo = modo, !.nro = @ + 1] \in EstadosCPU
      BY <1>1, <2>1 DEF EstadosCPU, Modos
    <3>3. QED
      BY <1>0, <3>1, <3>2
  <2>5. QED
    BY <1>0, <2>0, <2>3, <2>4 DEF enviarPCBAKernel, CompartidoOK
<1>11. Bien
  BY <1>5, <1>6, <1>7, <1>8, <1>9, <1>10 DEF CicloCPU
<1>12. CompartidoOK'
  BY <1>0, <1>3, <1>11 DEF CompartidoOK, SoloCPU
<1>13. QED
  BY <1>4, <1>11, <1>12 DEF FormaInv, TypeOK

(* What every action of a thread of the kernel leaves alone.               *)
LEMMA SoloDelHilo ==
  ASSUME NEW c, manejadorCPU(c)
  PROVE  UNCHANGED SoloHilo /\ kernel' \in {kernel, "caido"}
<1>1. ASSUME enviarPCB(c) \/ EnviarACPUPerdida(c) \/ RecibirFueraDePaso(c)
             \/ RecibirDeCPUPerdida(c) \/ signalSemaforo(c) \/ VuelvePCB(c)
      PROVE  UNCHANGED SoloHilo /\ kernel' \in {kernel, "caido"}
  BY <1>1 DEF enviarPCB, EnviarACPUPerdida, RecibirFueraDePaso, RecibirDeCPUPerdida,
     signalSemaforo, VuelvePCB, SoloHilo, Caer
<1>2. ASSUME obtenerValorVariableCompartida(c) \/ VariableInexistente(c)
             \/ asignarValorVariableCompartida(c) \/ ContestarAsignacion(c)
      PROVE  UNCHANGED SoloHilo /\ kernel' \in {kernel, "caido"}
  BY <1>2 DEF obtenerValorVariableCompartida, VariableInexistente,
     asignarValorVariableCompartida, ContestarAsignacion, SoloHilo
<1>3. ASSUME abrirArchivo(c) \/ validarArchivo(c) \/ crearArchivo(c)
      PROVE  UNCHANGED SoloHilo /\ kernel' \in {kernel, "caido"}
  <2>1. ASSUME NEW path, EntrarEnTablas(c, path)
        PROVE  UNCHANGED << porAceptar, socketsCliente >> /\ kernel' \in {kernel, "caido"}
    BY <2>1 DEF EntrarEnTablas, Caer
  <2>2. QED
    BY <1>3, <2>1 DEF abrirArchivo, validarArchivo, crearArchivo, NoSePudoAbrir, SoloHilo
<1>4. ASSUME cerrarArchivo(c) \/ borrarArchivo(c) \/ escribirArchivo(c) \/ leerArchivo(c)
             \/ moverCursor(c)
      PROVE  UNCHANGED SoloHilo /\ kernel' \in {kernel, "caido"}
  BY <1>4 DEF cerrarArchivo, borrarArchivo, escribirArchivo, leerArchivo, moverCursor, SinEntrada,
     SoloHilo, Caer
<1>5. QED
  BY <1>1, <1>2, <1>3, <1>4 DEF manejadorCPU

LEMMA FormaRecibir ==
  ASSUME FormaInv, NEW c \in CPUs, NEW tipos, Recibir(c, tipos)
  PROVE  /\ aKernel' \in [Clientes -> Seq(Trozos)]
         /\ ultimo' \in [CPUs -> 0 .. MaxMensajes]
         /\ Recibido(c).mensaje \in Cuerpos
<1>0. FlujosOK /\ CompartidoOK /\ c \in Clientes
  BY DEF FormaInv, TypeOK, Clientes
<1>1. aKernel[c] \in Seq(Trozos) /\ HayPaquete(aKernel[c])
  BY <1>0 DEF FlujosOK, Recibir
<1>2. Recibido(c).resto \in Seq(Trozos) /\ Recibido(c).mensaje \in Cuerpos
  BY <1>1, LoRecibido DEF Recibido
<1>3. Recibido(c).mensaje.nro \in 0 .. MaxMensajes
  BY <1>2 DEF Cuerpos
<1>4. aKernel' \in [Clientes -> Seq(Trozos)]
  BY <1>0, <1>2, CambioDeFlujo DEF Recibir, FlujosOK
<1>5. ultimo' \in [CPUs -> 0 .. MaxMensajes]
  BY <1>0, <1>3 DEF Recibir, CompartidoOK
<1>6. QED
  BY <1>2, <1>4, <1>5

(* A notification, or a packet, sent to a CPU.                             *)
LEMMA FormaContestar ==
  ASSUME FormaInv, NEW c \in CPUs, NEW flujo \in Seq(Trozos), Contestar(c, flujo)
  PROVE  aCPU' \in [Clientes -> Seq(Trozos)]
  BY CambioDeFlujo DEF FormaInv, TypeOK, FlujosOK, Contestar

LEMMA FormaEnviarValor ==
  ASSUME FormaInv, NEW c \in CPUs, NEW dato \in Valores, EnviarValor(c, dato)
  PROVE  aCPU' \in [Clientes -> Seq(Trozos)]
<1>1. aCPU[c] \in Seq(Trozos)
  BY DEF FormaInv, TypeOK, FlujosOK, Clientes
<1>2. [Vacio EXCEPT !.valor = dato] \in Cuerpos
  BY VacioEsCuerpo DEF Cuerpos
<1>3. DATOS_VARIABLE_COMPARTIDA_KERNEL \in Int /\ 4 \in Nat
  BY DEF DATOS_VARIABLE_COMPARTIDA_KERNEL
<1>4. sendRemasterizado(aCPU[c], DATOS_VARIABLE_COMPARTIDA_KERNEL, 4, [Vacio EXCEPT !.valor = dato])
        \in Seq(Trozos)
  BY <1>1, <1>2, <1>3, LoEnviado
<1>5. QED
  BY <1>4, FormaContestar DEF EnviarValor

LEMMA FormaManejador ==
  ASSUME FormaInv, NEW c \in CPUs, manejadorCPU(c)
  PROVE  FormaInv'
<1>0. /\ SocketsOK /\ FlujosOK /\ cpu \in [Clientes -> EstadosCPU]
      /\ hilo \in [Clientes -> EstadosHilo] /\ CompartidoOK /\ cerrados \cap pasada = {}
      /\ c \in Clientes
  BY DEF FormaInv, TypeOK, Clientes
<1>1. aCPU[c] \in Seq(Trozos) /\ aKernel[c] \in Seq(Trozos) /\ hilo[c] \in EstadosHilo
      /\ hilo[c].clave \in Nombres \cup Rutas \cup {""}
  BY <1>0 DEF FlujosOK, EstadosHilo
<1>2. /\ SocketsOK' /\ cpu' \in [Clientes -> EstadosCPU] /\ (cerrados \cap pasada)' = {}
  BY <1>0, SoloDelHilo DEF SoloHilo, deMemoria, SocketsOK
<1>3. 0 \in Valores /\ \A v \in SHARED_VARS : v \in Nombres /\ valor[v] \in Valores
  BY <1>0, PeticionesAssumption DEF CompartidoOK
<1>4. ASSUME NEW paso \in Pasos \ {"asignando"}, NEW clave \in Nombres \cup Rutas \cup {""},
             Paso(c, paso, clave, 0)
      PROVE  hilo' \in [Clientes -> EstadosHilo]
  BY <1>0, <1>3, <1>4, CambioDePaso
<1>5. ASSUME NEW n \in Int, Contestar(c, sendDeNotificacion(aCPU[c], n))
      PROVE  aCPU' \in [Clientes -> Seq(Trozos)]
  BY <1>1, <1>5, LoNotificado, FormaContestar
<1> DEFINE Bien == FlujosOK' /\ hilo' \in [Clientes -> EstadosHilo] /\ CompartidoOK'
<1>6. ASSUME UNCHANGED flujos PROVE FlujosOK'
  BY <1>0, <1>6 DEF FlujosOK, flujos
<1>7. ASSUME UNCHANGED peticiones PROVE CompartidoOK'
  BY <1>0, <1>7 DEF CompartidoOK, peticiones
<1>8. ASSUME NEW tipos, Recibir(c, tipos), UNCHANGED aCPU PROVE FlujosOK'
  BY <1>0, <1>8, FormaRecibir DEF FlujosOK
<1>9. ASSUME NEW tipos, Recibir(c, tipos), UNCHANGED << valor, alFS, delFS, vistos >>
      PROVE  CompartidoOK'
  BY <1>0, <1>9, FormaRecibir DEF CompartidoOK
<1>10. ASSUME enviarPCB(c) PROVE Bien
  <2>1. MENSAJE_PCB \in Int /\ TAMANIO_PCB \in Nat
    BY DEF MENSAJE_PCB, TAMANIO_PCB
  <2>2. sendRemasterizado(aCPU[c], MENSAJE_PCB, TAMANIO_PCB, Vacio) \in Seq(Trozos)
    BY <1>1, <2>1, LoEnviado, VacioEsCuerpo
  <2>3. FlujosOK'
    BY <1>0, <1>10, <2>2, CambioDeFlujo DEF enviarPCB, FlujosOK
  <2>4. hilo' \in [Clientes -> EstadosHilo] /\ CompartidoOK'
    BY <1>4, <1>7, <1>10 DEF enviarPCB, Pasos
  <2>5. QED
    BY <2>3, <2>4
<1>11. ASSUME EnviarACPUPerdida(c) PROVE Bien
  BY <1>0, <1>6, <1>7, <1>11 DEF EnviarACPUPerdida
<1>12. ASSUME RecibirFueraDePaso(c) PROVE Bien
  <2>1. Recibido(c).resto \in Seq(Trozos)
    BY <1>1, <1>12, LoRecibido DEF RecibirFueraDePaso, Recibido
  <2>2. FlujosOK'
    BY <1>0, <1>12, <2>1, CambioDeFlujo DEF RecibirFueraDePaso, FlujosOK
  <2>3. hilo' \in [Clientes -> EstadosHilo]
    <3>1. PICK paso \in {"perdido", "escuchando"} : hilo' = [hilo EXCEPT ![c].paso = paso]
      BY <1>12 DEF RecibirFueraDePaso
    <3>2. QED
      BY <1>0, <3>1, CambioSoloDePaso DEF Pasos
  <2>4. QED
    BY <1>7, <1>12, <2>2, <2>3 DEF RecibirFueraDePaso
<1>13. ASSUME RecibirDeCPUPerdida(c) PROVE Bien
  BY <1>4, <1>6, <1>7, <1>13 DEF RecibirDeCPUPerdida, Pasos
<1>14. ASSUME signalSemaforo(c) PROVE Bien
  BY <1>0, <1>8, <1>9, <1>14 DEF signalSemaforo
<1>15. ASSUME VuelvePCB(c) PROVE Bien
  BY <1>4, <1>8, <1>9, <1>15 DEF VuelvePCB, Pasos
<1>16. ASSUME obtenerValorVariableCompartida(c) PROVE Bien
  <2>1. PICK dato \in Valores : EnviarValor(c, dato)
    BY <1>3, <1>16 DEF obtenerValorVariableCompartida
  <2>2. aCPU' \in [Clientes -> Seq(Trozos)]
    BY <2>1, FormaEnviarValor
  <2>3. Recibir(c, {PETICION_VARIABLE_COMPARTIDA_KERNEL})
        /\ UNCHANGED << hilo, valor, alFS, delFS, vistos >>
    BY <1>16 DEF obtenerValorVariableCompartida
  <2>4. aKernel' \in [Clientes -> Seq(Trozos)]
    BY <2>3, FormaRecibir
  <2>5. QED
    BY <1>0, <1>9, <2>2, <2>3, <2>4 DEF FlujosOK
<1>17. ASSUME VariableInexistente(c) PROVE Bien
  <2>1. OPERACION_VARIABLE_COMPARTIDA_FALLIDA \in Int /\ 0 \in Nat
    BY DEF OPERACION_VARIABLE_COMPARTIDA_FALLIDA
  <2>2. sendRemasterizado(aCPU[c], OPERACION_VARIABLE_COMPARTIDA_FALLIDA, 0, Vacio) \in Seq(Trozos)
    BY <1>1, <2>1, LoEnviado, VacioEsCuerpo
  <2>3. aCPU' \in [Clientes -> Seq(Trozos)]
    BY <1>17, <2>2, FormaContestar DEF VariableInexistente
  <2>4. PICK tipos : Recibir(c, tipos)
    BY <1>17 DEF VariableInexistente
  <2>5. aKernel' \in [Clientes -> Seq(Trozos)]
    BY <2>4, FormaRecibir
  <2>6. UNCHANGED << hilo, valor, alFS, delFS, vistos >>
    BY <1>17 DEF VariableInexistente
  <2>7. QED
    BY <1>0, <1>9, <2>3, <2>4, <2>5, <2>6 DEF FlujosOK
<1>18. ASSUME asignarValorVariableCompartida(c) PROVE Bien
  <2> DEFINE m == Recibido(c).mensaje
  <2>1. Recibir(c, {PETICION_CAMBIO_VALOR_KERNEL}) /\ m.clave \in SHARED_VARS
        /\ UNCHANGED << aCPU, alFS, delFS >>
    BY <1>18 DEF asignarValorVariableCompartida
  <2>2. m \in Cuerpos
    BY <2>1, FormaRecibir
  <2>3. m.valor \in Valores
    BY <2>2 DEF Cuerpos
  <2>4. valor' = [valor EXCEPT ![m.clave] = m.valor]
        /\ Paso(c, "asignando", m.clave, valor[m.clave])
    BY <1>18 DEF asignarValorVariableCompartida
  <2>5. vistos' = [d \in CPUs |->
          IF d = c THEN {m.valor}
          ELSE IF vistos[d] # {} /\ cpu[d].clave = m.clave THEN vistos[d] \cup {m.valor}
          ELSE vistos[d]]
    BY <1>18 DEF asignarValorVariableCompartida
  <2> HIDE DEF m
  <2>6. hilo' \in [Clientes -> EstadosHilo]
    BY <1>0, <1>3, <2>1, <2>4, CambioDePaso DEF Pasos
  <2>7. valor' \in [SHARED_VARS -> Valores]
    BY <1>0, <2>3, <2>4 DEF CompartidoOK
  <2>8. vistos' \in [CPUs -> SUBSET Valores]
    BY <1>0, <2>3, <2>5 DEF CompartidoOK
  <2>9. ultimo' \in [CPUs -> 0 .. MaxMensajes]
    BY <2>1, FormaRecibir
  <2>10. CompartidoOK'
    BY <1>0, <2>1, <2>7, <2>8, <2>9 DEF CompartidoOK
  <2>11. QED
    BY <1>8, <2>1, <2>6, <2>10
<1>19. ASSUME ContestarAsignacion(c) PROVE Bien
  <2>1. hilo[c].clave \in SHARED_VARS
    BY <1>1, <1>19 DEF ContestarAsignacion, EstadosHilo
  <2>2. aCPU' \in [Clientes -> Seq(Trozos)]
    BY <1>3, <1>19, <2>1, FormaEnviarValor DEF ContestarAsignacion
  <2>3. QED
    BY <1>0, <1>4, <1>7, <1>19, <2>2 DEF ContestarAsignacion, FlujosOK, Pasos
<1>20. ASSUME NEW path, EntrarEnTablas(c, path)
       PROVE  aCPU' \in [Clientes -> Seq(Trozos)] /\ hilo' \in [Clientes -> EstadosHilo]
  <2>1. CASE UNCHANGED << hilo, aCPU >>
    BY <1>0, <2>1 DEF FlujosOK
  <2>2. CASE /\ Contestar(c, sendDeNotificacion(aCPU[c], OPERACION_CON_ARCHIVO_EXITOSA))
             /\ Paso(c, "escuchando", "", 0)
    <3>1. OPERACION_CON_ARCHIVO_EXITOSA \in Int
      BY DEF OPERACION_CON_ARCHIVO_EXITOSA
    <3>2. QED
      BY <1>4, <1>5, <2>2, <3>1 DEF Pasos
  <2>3. QED
    BY <1>20, <2>1, <2>2 DEF EntrarEnTablas
<1>21. ASSUME NoSePudoAbrir(c)
       PROVE  aCPU' \in [Clientes -> Seq(Trozos)] /\ hilo' \in [Clientes -> EstadosHilo]
  <2>1. OPERACION_FALLIDA \in Int
    BY DEF OPERACION_FALLIDA
  <2>2. QED
    BY <1>4, <1>5, <1>21, <2>1 DEF NoSePudoAbrir, Pasos
<1>22. ASSUME NEW pedido \in {VALIDAR_ARCHIVO, CREAR_ARCHIVO}
       PROVE  Append(alFS, pedido) \in Seq({VALIDAR_ARCHIVO, CREAR_ARCHIVO})
  BY <1>0, <1>22, AppendProperties DEF CompartidoOK
<1>23. ASSUME delFS # << >>
       PROVE  Tail(delFS) \in Seq(Nat)
  BY <1>0, <1>23, HeadTailProperties DEF CompartidoOK
<1>24. ASSUME abrirArchivo(c) PROVE Bien
  <2>1. PICK path \in Rutas : alFS' = Append(alFS, VALIDAR_ARCHIVO) /\ Paso(c, "validando", path, 0)
    BY <1>24 DEF abrirArchivo
  <2>2. hilo' \in [Clientes -> EstadosHilo]
    BY <1>4, <2>1 DEF Pasos
  <2>3. Recibir(c, {ABRIR_ARCHIVO}) /\ UNCHANGED << aCPU, valor, delFS, vistos >>
    BY <1>24 DEF abrirArchivo
  <2>4. CompartidoOK'
    BY <1>0, <1>22, <2>1, <2>3, FormaRecibir DEF CompartidoOK
  <2>5. QED
    BY <1>8, <2>2, <2>3, <2>4
<1>25. ASSUME validarArchivo(c) PROVE Bien
  <2>1. delFS' \in Seq(Nat) /\ UNCHANGED << aKernel, valor, ultimo, vistos >>
    BY <1>23, <1>25 DEF validarArchivo, RecibirDelFS
  <2>2. \/ EntrarEnTablas(c, hilo[c].clave) /\ UNCHANGED alFS
        \/ NoSePudoAbrir(c) /\ UNCHANGED alFS
        \/ /\ alFS' = Append(alFS, CREAR_ARCHIVO)
           /\ Paso(c, "creando", hilo[c].clave, 0)
           /\ UNCHANGED aCPU
    BY <1>25 DEF validarArchivo
  <2>3. /\ aCPU' \in [Clientes -> Seq(Trozos)] /\ hilo' \in [Clientes -> EstadosHilo]
        /\ alFS' \in Seq({VALIDAR_ARCHIVO, CREAR_ARCHIVO})
    <3>1. CASE EntrarEnTablas(c, hilo[c].clave) /\ UNCHANGED alFS
      BY <1>0, <1>20, <3>1 DEF CompartidoOK
    <3>2. CASE NoSePudoAbrir(c) /\ UNCHANGED alFS
      BY <1>0, <1>21, <3>2 DEF CompartidoOK
    <3>3. CASE /\ alFS' = Append(alFS, CREAR_ARCHIVO)
               /\ Paso(c, "creando", hilo[c].clave, 0)
               /\ UNCHANGED aCPU
      BY <1>0, <1>1, <1>4, <1>22, <3>3 DEF Pasos, FlujosOK
    <3>4. QED
      BY <2>2, <3>1, <3>2, <3>3
  <2>4. QED
    BY <1>0, <2>1, <2>3 DEF FlujosOK, CompartidoOK
<1>26. ASSUME crearArchivo(c) PROVE Bien
  <2>1. delFS' \in Seq(Nat) /\ UNCHANGED << aKernel, valor, alFS, ultimo, vistos >>
    BY <1>23, <1>26 DEF crearArchivo, RecibirDelFS
  <2>2. EntrarEnTablas(c, hilo[c].clave) \/ NoSePudoAbrir(c)
    BY <1>26 DEF crearArchivo
  <2>3. aCPU' \in [Clientes -> Seq(Trozos)] /\ hilo' \in [Clientes -> EstadosHilo]
    BY <1>20, <1>21, <2>2
  <2>4. QED
    BY <1>0, <2>1, <2>3 DEF FlujosOK, CompartidoOK
<1>27. ASSUME cerrarArchivo(c) PROVE Bien
  <2>1. OPERACION_FALLIDA \in Int
    BY DEF OPERACION_FALLIDA
  <2>2. Recibir(c, {CERRAR_ARCHIVO}) /\ UNCHANGED << hilo, valor, alFS, delFS, vistos >>
        /\ Contestar(c, sendDeNotificacion(aCPU[c], OPERACION_FALLIDA))
    BY <1>27 DEF cerrarArchivo
  <2>3. aCPU' \in [Clientes -> Seq(Trozos)] /\ aKernel' \in [Clientes -> Seq(Trozos)]
    BY <1>5, <2>1, <2>2, FormaRecibir
  <2>4. QED
    BY <1>0, <1>9, <2>2, <2>3 DEF FlujosOK
<1>28. ASSUME NEW tipo, SinEntrada(c, tipo) PROVE Bien
  <2>1. Recibir(c, {tipo}) /\ UNCHANGED << hilo, aCPU, valor, alFS, delFS, vistos >>
    BY <1>28 DEF SinEntrada
  <2>2. QED
    BY <1>0, <1>8, <1>9, <2>1
<1>29. Bien
  BY <1>10, <1>11, <1>12, <1>13, <1>14, <1>15, <1>16, <1>17, <1>18, <1>19, <1>24, <1>25, <1>26,
     <1>27, <1>28
     DEF manejadorCPU, borrarArchivo, escribirArchivo, leerArchivo, moverCursor
<1>30. QED
  BY <1>2, <1>29 DEF FormaInv, TypeOK

LEMMA FormaSiguiente ==
  ASSUME FormaInv, [Next]_vars
  PROVE  FormaInv'
<1>1. CASE UNCHANGED vars
  BY <1>1 DEF vars, conexiones, deKernel, flujos, deMemoria, peticiones, FormaInv, TypeOK,
     SocketsOK, FlujosOK, CompartidoOK
<1>2. CASE contestarFS
  <2>1. PICK respuesta \in {EXISTE_ARCHIVO, NO_EXISTE_ARCHIVO, OPERACION_FINALIZADA_CORRECTAMENTE,
                            OPERACION_FALLIDA} : delFS' = Append(delFS, respuesta)
    BY <1>2 DEF contestarFS
  <2>2. CompartidoOK
    BY DEF FormaInv, TypeOK
  <2>3. delFS' \in Seq(Nat)
    <3>1. respuesta \in Nat
      BY DEF EXISTE_ARCHIVO, NO_EXISTE_ARCHIVO, OPERACION_FINALIZADA_CORRECTAMENTE,
         OPERACION_FALLIDA
    <3>2. QED
      BY <2>1, <2>2, <3>1, AppendProperties DEF CompartidoOK
  <2>4. alFS' \in Seq({VALIDAR_ARCHIVO, CREAR_ARCHIVO})
    BY <1>2, <2>2, HeadTailProperties DEF contestarFS, CompartidoOK
  <2>5. UNCHANGED conexiones /\ UNCHANGED << valor, ultimo, vistos >>
    BY <1>2 DEF contestarFS
  <2>6. CompartidoOK'
    BY <2>2, <2>3, <2>4, <2>5 DEF CompartidoOK
  <2>7. QED
    BY <2>5, <2>6 DEF conexiones, deKernel, flujos, deMemoria, FormaInv, TypeOK, SocketsOK, FlujosOK
<1>3. CASE FSCorta \/ PerderMemoriaElKernel
  BY <1>3 DEF FSCorta, PerderMemoriaElKernel, Caer, flujos, deMemoria, peticiones, FormaInv, TypeOK,
     SocketsOK, FlujosOK, CompartidoOK
<1>4. QED
  BY <1>1, <1>2, <1>3, FormaMemoria, FormaConectarse, FormaPrincipal, FormaCicloCPU, FormaManejador
     DEF Next

LEMMA FormaSiempre == Spec => []FormaInv
  BY FormaInicial, FormaSiguiente, PTL DEF Spec

(* The types of the state, at any time.                                    *)
THEOREM TipoDePeticiones == Spec => []TypeOK
<1>1. FormaInv => TypeOK
  BY DEF FormaInv
<1>2. QED
  BY <1>1, FormaSiempre, PTL

(* Nobody opens a file, ever: an entry would need one of the same path.    *)
THEOREM NadieTieneUnArchivo == Spec => []TablasVacias
<1> DEFINE Vacias == tablaAdminGlobal = << >> /\ tablaAdminArchivos = << >>
<1>1. InitPeticiones => Vacias
  BY DEF InitPeticiones
<1>2. Vacias /\ [Next]_vars => Vacias'
  <2> SUFFICES ASSUME Vacias, [Next]_vars
               PROVE  UNCHANGED tablas
    BY DEF tablas
  <2>1. ASSUME NEW path
        PROVE  agregarEntradaTG(path) = {}
    <3>1. ToSet(tablaAdminGlobal) = {}
      BY EmptySeq DEF ToSet
    <3>2. ~buscarEnTG(path)
      BY <3>1 DEF buscarEnTG
    <3>3. QED
      BY <3>2 DEF agregarEntradaTG
  <2>2. ASSUME NEW c, NEW path, EntrarEnTablas(c, path)
        PROVE  UNCHANGED tablas
    BY <2>1, <2>2 DEF EntrarEnTablas
  <2>3. CASE UNCHANGED peticiones
    BY <2>3 DEF peticiones
  <2>4. ASSUME NEW c \in CPUs, CicloCPU(c)
        PROVE  UNCHANGED tablas
    BY <2>4 DEF CicloCPU, recibirPCBDeKernel, pedirLineaAMemoria, Pedir, recibirValorCompartida,
       RecibirResultado, TerminarTurno, enviarPCBAKernel, SoloCPU
  <2>5. ASSUME NEW c \in CPUs, manejadorCPU(c)
        PROVE  UNCHANGED tablas
    <3>1. CASE enviarPCB(c) \/ EnviarACPUPerdida(c) \/ RecibirFueraDePaso(c)
               \/ RecibirDeCPUPerdida(c) \/ ContestarAsignacion(c)
      BY <3>1 DEF enviarPCB, EnviarACPUPerdida, RecibirFueraDePaso, RecibirDeCPUPerdida,
         ContestarAsignacion, peticiones
    <3>2. CASE signalSemaforo(c) \/ VuelvePCB(c) \/ obtenerValorVariableCompartida(c)
               \/ VariableInexistente(c) \/ asignarValorVariableCompartida(c) \/ abrirArchivo(c)
      BY <3>2 DEF signalSemaforo, VuelvePCB, obtenerValorVariableCompartida, VariableInexistente,
         asignarValorVariableCompartida, abrirArchivo
    <3>3. CASE validarArchivo(c) \/ crearArchivo(c)
      BY <2>2, <3>3 DEF validarArchivo, crearArchivo, NoSePudoAbrir, tablas
    <3>4. CASE cerrarArchivo(c) \/ borrarArchivo(c) \/ escribirArchivo(c) \/ leerArchivo(c)
               \/ moverCursor(c)
      BY <3>4 DEF cerrarArchivo, borrarArchivo, escribirArchivo, leerArchivo, moverCursor,
         SinEntrada
    <3>5. QED
      BY <2>5, <3>1, <3>2, <3>3, <3>4 DEF manejadorCPU
  <2>6. CASE contestarFS \/ FSCorta \/ PerderMemoriaElKernel
    BY <2>6 DEF contestarFS, FSCorta, PerderMemoriaElKernel, peticiones
  <2>7. CASE UNCHANGED vars
    BY <2>7 DEF vars, peticiones
  <2>8. QED
    BY <2>3, <2>4, <2>5, <2>6, <2>7 DEF Next
<1>3. Vacias => TablasVacias
  BY DEF TablasVacias
<1>4. QED
  BY <1>1, <1>2, <1>3, PTL DEF Spec

-----------------------------------------------------------------------------
(* What a step means for one CPU: it is one of its own, of its thread, of  *)
(* main or of Memoria for it, or nothing of it changes.                    *)

(* What the CPU has seen of a variable follows the variable.               *)
SigueViendo(c) ==
  /\ vistos[c] \subseteq vistos'[c]
  /\ \A v \in SHARED_VARS : vistos[c] # {} /\ cpu[c].clave = v =>
       valor'[v] = valor[v] \/ valor'[v] \in vistos'[c]

Quieta(c) ==
  /\ cpu'[c] = cpu[c] /\ hilo'[c] = hilo[c]
  /\ aKernel'[c] = aKernel[c] /\ aCPU'[c] = aCPU[c]
  /\ ultimo'[c] = ultimo[c]
  /\ c \in porAceptar' <=> c \in porAceptar
  /\ c \in socketsCliente' <=> c \in socketsCliente
  /\ SigueViendo(c)

Suyo(c) ==
  \/ ConectarCPU(c) \/ RecibirConfiguracion(c) \/ PerderMemoria(c)
  \/ aceptarConexionDeCliente(c) \/ AtenderSaludo(c) \/ AtenderPaquete(c)

LEMMA PasoDeUna ==
  ASSUME FormaInv, [Next]_vars, NEW c \in CPUs
  PROVE  \/ Quieta(c)
         \/ Suyo(c) /\ UNCHANGED peticiones
         \/ CicloCPU(c) \/ manejadorCPU(c)
<1>0. /\ c \in Clientes /\ c # KERNEL
      /\ aKernel \in [Clientes -> Seq(Trozos)] /\ aCPU \in [Clientes -> Seq(Trozos)]
      /\ cpu \in [Clientes -> EstadosCPU] /\ hilo \in [Clientes -> EstadosHilo]
      /\ ultimo \in [CPUs -> 0 .. MaxMensajes] /\ vistos \in [CPUs -> SUBSET Valores]
  BY ClientesAssumption DEF FormaInv, TypeOK, FlujosOK, CompartidoOK, Clientes
<1>1. CASE UNCHANGED vars
  BY <1>1 DEF vars, conexiones, deKernel, flujos, peticiones, Quieta, SigueViendo
<1>2. CASE BucleMemoria /\ UNCHANGED peticiones
  <2>1. CASE seleccionar
    BY <1>2, <2>1 DEF seleccionar, deKernel, flujos, peticiones, Quieta, SigueViendo
  <2>2. ASSUME NEW s \in CPUs \cup {KERNEL}, AtenderPaquete(s), s # c
        PROVE  Quieta(c)
    <3>1. cpu'[c] = cpu[c]
      BY <1>0, <2>2 DEF AtenderPaquete, Modo
    <3>2. QED
      BY <1>2, <2>2, <3>1 DEF AtenderPaquete, flujos, peticiones, Quieta, SigueViendo
  <2>3. ASSUME NEW s \in CPUs \cup {KERNEL}, AtenderCorte(s)
        PROVE  Quieta(c)
    BY <1>2, <2>3 DEF AtenderCorte, deKernel, flujos, peticiones, Quieta, SigueViendo
  <2>4. QED
    BY <1>2, <2>1, <2>2, <2>3 DEF BucleMemoria, Suyo
<1>3. CASE Conectarse /\ UNCHANGED peticiones
  <2>1. ASSUME NEW d \in CPUs, d # c, ConectarCPU(d) \/ RecibirConfiguracion(d) \/ PerderMemoria(d)
        PROVE  Quieta(c)
    <3>1. cpu'[c] = cpu[c] /\ aKernel'[c] = aKernel[c] /\ aCPU'[c] = aCPU[c]
      BY <1>0, <2>1 DEF ConectarCPU, RecibirConfiguracion, PerderMemoria, Modo, flujos
    <3>2. QED
      BY <1>3, <2>1, <3>1 DEF ConectarCPU, RecibirConfiguracion, PerderMemoria, deKernel,
         peticiones,
         Quieta, SigueViendo
  <2>2. ASSUME NEW s \in Consolas \cup Ajenos, NEW saludo, ConectarOtro(s, saludo)
        PROVE  Quieta(c)
    <3>1. s # c
      BY ClientesAssumption
    <3>2. cpu'[c] = cpu[c] /\ aKernel'[c] = aKernel[c]
      BY <1>0, <2>2, <3>1 DEF ConectarOtro, Modo
    <3>3. QED
      BY <1>3, <2>2, <3>1, <3>2 DEF ConectarOtro, peticiones, Quieta, SigueViendo
  <2>3. QED
    BY <1>3, <2>1, <2>2 DEF Conectarse, Suyo
<1>4. CASE PrincipalKernel /\ UNCHANGED peticiones
  <2>1. CASE realizarHandshakeMemoria
    BY <1>4, <2>1 DEF realizarHandshakeMemoria, flujos, peticiones, Quieta, SigueViendo
  <2>2. ASSUME NEW s \in Clientes, s # c, aceptarConexionDeCliente(s)
        PROVE  Quieta(c)
    BY <1>4, <2>2 DEF aceptarConexionDeCliente, flujos, peticiones, Quieta, SigueViendo
  <2>3. ASSUME NEW s \in Clientes, s # c, AtenderSaludo(s)
        PROVE  Quieta(c)
    <3>1. aKernel'[c] = aKernel[c]
      BY <1>0, <2>3 DEF AtenderSaludo
    <3>2. cpu'[c] = cpu[c] /\ hilo'[c] = hilo[c] /\ aCPU'[c] = aCPU[c]
      BY <1>0, <2>3 DEF AtenderSaludo, Modo
    <3>3. QED
      BY <1>4, <2>3, <3>1, <3>2 DEF AtenderSaludo, DejarDeMirar, peticiones, Quieta, SigueViendo
  <2>4. QED
    BY <1>4, <2>1, <2>2, <2>3 DEF PrincipalKernel, Suyo
<1>5. ASSUME NEW d \in CPUs, d # c, CicloCPU(d)
      PROVE  Quieta(c)
  <2>1. UNCHANGED << porAceptar, socketsCliente, hilo, ultimo >>
    BY <1>5 DEF CicloCPU, recibirPCBDeKernel, pedirLineaAMemoria, Pedir, recibirValorCompartida,
       RecibirResultado, TerminarTurno, enviarPCBAKernel, SoloCPU, deKernel
  <2>2. cpu'[c] = cpu[c] /\ aKernel'[c] = aKernel[c] /\ aCPU'[c] = aCPU[c]
    <3>1. CASE recibirPCBDeKernel(d) \/ pedirLineaAMemoria(d)
      BY <1>0, <1>5, <3>1 DEF recibirPCBDeKernel, pedirLineaAMemoria, Modo, flujos
    <3>2. ASSUME NEW op, NEW clave, NEW nuevo, Pedir(d, op, clave, nuevo)
          PROVE  cpu'[c] = cpu[c] /\ aKernel'[c] = aKernel[c] /\ aCPU'[c] = aCPU[c]
      BY <1>0, <1>5, <3>2, Zenon DEF Pedir
    <3>3. CASE recibirValorCompartida(d) \/ RecibirResultado(d)
      BY <1>0, <1>5, <3>3 DEF recibirValorCompartida, RecibirResultado, Contestada
    <3>4. CASE TerminarTurno(d)
      BY <1>0, <1>5, <3>4 DEF TerminarTurno, enviarPCBAKernel
    <3>5. QED
      BY <1>5, <3>1, <3>2, <3>3, <3>4 DEF CicloCPU
  <2>3. vistos'[c] = vistos[c] /\ UNCHANGED valor
    <3>1. UNCHANGED valor
      BY <1>5 DEF CicloCPU, recibirPCBDeKernel, pedirLineaAMemoria, Pedir, recibirValorCompartida,
         RecibirResultado, TerminarTurno, enviarPCBAKernel, SoloCPU
    <3>2. ASSUME NEW op, NEW clave, NEW nuevo, Pedir(d, op, clave, nuevo)
          PROVE  vistos'[c] = vistos[c]
      BY <1>0, <1>5, <3>2, Zenon DEF Pedir
    <3>3. CASE recibirPCBDeKernel(d) \/ pedirLineaAMemoria(d) \/ RecibirResultado(d)
               \/ TerminarTurno(d)
      BY <3>1, <3>3 DEF recibirPCBDeKernel, pedirLineaAMemoria, RecibirResultado, TerminarTurno,
         enviarPCBAKernel
    <3>4. CASE recibirValorCompartida(d)
      BY <1>0, <1>5, <3>1, <3>4 DEF recibirValorCompartida
    <3>5. QED
      BY <1>5, <3>1, <3>2, <3>3, <3>4 DEF CicloCPU
  <2>4. QED
    BY <2>1, <2>2, <2>3 DEF Quieta, SigueViendo
<1>6. ASSUME NEW d \in CPUs, d # c, manejadorCPU(d)
      PROVE  Quieta(c)
  <2>1. UNCHANGED << porAceptar, socketsCliente, cpu >>
    BY <1>6, SoloDelHilo DEF SoloHilo
  <2> DEFINE Igual == /\ hilo'[c] = hilo[c] /\ aKernel'[c] = aKernel[c] /\ aCPU'[c] = aCPU[c]
                      /\ ultimo'[c] = ultimo[c]
  <2>2. ASSUME NEW path, EntrarEnTablas(d, path)
        PROVE  hilo'[c] = hilo[c] /\ aCPU'[c] = aCPU[c]
    BY <1>0, <1>6, <2>2 DEF EntrarEnTablas, Contestar, Paso
  <2>3. ASSUME NoSePudoAbrir(d)
        PROVE  hilo'[c] = hilo[c] /\ aCPU'[c] = aCPU[c]
    BY <1>0, <1>6, <2>3 DEF NoSePudoAbrir, Contestar, Paso
  <2>4. ASSUME NEW tipos, Recibir(d, tipos)
        PROVE  aKernel'[c] = aKernel[c] /\ ultimo'[c] = ultimo[c]
    BY <1>0, <1>6, <2>4 DEF Recibir
  <2>5. ASSUME enviarPCB(d) \/ EnviarACPUPerdida(d) \/ RecibirFueraDePaso(d)
               \/ RecibirDeCPUPerdida(d) \/ ContestarAsignacion(d)
        PROVE  Igual
    BY <1>0, <1>6, <2>5 DEF enviarPCB, EnviarACPUPerdida, RecibirFueraDePaso, RecibirDeCPUPerdida,
       ContestarAsignacion, peticiones, flujos, Paso, EnviarValor, Contestar
  <2>6. ASSUME signalSemaforo(d) \/ VuelvePCB(d) \/ obtenerValorVariableCompartida(d)
               \/ VariableInexistente(d) \/ asignarValorVariableCompartida(d) \/ abrirArchivo(d)
        PROVE  Igual
    <3>1. aKernel'[c] = aKernel[c] /\ ultimo'[c] = ultimo[c]
      BY <2>4, <2>6 DEF signalSemaforo, VuelvePCB, obtenerValorVariableCompartida,
         VariableInexistente, asignarValorVariableCompartida, abrirArchivo
    <3>2. hilo'[c] = hilo[c]
      BY <1>0, <1>6, <2>6 DEF signalSemaforo, VuelvePCB, obtenerValorVariableCompartida,
         VariableInexistente, asignarValorVariableCompartida, abrirArchivo, Paso
    <3>3. aCPU'[c] = aCPU[c]
      BY <1>0, <1>6, <2>6 DEF signalSemaforo, VuelvePCB, obtenerValorVariableCompartida,
         VariableInexistente, asignarValorVariableCompartida, abrirArchivo, EnviarValor, Contestar
    <3>4. QED
      BY <3>1, <3>2, <3>3
  <2>7. ASSUME validarArchivo(d) \/ crearArchivo(d)
        PROVE  Igual
    <3>1. hilo'[c] = hilo[c] /\ aCPU'[c] = aCPU[c]
      BY <1>0, <1>6, <2>2, <2>3, <2>7 DEF validarArchivo, crearArchivo, Paso
    <3>2. UNCHANGED << aKernel, ultimo >>
      BY <2>7 DEF validarArchivo, crearArchivo
    <3>3. QED
      BY <3>1, <3>2
  <2>8. ASSUME cerrarArchivo(d) \/ borrarArchivo(d) \/ escribirArchivo(d) \/ leerArchivo(d)
               \/ moverCursor(d)
        PROVE  Igual
    BY <1>0, <1>6, <2>4, <2>8 DEF cerrarArchivo, borrarArchivo, escribirArchivo, leerArchivo,
       moverCursor, SinEntrada, Contestar
  <2>9. Igual
    BY <1>6, <2>5, <2>6, <2>7, <2>8 DEF manejadorCPU
  <2>10. SigueViendo(c)
    <3>1. CASE asignarValorVariableCompartida(d)
      <4> DEFINE m == Recibido(d).mensaje
      <4>1. /\ valor' = [valor EXCEPT ![m.clave] = m.valor]
            /\ vistos' = [e \in CPUs |->
                 IF e = d THEN {m.valor}
                 ELSE IF vistos[e] # {} /\ cpu[e].clave = m.clave THEN vistos[e] \cup {m.valor}
                 ELSE vistos[e]]
        BY <3>1 DEF asignarValorVariableCompartida
      <4>2. valor \in [SHARED_VARS -> Valores]
        BY DEF FormaInv, TypeOK, CompartidoOK
      <4> HIDE DEF m
      <4>3. QED
        BY <1>6, <4>1, <4>2 DEF SigueViendo
    <3>2. CASE ~asignarValorVariableCompartida(d)
      <4>1. CASE enviarPCB(d) \/ EnviarACPUPerdida(d) \/ RecibirFueraDePaso(d)
                 \/ RecibirDeCPUPerdida(d) \/ ContestarAsignacion(d)
        BY <4>1 DEF enviarPCB, EnviarACPUPerdida, RecibirFueraDePaso, RecibirDeCPUPerdida,
           ContestarAsignacion, peticiones, SigueViendo
      <4>2. CASE signalSemaforo(d) \/ VuelvePCB(d) \/ obtenerValorVariableCompartida(d)
                 \/ VariableInexistente(d) \/ abrirArchivo(d)
        BY <4>2 DEF signalSemaforo, VuelvePCB, obtenerValorVariableCompartida, VariableInexistente,
           abrirArchivo, SigueViendo
      <4>3. CASE validarArchivo(d) \/ crearArchivo(d)
        BY <4>3 DEF validarArchivo, crearArchivo, SigueViendo
      <4>4. CASE cerrarArchivo(d) \/ borrarArchivo(d) \/ escribirArchivo(d) \/ leerArchivo(d)
                 \/ moverCursor(d)
        BY <4>4 DEF cerrarArchivo, borrarArchivo, escribirArchivo, leerArchivo, moverCursor,
           SinEntrada, SigueViendo
      <4>5. QED
        BY <1>6, <3>2, <4>1, <4>2, <4>3, <4>4 DEF manejadorCPU
    <3>3. QED
      BY <3>1, <3>2
  <2>11. QED
    BY <2>1, <2>9, <2>10 DEF Quieta
<1>7. CASE contestarFS \/ FSCorta \/ PerderMemoriaElKernel
  BY <1>7 DEF contestarFS, FSCorta, PerderMemoriaElKernel, Caer, conexiones, deKernel, flujos,
     peticiones, Quieta, SigueViendo
<1>8. QED
  BY <1>1, <1>2, <1>3, <1>4, <1>5, <1>6, <1>7 DEF Next

-----------------------------------------------------------------------------
(* Memoria and the sockets of those that live.                             *)

(* Until main attends its greeting a CPU has no thread and no answer.      *)
SinSaludar(c) ==
  /\ c \in porAceptar => c \notin socketsCliente
  /\ c \in porAceptar \cup socketsCliente => cpu[c].modo = "saludando"
  /\ cpu[c].modo = "afuera" \/ c \in porAceptar \cup socketsCliente =>
       hilo[c].paso = "ninguno" /\ aCPU[c] = << >>

SaludosInv == \A c \in CPUs : SinSaludar(c)

(* What Memoria found readable still is when it attends it, what it has    *)
(* closed is of a CPU that left, and it has lost nobody else.              *)
MemoriaInv ==
  /\ \A c \in CPUs \cap pasada : cpu[c].modo \in {"saludandoMemoria", "pidiendoLinea", "muerta"}
  /\ \A s \in cerrados : s \in CPUs /\ cpu[s].modo = "muerta"
  /\ \A c \in CPUs : cpu[c].modo \notin {"afuera", "muerta"} =>
       c \in porAceptarMemoria \cup aceptarConexiones
  /\ memoria = "caida" => kernel = "caido" \/ \E c \in CPUs : cpu[c].modo = "muerta"

VidaInv == FormaInv /\ SaludosInv /\ MemoriaInv

LEMMA VidaInicial == InitPeticiones => VidaInv
<1> SUFFICES ASSUME InitPeticiones
             PROVE  VidaInv
  OBVIOUS
<1>1. SaludosInv
  BY DEF InitPeticiones, Init, SaludosInv, SinSaludar, SinHilo, Clientes
<1>2. MemoriaInv
  BY DEF InitPeticiones, Init, MemoriaInv, Clientes
<1>3. QED
  BY <1>1, <1>2, FormaInicial DEF VidaInv

(* How the state of one CPU process may change.                            *)
LEMMA ModoDeUna ==
  ASSUME VidaInv, [Next]_vars, NEW c \in CPUs
  PROVE  \/ cpu'[c] = cpu[c]
         \/ ConectarCPU(c) /\ cpu'[c].modo = "saludando"
         \/ RecibirConfiguracion(c) /\ cpu[c].modo = "saludando" /\ aCPU[c] # << >>
            /\ cpu'[c].modo \in {"saludandoMemoria", "muerta"}
         \/ PerderMemoria(c) /\ cpu'[c].modo = "muerta"
         \/ AtenderPaquete(c) /\ cpu[c].modo \in {"saludandoMemoria", "pidiendoLinea"}
            /\ cpu'[c].modo \in {"libre", "conLinea"}
         \/ AtenderSaludo(c) /\ cpu[c].modo = "saludando" /\ cpu'[c].modo = "rechazado"
         \/ CicloCPU(c)
            /\ cpu[c].modo \in {"libre", "ejecutando", "conLinea", "esperaPaquete",
                                "esperaNotificacion", "repite", "destiempo"}
            /\ cpu'[c].modo \in {"libre", "ejecutando", "pidiendoLinea", "esperaPaquete",
                                 "esperaNotificacion", "repite", "destiempo", "muerta"}
<1>0. /\ c \in Clientes /\ c # KERNEL /\ cpu \in [Clientes -> EstadosCPU] /\ FormaInv
      /\ SinSaludar(c)
  BY ClientesAssumption DEF VidaInv, FormaInv, TypeOK, Clientes, SaludosInv
<1>1. CASE Quieta(c)
  BY <1>1 DEF Quieta
<1>2. ASSUME Suyo(c)
      PROVE  \/ cpu'[c] = cpu[c]
             \/ ConectarCPU(c) /\ cpu'[c].modo = "saludando"
             \/ RecibirConfiguracion(c) /\ cpu[c].modo = "saludando" /\ aCPU[c] # << >>
                /\ cpu'[c].modo \in {"saludandoMemoria", "muerta"}
             \/ PerderMemoria(c) /\ cpu'[c].modo = "muerta"
             \/ AtenderPaquete(c) /\ cpu[c].modo \in {"saludandoMemoria", "pidiendoLinea"}
                /\ cpu'[c].modo \in {"libre", "conLinea"}
             \/ AtenderSaludo(c) /\ cpu[c].modo = "saludando" /\ cpu'[c].modo = "rechazado"
  <2>1. ASSUME NEW m, Modo(c, m)
        PROVE  cpu'[c].modo = m
    BY <1>0, <2>1 DEF Modo, EstadosCPU
  <2>2. CASE ConectarCPU(c)
    BY <2>1, <2>2 DEF ConectarCPU
  <2>3. CASE RecibirConfiguracion(c)
    <3>1. aCPU[c] # << >>
      BY <2>3, EmptySeq DEF RecibirConfiguracion, HayPaquete
    <3>2. cpu'[c].modo \in {"saludandoMemoria", "muerta"} /\ cpu[c].modo = "saludando"
      BY <2>1, <2>3 DEF RecibirConfiguracion
    <3>3. QED
      BY <2>3, <3>1, <3>2
  <2>4. CASE PerderMemoria(c)
    BY <2>1, <2>4 DEF PerderMemoria
  <2>5. CASE aceptarConexionDeCliente(c)
    BY <2>5 DEF aceptarConexionDeCliente
  <2>6. CASE AtenderSaludo(c)
    <3>1. cpu[c].modo = "saludando"
      BY <1>0, <2>6 DEF AtenderSaludo, SinSaludar
    <3>2. cpu' = cpu \/ Modo(c, "rechazado")
      BY <2>6 DEF AtenderSaludo
    <3>3. QED
      BY <2>1, <2>6, <3>1, <3>2
  <2>7. CASE AtenderPaquete(c)
    <3>1. c \in pasada /\ cpu[c].modo # "muerta"
      BY <1>0, <2>7 DEF AtenderPaquete, EsDeClienteConocido, Corto
    <3>2. cpu[c].modo \in {"saludandoMemoria", "pidiendoLinea"}
      BY <3>1 DEF VidaInv, MemoriaInv
    <3>3. cpu'[c].modo \in {"libre", "conLinea"}
      BY <1>0, <2>1, <2>7 DEF AtenderPaquete
    <3>4. QED
      BY <2>7, <3>2, <3>3
  <2>8. QED
    BY <1>2, <2>2, <2>3, <2>4, <2>5, <2>6, <2>7 DEF Suyo
<1>3. ASSUME CicloCPU(c)
      PROVE  /\ cpu[c].modo \in {"libre", "ejecutando", "conLinea", "esperaPaquete",
                                 "esperaNotificacion", "repite", "destiempo"}
             /\ cpu'[c].modo \in {"libre", "ejecutando", "pidiendoLinea", "esperaPaquete",
                                  "esperaNotificacion", "repite", "destiempo", "muerta"}
  <2>1. cpu[c].modo \in {"libre", "ejecutando", "conLinea", "esperaPaquete", "esperaNotificacion",
                         "repite", "destiempo"}
    BY <1>3 DEF CicloCPU, recibirPCBDeKernel, pedirLineaAMemoria, Pedir, recibirValorCompartida,
       RecibirResultado, TerminarTurno
  <2>2. CASE recibirPCBDeKernel(c) \/ pedirLineaAMemoria(c)
    BY <1>0, <2>1, <2>2 DEF recibirPCBDeKernel, pedirLineaAMemoria, Modo, EstadosCPU
  <2>3. ASSUME NEW op \in Operaciones, NEW clave, NEW nuevo, Pedir(c, op, clave, nuevo)
        PROVE  cpu'[c].modo \in {"ejecutando", "esperaPaquete", "esperaNotificacion", "destiempo"}
    <3> DEFINE m == ModoDeEspera(op)
    <3>1. \/ cpu[c].modo = "destiempo" /\ cpu' = [cpu EXCEPT ![c].nro = @ + 1]
          \/ \E o, n : cpu' = [cpu EXCEPT ![c] = [modo |-> m, abortado |-> FALSE,
                                                  op |-> o, clave |-> clave, nro |-> n]]
      BY <2>3 DEF Pedir
    <3>2. m \in {"ejecutando", "esperaPaquete", "esperaNotificacion"}
      BY TiposDePaquete
    <3> HIDE DEF m
    <3>3. CASE cpu[c].modo = "destiempo" /\ cpu' = [cpu EXCEPT ![c].nro = @ + 1]
      BY <1>0, <3>3 DEF EstadosCPU
    <3>4. CASE \E o, n : cpu' = [cpu EXCEPT ![c] = [modo |-> m, abortado |-> FALSE,
                                                  op |-> o, clave |-> clave, nro |-> n]]
      <4>1. cpu'[c].modo = m
        BY <1>0, <3>4
      <4>2. QED
        BY <3>2, <4>1
    <3>5. QED
      BY <3>1, <3>3, <3>4
  <2>4. ASSUME NEW modo
        PROVE  /\ Contestada(c, modo)[c].modo = modo
               /\ \A b : [Contestada(c, modo) EXCEPT ![c].abortado = b][c].modo = modo
    BY <1>0 DEF Contestada, EstadosCPU
  <2>5. CASE recibirValorCompartida(c)
    <3>1. cpu' = Contestada(c, "ejecutando") \/ cpu' = Contestada(c, "muerta")
      BY <2>5 DEF recibirValorCompartida
    <3>2. QED
      BY <2>1, <2>4, <3>1
  <2>6. CASE RecibirResultado(c)
    BY <2>1, <2>4, <2>6 DEF RecibirResultado
  <2>7. CASE TerminarTurno(c)
    <3>1. PICK tipo \in TiposDeVuelta, modo \in {"libre", "muerta", "repite", "destiempo"} :
            enviarPCBAKernel(c, tipo, modo)
      BY <2>7, UnFinDeTurno
    <3>2. cpu'[c].modo = modo
      BY <1>0, <3>1 DEF enviarPCBAKernel, EstadosCPU
    <3>3. QED
      BY <2>1, <3>2
  <2>8. QED
    BY <1>3, <2>1, <2>2, <2>3, <2>5, <2>6, <2>7 DEF CicloCPU
<1>4. CASE manejadorCPU(c)
  BY <1>4, SoloDelHilo DEF SoloHilo
<1>5. QED
  BY <1>0, <1>1, <1>2, <1>3, <1>4, PasoDeUna

LEMMA SaludosCumple ==
  ASSUME VidaInv, [Next]_vars
  PROVE  SaludosInv'
<1> SUFFICES ASSUME NEW c \in CPUs
             PROVE  SinSaludar(c)'
  BY DEF SaludosInv
<1>0. /\ SinSaludar(c) /\ FormaInv /\ c \in Clientes
      /\ aCPU \in [Clientes -> Seq(Trozos)] /\ hilo \in [Clientes -> EstadosHilo]
  BY DEF VidaInv, SaludosInv, FormaInv, TypeOK, FlujosOK, Clientes
<1>1. CASE Quieta(c)
  BY <1>0, <1>1 DEF Quieta, SinSaludar
<1>2. CASE ConectarCPU(c)
  <2>1. cpu'[c].modo = "saludando"
    BY <1>0, <1>2 DEF ConectarCPU, Modo, FormaInv, TypeOK, EstadosCPU
  <2>2. cpu[c].modo = "afuera" /\ porAceptar' = porAceptar \cup {c}
        /\ UNCHANGED << socketsCliente, hilo, aCPU >>
    BY <1>2 DEF ConectarCPU
  <2>3. QED
    BY <1>0, <2>1, <2>2 DEF SinSaludar
<1>3. CASE aceptarConexionDeCliente(c)
  <2>1. UNCHANGED << cpu, hilo, aCPU >> /\ c \in porAceptar
        /\ porAceptar' = porAceptar \ {c} /\ socketsCliente' = socketsCliente \cup {c}
    BY <1>3 DEF aceptarConexionDeCliente, flujos
  <2>2. QED
    BY <1>0, <2>1 DEF SinSaludar
<1>4. CASE AtenderSaludo(c)
  <2>1. c \in socketsCliente /\ socketsCliente' = socketsCliente \ {c} /\ UNCHANGED porAceptar
    BY <1>4 DEF AtenderSaludo, DejarDeMirar
  <2>2. cpu'[c].modo # "afuera"
    BY <1>0, <1>4, <2>1, ModoDeUna DEF SinSaludar
  <2>3. QED
    BY <1>0, <2>1, <2>2 DEF SinSaludar
<1>5. CASE RecibirConfiguracion(c) \/ PerderMemoria(c) \/ AtenderPaquete(c) \/ CicloCPU(c)
  <2>1. UNCHANGED << porAceptar, socketsCliente >>
    BY <1>5 DEF RecibirConfiguracion, PerderMemoria, AtenderPaquete, CicloCPU, recibirPCBDeKernel,
       pedirLineaAMemoria, Pedir, recibirValorCompartida, RecibirResultado, TerminarTurno,
       enviarPCBAKernel, SoloCPU,
       deKernel
  <2>2. c \notin porAceptar \cup socketsCliente
    <3>1. CASE RecibirConfiguracion(c)
      <4>1. aCPU[c] # << >>
        BY <3>1, EmptySeq DEF RecibirConfiguracion, HayPaquete
      <4>2. QED
        BY <1>0, <4>1 DEF SinSaludar
    <3>2. CASE PerderMemoria(c)
      BY <1>0, <3>2 DEF PerderMemoria, SinSaludar
    <3>3. CASE AtenderPaquete(c)
      <4>1. c \in pasada
        BY <3>3 DEF AtenderPaquete
      <4>2. cpu[c].modo # "saludando"
        BY <4>1 DEF VidaInv, MemoriaInv
      <4>3. QED
        BY <1>0, <4>2 DEF SinSaludar
    <3>4. CASE CicloCPU(c)
      <4>1. cpu[c].modo # "saludando"
        BY <3>4 DEF CicloCPU, recibirPCBDeKernel, pedirLineaAMemoria, Pedir, recibirValorCompartida,
           RecibirResultado, TerminarTurno, enviarPCBAKernel
      <4>2. QED
        BY <1>0, <4>1 DEF SinSaludar
    <3>5. QED
      BY <1>5, <3>1, <3>2, <3>3, <3>4
  <2>3. cpu'[c].modo # "afuera" \/ (cpu'[c] = cpu[c])
    BY ModoDeUna
  <2>4. cpu[c].modo # "afuera"
    <3>1. CASE RecibirConfiguracion(c) \/ PerderMemoria(c) \/ CicloCPU(c)
      BY <3>1 DEF RecibirConfiguracion, PerderMemoria, CicloCPU, recibirPCBDeKernel,
         pedirLineaAMemoria, Pedir, recibirValorCompartida, RecibirResultado, TerminarTurno,
         enviarPCBAKernel
    <3>2. CASE AtenderPaquete(c)
      BY <3>2 DEF AtenderPaquete, VidaInv, MemoriaInv
    <3>3. QED
      BY <1>5, <3>1, <3>2
  <2>5. QED
    BY <2>1, <2>2, <2>3, <2>4 DEF SinSaludar
<1>6. CASE manejadorCPU(c)
  <2>1. UNCHANGED << porAceptar, socketsCliente, cpu >>
    BY <1>6, SoloDelHilo DEF SoloHilo
  <2>2. hilo[c].paso # "ninguno"
    BY <1>6 DEF manejadorCPU, enviarPCB, EnviarACPUPerdida, RecibirFueraDePaso, RecibirDeCPUPerdida,
       signalSemaforo, VuelvePCB, obtenerValorVariableCompartida, VariableInexistente,
       asignarValorVariableCompartida, ContestarAsignacion, abrirArchivo, validarArchivo,
       crearArchivo, RecibirDelFS, cerrarArchivo, borrarArchivo, escribirArchivo, leerArchivo,
       moverCursor, SinEntrada, Recibir
  <2>3. QED
    BY <1>0, <2>1, <2>2 DEF SinSaludar
<1>7. QED
  BY <1>0, <1>1, <1>2, <1>3, <1>4, <1>5, <1>6, PasoDeUna DEF Suyo

LEMMA MemoriaCumple ==
  ASSUME VidaInv, [Next]_vars
  PROVE  MemoriaInv'
<1>0. FormaInv /\ MemoriaInv /\ SocketsOK /\ cerrados \cap pasada = {} /\ KERNEL \notin CPUs
  BY ClientesAssumption DEF VidaInv, FormaInv, TypeOK, Clientes
<1>1. ASSUME NEW c \in CPUs, cpu[c].modo = "muerta"
      PROVE  cpu'[c].modo = "muerta"
  BY <1>1, ModoDeUna DEF ConectarCPU, PerderMemoria
<1>2. ASSUME NEW c \in CPUs, cpu[c].modo \in {"saludandoMemoria", "pidiendoLinea", "muerta"},
             c \in pasada'
      PROVE  cpu'[c].modo \in {"saludandoMemoria", "pidiendoLinea", "muerta"}
  BY <1>2, ModoDeUna DEF ConectarCPU, AtenderPaquete
<1>3. \/ UNCHANGED deMemoria
      \/ seleccionar
      \/ \E s \in CPUs \cup {KERNEL} : AtenderPaquete(s) \/ AtenderCorte(s)
      \/ \E c \in CPUs : ConectarCPU(c)
      \/ realizarHandshakeMemoria
  <2>1. ASSUME NEW c \in CPUs, CicloCPU(c)
        PROVE  UNCHANGED deMemoria
    BY <2>1 DEF CicloCPU, recibirPCBDeKernel, pedirLineaAMemoria, Pedir, recibirValorCompartida,
       RecibirResultado, TerminarTurno, enviarPCBAKernel, SoloCPU
  <2>2. ASSUME NEW c \in CPUs, manejadorCPU(c)
        PROVE  UNCHANGED deMemoria
    BY <2>2, SoloDelHilo DEF SoloHilo
  <2>3. CASE contestarFS \/ FSCorta \/ PerderMemoriaElKernel \/ UNCHANGED vars
    BY <2>3 DEF contestarFS, FSCorta, PerderMemoriaElKernel, vars, conexiones
  <2>4. CASE Conectarse
    BY <2>4 DEF Conectarse, RecibirConfiguracion, PerderMemoria, ConectarOtro
  <2>5. CASE PrincipalKernel
    BY <2>5 DEF PrincipalKernel, aceptarConexionDeCliente, AtenderSaludo
  <2>6. QED
    BY <2>1, <2>2, <2>3, <2>4, <2>5 DEF Next, BucleMemoria
<1>4. pasada' \subseteq pasada \/ seleccionar
  BY <1>3 DEF deMemoria, AtenderPaquete, AtenderCorte, ConectarCPU, realizarHandshakeMemoria
<1>5. \A c \in CPUs \cap pasada' : cpu'[c].modo \in {"saludandoMemoria", "pidiendoLinea", "muerta"}
  <2>1. CASE pasada' \subseteq pasada
    BY <1>0, <1>2, <2>1 DEF MemoriaInv
  <2>2. CASE seleccionar
    <3>1. UNCHANGED cpu /\ (pasada' = pasada \/ pasada' = {s \in aceptarConexiones : Legible(s)})
      BY <2>2 DEF seleccionar
    <3>2. QED
      BY <1>0, <3>1 DEF Legible, MemoriaInv
  <2>3. QED
    BY <1>4, <2>1, <2>2
<1>6. \A s \in cerrados' : s \in CPUs /\ cpu'[s].modo = "muerta"
  <2>1. ASSUME NEW s \in cerrados
        PROVE  s \in CPUs /\ cpu'[s].modo = "muerta"
    BY <1>0, <1>1 DEF MemoriaInv
  <2>2. ASSUME NEW s \in CPUs \cup {KERNEL}, AtenderCorte(s), s # KERNEL
        PROVE  s \in CPUs /\ cpu'[s].modo = "muerta"
    BY <2>2 DEF AtenderCorte, EsDeClienteConocido, Corto
  <2>3. \/ cerrados' = cerrados
        \/ \E s \in CPUs \cup {KERNEL} :
             AtenderCorte(s) /\ s # KERNEL /\ cerrados' = cerrados \cup {s}
    BY <1>3 DEF deMemoria, seleccionar, AtenderPaquete, AtenderCorte, ConectarCPU,
       realizarHandshakeMemoria
  <2>4. QED
    BY <2>1, <2>2, <2>3
<1>7. ASSUME NEW c \in CPUs, cpu'[c].modo \notin {"afuera", "muerta"}
      PROVE  c \in porAceptarMemoria' \cup aceptarConexiones'
  <2>1. c \in porAceptarMemoria \cup aceptarConexiones \/ ConectarCPU(c)
    <3>1. cpu[c].modo # "muerta"
      BY <1>1, <1>7
    <3>2. cpu[c].modo # "afuera" \/ ConectarCPU(c)
      BY <1>7, ModoDeUna DEF PerderMemoria
    <3>3. QED
      BY <1>0, <3>1, <3>2 DEF MemoriaInv
  <2>2. CASE ConectarCPU(c)
    BY <2>2 DEF ConectarCPU
  <2>3. CASE c \in porAceptarMemoria \cup aceptarConexiones
    <3>1. ASSUME NEW s \in CPUs \cup {KERNEL}, AtenderCorte(s)
          PROVE  c \in porAceptarMemoria' \cup aceptarConexiones'
      <4>1. s # c
        BY <1>0, <1>7, <3>1 DEF AtenderCorte, EsDeClienteConocido, Corto
      <4>2. QED
        BY <2>3, <3>1, <4>1 DEF AtenderCorte
    <3>2. CASE seleccionar
      BY <2>3, <3>2 DEF seleccionar
    <3>3. QED
      BY <1>3, <2>3, <3>1, <3>2 DEF deMemoria, AtenderPaquete, ConectarCPU, realizarHandshakeMemoria
  <2>4. QED
    BY <2>1, <2>2, <2>3
<1>8. ASSUME memoria' = "caida"
      PROVE  kernel' = "caido" \/ \E c \in CPUs : cpu'[c].modo = "muerta"
  <2>1. CASE seleccionar /\ cerrados # {}
    BY <1>0, <1>1, <2>1 DEF MemoriaInv
  <2>2. CASE AtenderCorte(KERNEL)
    BY <2>2 DEF AtenderCorte, EsDeClienteConocido, Corto, deKernel
  <2>3. CASE memoria = "caida"
    <3>1. kernel = "caido" => kernel' = "caido"
      <4>1. ASSUME NEW s \in CPUs \cup {KERNEL}, AtenderPaquete(s), kernel = "caido"
            PROVE  kernel' = "caido"
        BY <4>1 DEF AtenderPaquete, EsDeClienteConocido, Corto
      <4>2. QED
        BY <4>1 DEF Next, BucleMemoria, seleccionar, AtenderCorte, deKernel, vars, conexiones
    <3>2. QED
      BY <1>0, <1>1, <2>3, <3>1 DEF MemoriaInv
  <2>4. QED
    BY <1>3, <1>8, <2>1, <2>2, <2>3 DEF deMemoria, seleccionar, AtenderPaquete, AtenderCorte,
       ConectarCPU, realizarHandshakeMemoria
<1>9. QED
  BY <1>5, <1>6, <1>7, <1>8 DEF MemoriaInv

LEMMA VidaSiempre == Spec => []VidaInv
<1>1. VidaInv /\ [Next]_vars => VidaInv'
  BY FormaSiguiente, SaludosCumple, MemoriaCumple DEF VidaInv
<1>2. QED
  BY <1>1, VidaInicial, PTL DEF Spec

(* Memoria never loses the socket of a CPU that lives, and it falls only   *)
(* after the kernel or some CPU.                                           *)
THEOREM MemoriaNoPierdeANadie == Spec => []LosVivosSiguenConectados
<1>1. VidaInv => LosVivosSiguenConectados
  <2> SUFFICES ASSUME VidaInv
               PROVE  LosVivosSiguenConectados
    OBVIOUS
  <2>1. ASSUME NEW c \in CPUs, cpu[c].modo \notin {"afuera", "saludando", "muerta"}
        PROVE  c \in porAceptarMemoria \cup (aceptarConexiones \ cerrados)
    BY <2>1 DEF VidaInv, MemoriaInv
  <2>2. QED
    BY <2>1 DEF VidaInv, MemoriaInv, LosVivosSiguenConectados
<1>2. QED
  BY <1>1, VidaSiempre, PTL

-----------------------------------------------------------------------------
(* The conversation of a CPU with its thread.                              *)

(* The q packets on their way to the thread, the last of them number n,    *)
(* behind the word that the greeting left (z is 1) or without it.  Those   *)
(* before the last are of the types in Previos: Senales, for a CPU that    *)
(* waits when it sends something that is not a signal.                     *)
Camino(A, z, q, n, u, Previos) ==
  /\ Len(A) = z + 3 * q
  /\ \A i \in 1 .. Len(A) : A[i].largo > 0
  /\ z = 1 => A[1].entero = 0 /\ u = 0 /\ n = q
  /\ z = 0 => n > q /\ u \in {0, n - q}
  /\ \A j \in 1 .. q :
       /\ A[z + 3 * j - 2].entero # 0
       /\ A[z + 3 * j - 1].entero = A[z + 3 * j].largo
       /\ A[z + 3 * j].cuerpo.nro = n - q + j
       /\ j < q => A[z + 3 * j - 2].entero \in Previos

(* What LoEnviado says of a packet with a body, as one fact.               *)
MasUnPaquete(B, A, tipo, tam, que) ==
  /\ B \in Seq(Trozos) /\ Len(B) = Len(A) + 3
  /\ \A i \in 1 .. Len(A) : B[i] = A[i]
  /\ B[Len(A) + 1] = Entero(tipo) /\ B[Len(A) + 2] = Entero(tam)
  /\ B[Len(A) + 3] = Bulto(tam, que)

LEMMA LoEnviadoEs ==
  ASSUME NEW A \in Seq(Trozos), NEW tipo \in Int, NEW tam \in Nat, tam # 0, NEW que \in Cuerpos
  PROVE  MasUnPaquete(sendRemasterizado(A, tipo, tam, que), A, tipo, tam, que)
BY LoEnviado, ZenonT(60) DEF MasUnPaquete

LEMMA CaminoCrece ==
  ASSUME NEW A \in Seq(Trozos), NEW z \in {0, 1}, NEW q \in Nat, NEW n \in Nat, NEW u \in Nat,
         NEW Previos,
         Camino(A, z, q, n, u, Previos),
         q > 0 => A[Len(A) - 2].entero \in Previos,
         NEW tipo \in Int, tipo # 0, NEW tam \in Nat, tam # 0,
         NEW que \in Cuerpos, que.nro = n + 1
  PROVE  LET B == sendRemasterizado(A, tipo, tam, que) IN
         /\ Camino(B, z, q + 1, n + 1, u, Previos)
         /\ B[Len(B) - 2].entero = tipo /\ B[Len(B)].cuerpo = que
<1> DEFINE B == sendRemasterizado(A, tipo, tam, que)
<1>1. /\ B \in Seq(Trozos) /\ Len(B) = Len(A) + 3
      /\ \A i \in 1 .. Len(A) : B[i] = A[i]
      /\ B[Len(A) + 1] = Entero(tipo) /\ B[Len(A) + 2] = Entero(tam)
      /\ B[Len(A) + 3] = Bulto(tam, que)
  <2>1. MasUnPaquete(B, A, tipo, tam, que)
    BY LoEnviadoEs
  <2> HIDE DEF B
  <2>2. QED
    BY <2>1 DEF MasUnPaquete
<1> HIDE DEF B
<1>2. /\ B[Len(A) + 1].entero = tipo /\ B[Len(A) + 1].largo = 4
      /\ B[Len(A) + 2].entero = tam /\ B[Len(A) + 2].largo = 4
      /\ B[Len(A) + 3].largo = tam /\ B[Len(A) + 3].cuerpo = que
  BY <1>1 DEF Entero, Bulto
<1>3. Len(A) = z + 3 * q /\ Len(A) \in Nat /\ Len(B) = z + 3 * (q + 1)
  BY <1>1 DEF Camino
<1>4. \A i \in 1 .. Len(B) : B[i].largo > 0
  <2>1. Len(A) \in Nat /\ Len(B) = Len(A) + 3
    BY <1>1, <1>3
  <2>2. \A i \in 1 .. Len(A) : B[i].largo > 0
    BY <1>1 DEF Camino
  <2>3. B[Len(A) + 1].largo > 0 /\ B[Len(A) + 2].largo > 0 /\ B[Len(A) + 3].largo > 0
    BY <1>2
  <2>4. ASSUME NEW i \in 1 .. Len(B)
        PROVE  i \in 1 .. Len(A) \/ i = Len(A) + 1 \/ i = Len(A) + 2 \/ i = Len(A) + 3
    BY <2>1
  <2>5. QED
    BY <2>2, <2>3, <2>4
<1>5. z = 1 => B[1].entero = 0 /\ u = 0 /\ n + 1 = q + 1
  BY <1>1, <1>3 DEF Camino
<1>6. z = 0 => n + 1 > q + 1 /\ u \in {0, (n + 1) - (q + 1)}
  BY DEF Camino
<1>7. ASSUME NEW j \in 1 .. (q + 1)
      PROVE  /\ B[z + 3 * j - 2].entero # 0
             /\ B[z + 3 * j - 1].entero = B[z + 3 * j].largo
             /\ B[z + 3 * j].cuerpo.nro = (n + 1) - (q + 1) + j
             /\ j < q + 1 => B[z + 3 * j - 2].entero \in Previos
  <2>1. CASE j = q + 1
    <3>1. z + 3 * j - 2 = Len(A) + 1 /\ z + 3 * j - 1 = Len(A) + 2 /\ z + 3 * j = Len(A) + 3
          /\ (n + 1) - (q + 1) + j = n + 1 /\ ~(j < q + 1)
      BY <1>3, <2>1
    <3>2. B[z + 3 * j - 2].entero = tipo
      BY <1>2, <3>1
    <3>3. B[z + 3 * j - 1].entero = tam /\ B[z + 3 * j].largo = tam
      BY <1>2, <3>1
    <3>4. B[z + 3 * j].cuerpo.nro = n + 1
      BY <1>2, <3>1
    <3>5. QED
      BY <3>1, <3>2, <3>3, <3>4
  <2>2. CASE j \in 1 .. q
    <3>1. /\ z + 3 * j - 2 \in 1 .. Len(A) /\ z + 3 * j - 1 \in 1 .. Len(A)
          /\ z + 3 * j \in 1 .. Len(A) /\ (n + 1) - (q + 1) + j = n - q + j
      BY <1>3, <2>2
    <3>2. /\ B[z + 3 * j - 2] = A[z + 3 * j - 2] /\ B[z + 3 * j - 1] = A[z + 3 * j - 1]
          /\ B[z + 3 * j] = A[z + 3 * j]
      BY <1>1, <3>1
    <3>3. /\ A[z + 3 * j - 2].entero # 0
          /\ A[z + 3 * j - 1].entero = A[z + 3 * j].largo
          /\ A[z + 3 * j].cuerpo.nro = n - q + j
          /\ j < q => A[z + 3 * j - 2].entero \in Previos
      BY <2>2 DEF Camino
    <3>4. j = q => A[z + 3 * j - 2].entero \in Previos
      <4>1. q > 0 /\ z + 3 * q - 2 = Len(A) - 2
        BY <1>3, <2>2
      <4>2. QED
        BY <4>1
    <3>5. j < q \/ j = q
      BY <2>2
    <3>6. QED
      BY <3>1, <3>2, <3>3, <3>4, <3>5
  <2>3. QED
    BY <2>1, <2>2
<1>8. Camino(B, z, q + 1, n + 1, u, Previos)
  BY <1>3, <1>4, <1>5, <1>6, <1>7 DEF Camino
<1>9. B[Len(B) - 2].entero = tipo /\ B[Len(B)].cuerpo = que
  <2>1. Len(B) - 2 = Len(A) + 1 /\ Len(B) = Len(A) + 3
    BY <1>1, <1>3
  <2>2. QED
    BY <1>2, <2>1
<1>10. QED
  BY <1>8, <1>9 DEF B

(* The thread takes a packet of which it knows the type.                   *)
LEMMA CaminoRecibe ==
  ASSUME NEW A \in Seq(Trozos), NEW z \in {0, 1}, NEW q \in Nat, NEW n \in Nat, NEW u \in Nat,
         NEW Previos,
         Camino(A, z, q, n, u, Previos), HayPaquete(A), recvRemasterizado(A).tipo # 0
  PROVE  LET R == recvRemasterizado(A).resto IN
         /\ z = 0 /\ q > 0
         /\ recvRemasterizado(A).mensaje.nro = n - q + 1
         /\ q > 1 => /\ recvRemasterizado(A).tipo \in Previos
                     /\ R[Len(R) - 2] = A[Len(A) - 2] /\ R[Len(R)] = A[Len(A)]
         /\ q = 1 => /\ recvRemasterizado(A).tipo = A[Len(A) - 2].entero
                     /\ recvRemasterizado(A).mensaje = A[Len(A)].cuerpo
         /\ Camino(R, 0, q - 1, n, n - q + 1, Previos)
<1>1. Len(A) = z + 3 * q /\ Len(A) \in Nat /\ Len(A) >= 2
  BY DEF Camino, HayPaquete
<1>2. recvRemasterizado(A).tipo = A[1].entero
  BY DEF recvRemasterizado
<1>3. z = 0 /\ q > 0 /\ Len(A) = 3 * q /\ n > q
  <2>1. z # 1
    BY <1>2 DEF Camino
  <2>2. QED
    BY <1>1, <2>1 DEF Camino
<1>4. ASSUME NEW j \in 1 .. q
      PROVE  /\ A[3 * j - 2].entero # 0
             /\ A[3 * j - 1].entero = A[3 * j].largo
             /\ A[3 * j].cuerpo.nro = n - q + j
             /\ j < q => A[3 * j - 2].entero \in Previos
  <2>1. 0 + 3 * j - 2 = 3 * j - 2 /\ 0 + 3 * j - 1 = 3 * j - 1 /\ 0 + 3 * j = 3 * j
    OBVIOUS
  <2>2. /\ A[0 + 3 * j - 2].entero # 0
        /\ A[0 + 3 * j - 1].entero = A[0 + 3 * j].largo
        /\ A[0 + 3 * j].cuerpo.nro = n - q + j
        /\ j < q => A[0 + 3 * j - 2].entero \in Previos
    BY <1>3 DEF Camino
  <2>3. QED
    BY <2>1, <2>2
<1>5. /\ A[2].entero = A[3].largo /\ A[3].cuerpo.nro = n - q + 1
      /\ 1 < q => A[1].entero \in Previos
  <2>1. 1 \in 1 .. q /\ 3 * 1 - 2 = 1 /\ 3 * 1 - 1 = 2 /\ 3 * 1 = 3
    BY <1>3
  <2>2. QED
    BY <1>4, <2>1
<1>6. \A i \in 4 .. Len(A) : A[i].largo > 0
  BY <1>1 DEF Camino
<1>7. /\ recvRemasterizado(A).mensaje = A[3].cuerpo
      /\ recvRemasterizado(A).resto = SubSeq(A, 4, Len(A))
  <2>1. Len(A) >= 3
    BY <1>3
  <2>2. QED
    BY <1>5, <1>6, <2>1, PaqueteEntero
<1> DEFINE R == recvRemasterizado(A).resto
<1>8. /\ R \in Seq(Trozos) /\ Len(R) = 3 * (q - 1)
      /\ \A i \in 1 .. Len(R) : R[i] = A[i + 3]
  <2>1. /\ SubSeq(A, 4, Len(A)) \in Seq(Trozos)
        /\ Len(SubSeq(A, 4, Len(A))) = IF 4 <= Len(A) THEN Len(A) - 4 + 1 ELSE 0
        /\ \A i \in 1 .. Len(A) - 4 + 1 : SubSeq(A, 4, Len(A))[i] = A[4 + i - 1]
    BY Desde
  <2> DEFINE S == SubSeq(A, 4, Len(A))
  <2> HIDE DEF S
  <2>2. Len(S) = 3 * (q - 1)
    BY <1>3, <2>1 DEF S
  <2>3. ASSUME NEW i \in 1 .. Len(S)
        PROVE  S[i] = A[i + 3]
    <3>1. i \in 1 .. Len(A) - 4 + 1 /\ 4 + i - 1 = i + 3
      BY <1>3, <2>2
    <3>2. QED
      BY <2>1, <3>1 DEF S
  <2>4. QED
    BY <1>7, <2>1, <2>2, <2>3 DEF S
<1> HIDE DEF R
<1>9. ASSUME NEW j \in 1 .. q - 1
      PROVE  /\ R[3 * j - 2].entero # 0
             /\ R[3 * j - 1].entero = R[3 * j].largo
             /\ R[3 * j].cuerpo.nro = n - (q - 1) + j
             /\ j < q - 1 => R[3 * j - 2].entero \in Previos
  <2>1. /\ 3 * j - 2 \in 1 .. Len(R) /\ 3 * j - 1 \in 1 .. Len(R) /\ 3 * j \in 1 .. Len(R)
        /\ (3 * j - 2) + 3 = 3 * (j + 1) - 2 /\ (3 * j - 1) + 3 = 3 * (j + 1) - 1
        /\ 3 * j + 3 = 3 * (j + 1) /\ j + 1 \in 1 .. q /\ n - q + (j + 1) = n - (q - 1) + j
        /\ j < q - 1 => j + 1 < q
    <3>1. n \in Nat /\ q \in Nat /\ Len(R) = 3 * (q - 1) /\ j \in 1 .. q - 1
      BY <1>8
    <3>2. QED
      BY <3>1
  <2>2. /\ R[3 * j - 2] = A[3 * (j + 1) - 2] /\ R[3 * j - 1] = A[3 * (j + 1) - 1]
        /\ R[3 * j] = A[3 * (j + 1)]
    BY <1>8, <2>1
  <2>3. /\ A[3 * (j + 1) - 2].entero # 0
        /\ A[3 * (j + 1) - 1].entero = A[3 * (j + 1)].largo
        /\ A[3 * (j + 1)].cuerpo.nro = n - q + (j + 1)
        /\ j + 1 < q => A[3 * (j + 1) - 2].entero \in Previos
    BY <1>4, <2>1
  <2>4. QED
    BY <2>1, <2>2, <2>3
<1>10. Camino(R, 0, q - 1, n, n - q + 1, Previos)
  <2>1. ASSUME NEW j \in 1 .. q - 1
        PROVE  /\ R[0 + 3 * j - 2].entero # 0
               /\ R[0 + 3 * j - 1].entero = R[0 + 3 * j].largo
               /\ R[0 + 3 * j].cuerpo.nro = n - (q - 1) + j
               /\ j < q - 1 => R[0 + 3 * j - 2].entero \in Previos
    <3>1. 0 + 3 * j - 2 = 3 * j - 2 /\ 0 + 3 * j - 1 = 3 * j - 1 /\ 0 + 3 * j = 3 * j
      OBVIOUS
    <3>2. QED
      BY <1>9, <3>1
  <2>2. \A i \in 1 .. Len(R) : R[i].largo > 0
    <3>1. \A i \in 1 .. Len(R) : i + 3 \in 1 .. Len(A)
      BY <1>3, <1>8
    <3>2. QED
      BY <1>8, <3>1 DEF Camino
  <2>3. n > q - 1 /\ n - q + 1 \in {0, n - (q - 1)} /\ Len(R) = 0 + 3 * (q - 1)
    BY <1>3, <1>8
  <2>4. QED
    BY <2>1, <2>2, <2>3 DEF Camino
<1>11. q > 1 => R[Len(R) - 2] = A[Len(A) - 2] /\ R[Len(R)] = A[Len(A)]
  <2>1. q > 1 => /\ Len(R) - 2 \in 1 .. Len(R) /\ Len(R) \in 1 .. Len(R)
                 /\ (Len(R) - 2) + 3 = Len(A) - 2 /\ Len(R) + 3 = Len(A)
    BY <1>3, <1>8
  <2>2. QED
    BY <1>8, <2>1
<1>12. q = 1 => Len(A) - 2 = 1 /\ Len(A) = 3
  BY <1>3
<1>13. QED
  BY <1>2, <1>3, <1>5, <1>7, <1>10, <1>11, <1>12 DEF R

LEMMA EntreTres ==
  ASSUME NEW k \in Nat, k % 3 = 2
  PROVE  \E j \in Nat : k = 3 * j + 2
<1>1. k = 3 * (k \div 3) + 2 /\ k \div 3 \in Nat
  OBVIOUS
<1>2. QED
  BY <1>1

(* The thread takes the word of the greeting for a type: it loses its      *)
(* place, or goes on from the boundary of a later packet.                  *)
LEMMA CaminoFuera ==
  ASSUME NEW A \in Seq(Trozos), NEW z \in {0, 1}, NEW q \in Nat, NEW n \in Nat, NEW u \in Nat,
         NEW Previos,
         Camino(A, z, q, n, u, Previos), HayPaquete(A), recvRemasterizado(A).tipo = 0
  PROVE  LET R == recvRemasterizado(A).resto IN
         /\ z = 1 /\ q > 0
         /\ ~TerminaDentroDeOtro(A) =>
              \E r \in Nat :
                /\ Camino(R, 0, r, n, 0, Previos)
                /\ r > 0 => R[Len(R) - 2] = A[Len(A) - 2] /\ R[Len(R)] = A[Len(A)]
<1> DEFINE R == recvRemasterizado(A).resto
           despues == SubSeq(A, 3, Len(A))
           k == Recibidos(despues, A[2].entero)
<1>1. Len(A) = z + 3 * q /\ Len(A) \in Nat /\ Len(A) >= 2
  BY DEF Camino, HayPaquete
<1>2. recvRemasterizado(A).tipo = A[1].entero
  BY DEF recvRemasterizado
<1>3. z = 1 /\ q > 0 /\ Len(A) = 1 + 3 * q
  <2>1. z # 0
    <3>1. CASE q > 0 /\ z = 0
      <4>1. 1 \in 1 .. q /\ z + 3 * 1 - 2 = 1
        BY <3>1
      <4>2. A[1].entero # 0
        BY <4>1 DEF Camino
      <4>3. QED
        BY <1>2, <4>2
    <3>2. q > 0 \/ z # 0
      BY <1>1
    <3>3. QED
      BY <3>1, <3>2
  <2>2. QED
    BY <1>1, <2>1
<1>4. n = q /\ u = 0
  BY <1>3 DEF Camino
<1>5. /\ despues \in Seq(Trozos) /\ Len(despues) = 3 * q - 1 /\ Len(despues) \in Nat
      /\ \A i \in 1 .. Len(despues) : despues[i] = A[i + 2]
  <2>1. /\ despues \in Seq(Trozos)
        /\ Len(despues) = IF 3 <= Len(A) THEN Len(A) - 3 + 1 ELSE 0
        /\ \A i \in 1 .. Len(A) - 3 + 1 : despues[i] = A[3 + i - 1]
    BY Desde
  <2> HIDE DEF despues
  <2>2. Len(despues) = 3 * q - 1 /\ Len(despues) \in Nat
    BY <1>3, <2>1
  <2>3. ASSUME NEW i \in 1 .. Len(despues)
        PROVE  despues[i] = A[i + 2]
    <3>1. i \in 1 .. Len(A) - 3 + 1 /\ 3 + i - 1 = i + 2
      BY <1>3, <2>2
    <3>2. QED
      BY <2>1, <3>1
  <2>4. QED
    BY <2>1, <2>2, <2>3
<1>6. k \in 0 .. Len(despues)
  <2> HIDE DEF despues
  <2>1. QED
    BY <1>5, CuantosRecibidos
<1>7. recvRemasterizado(A).resto = SubSeq(despues, k + 1, Len(despues))
  BY DEF recvRemasterizado
<1>8. TerminaDentroDeOtro(A) <=>
        k < Len(despues) /\ ~(k % 3 = 2 /\ LargoHasta(despues)[k] = A[2].entero)
  BY DEF TerminaDentroDeOtro
<1> HIDE DEF despues, k, R
<1>9. ASSUME ~TerminaDentroDeOtro(A)
      PROVE  \E r \in Nat :
                /\ Camino(R, 0, r, n, 0, Previos)
                /\ r > 0 => R[Len(R) - 2] = A[Len(A) - 2] /\ R[Len(R)] = A[Len(A)]
  <2>1. PICK j \in Nat : k = 3 * j + 2 /\ j < q
    <3>1. CASE k = Len(despues)
      <4>1. q - 1 \in Nat /\ k = 3 * (q - 1) + 2 /\ q - 1 < q
        BY <1>3, <1>5, <3>1
      <4>2. QED
        BY <4>1
    <3>2. CASE k < Len(despues) /\ k % 3 = 2
      <4>1. PICK j \in Nat : k = 3 * j + 2
        BY <1>5, <1>6, <3>2, EntreTres
      <4>2. j < q
        BY <1>5, <3>2, <4>1
      <4>3. QED
        BY <4>1, <4>2
    <3>3. k = Len(despues) \/ k < Len(despues)
      BY <1>5, <1>6
    <3>4. QED
      BY <1>8, <1>9, <3>1, <3>2, <3>3
  <2> DEFINE r == q - j - 1
  <2>2. r \in Nat /\ k + 3 * r + 1 = 3 * q /\ k \in Nat /\ n - r = j + 1
    BY <1>4, <2>1
  <2>3. /\ R \in Seq(Trozos) /\ Len(R) = 3 * r
        /\ \A i \in 1 .. Len(R) : R[i] = A[i + k + 2]
    <3>1. k + 1 \in Nat \ {0}
      BY <2>2
    <3> DEFINE S == SubSeq(despues, k + 1, Len(despues))
    <3>2. /\ S \in Seq(Trozos)
          /\ Len(S) = IF k + 1 <= Len(despues) THEN Len(despues) - (k + 1) + 1 ELSE 0
          /\ \A i \in 1 .. Len(despues) - (k + 1) + 1 : S[i] = despues[(k + 1) + i - 1]
      <4> DEFINE m == k + 1
      <4>1. m \in Nat \ {0} /\ despues \in Seq(Trozos)
        BY <1>5, <3>1
      <4> HIDE DEF m
      <4>2. /\ SubSeq(despues, m, Len(despues)) \in Seq(Trozos)
            /\ Len(SubSeq(despues, m, Len(despues)))
                 = IF m <= Len(despues) THEN Len(despues) - m + 1 ELSE 0
            /\ \A i \in 1 .. Len(despues) - m + 1 :
                 SubSeq(despues, m, Len(despues))[i] = despues[m + i - 1]
        BY <4>1, Desde
      <4>3. QED
        BY <4>2 DEF m
    <3> HIDE DEF S
    <3>3. Len(S) = 3 * r
      BY <1>5, <2>2, <3>2
    <3>4. ASSUME NEW i \in 1 .. Len(S)
          PROVE  S[i] = A[i + k + 2]
      <4>1. /\ i \in 1 .. Len(despues) - (k + 1) + 1 /\ (k + 1) + i - 1 \in 1 .. Len(despues)
            /\ ((k + 1) + i - 1) + 2 = i + k + 2
        BY <1>5, <2>2, <3>3
      <4>2. QED
        BY <1>5, <3>2, <4>1
    <3>5. QED
      BY <1>7, <3>2, <3>3, <3>4 DEF S, R
  <2>4. ASSUME NEW t \in 1 .. r
        PROVE  /\ R[0 + 3 * t - 2].entero # 0
               /\ R[0 + 3 * t - 1].entero = R[0 + 3 * t].largo
               /\ R[0 + 3 * t].cuerpo.nro = n - r + t
               /\ t < r => R[0 + 3 * t - 2].entero \in Previos
    <3> DEFINE v == t + j + 1
    <3>1. /\ 0 + 3 * t - 2 \in 1 .. Len(R) /\ 0 + 3 * t - 1 \in 1 .. Len(R)
          /\ 0 + 3 * t \in 1 .. Len(R)
          /\ (0 + 3 * t - 2) + k + 2 = 1 + 3 * v - 2
          /\ (0 + 3 * t - 1) + k + 2 = 1 + 3 * v - 1
          /\ (0 + 3 * t) + k + 2 = 1 + 3 * v
      <4>1. /\ k = 3 * j + 2 /\ j \in Nat /\ Len(R) = 3 * r /\ t \in 1 .. r /\ r \in Nat
        BY <2>1, <2>2, <2>3
      <4> HIDE DEF r
      <4>2. /\ 0 + 3 * t - 2 \in 1 .. Len(R) /\ 0 + 3 * t - 1 \in 1 .. Len(R)
            /\ 0 + 3 * t \in 1 .. Len(R)
        BY <4>1
      <4>3. /\ (0 + 3 * t - 2) + k + 2 = 1 + 3 * v - 2
            /\ (0 + 3 * t - 1) + k + 2 = 1 + 3 * v - 1
            /\ (0 + 3 * t) + k + 2 = 1 + 3 * v
        BY <4>1
      <4>4. QED
        BY <4>2, <4>3
    <3>2. v \in 1 .. q /\ n - q + v = n - r + t /\ (t < r => v < q)
      BY <1>4, <2>1, <2>2
    <3> HIDE DEF v
    <3>3. /\ R[0 + 3 * t - 2] = A[1 + 3 * v - 2] /\ R[0 + 3 * t - 1] = A[1 + 3 * v - 1]
          /\ R[0 + 3 * t] = A[1 + 3 * v]
      BY <2>3, <3>1
    <3>4. /\ A[1 + 3 * v - 2].entero # 0
          /\ A[1 + 3 * v - 1].entero = A[1 + 3 * v].largo
          /\ A[1 + 3 * v].cuerpo.nro = n - q + v
          /\ v < q => A[1 + 3 * v - 2].entero \in Previos
      BY <1>3, <3>2 DEF Camino
    <3>5. QED
      BY <3>2, <3>3, <3>4
  <2>5. \A i \in 1 .. Len(R) : R[i].largo > 0
    <3>1. \A i \in 1 .. Len(R) : i + k + 2 \in 1 .. Len(A)
      BY <1>3, <2>2, <2>3
    <3>2. QED
      BY <2>3, <3>1 DEF Camino
  <2>6. n > r /\ Len(R) = 0 + 3 * r
    BY <1>4, <2>1, <2>2, <2>3
  <2>7. Camino(R, 0, r, n, 0, Previos)
    BY <2>4, <2>5, <2>6 DEF Camino
  <2>8. r > 0 => R[Len(R) - 2] = A[Len(A) - 2] /\ R[Len(R)] = A[Len(A)]
    <3>1. r > 0 => /\ Len(R) - 2 \in 1 .. Len(R) /\ Len(R) \in 1 .. Len(R)
                   /\ (Len(R) - 2) + k + 2 = Len(A) - 2 /\ Len(R) + k + 2 = Len(A)
      BY <1>3, <2>2, <2>3
    <3>2. QED
      BY <2>3, <3>1
  <2>9. QED
    BY <2>2, <2>7, <2>8
<1>10. QED
  BY <1>3, <1>9 DEF R

(* The last packet says what its CPU is doing.                             *)
EntreLineas == {"ejecutando", "pidiendoLinea", "conLinea"}
Esperas == {"esperaPaquete", "esperaNotificacion"}

EsDeSuModo(c, tipo, clave) ==
  /\ cpu[c].modo \in EntreLineas \cup Esperas \cup {"libre", "muerta"}
  /\ cpu[c].modo \in EntreLineas => tipo = SIGNAL_SEMAFORO
  /\ cpu[c].modo = "libre" => tipo \in TiposDeVuelta
  /\ cpu[c].modo \in Esperas => tipo = Tipo(cpu[c].op) /\ clave = cpu[c].clave

UltimoDe(c, A) == EsDeSuModo(c, A[Len(A) - 2].entero, A[Len(A)].cuerpo.clave)

Senales == {SIGNAL_SEMAFORO}

EnCamino(c, z, q) ==
  /\ Camino(aKernel[c], z, q, cpu[c].nro, ultimo[c], Senales)
  /\ q > 0 => UltimoDe(c, aKernel[c])

(* What the CPU has to read, and what its thread does meanwhile: nobody    *)
(* answers twice, or what was not asked.                                   *)
Cfg == sendRemasterizado(<< >>, HANDSHAKE_CPU, TAMANIO_CONFIG, Vacio)
ConPCB(flujo) == sendRemasterizado(flujo, MENSAJE_PCB, TAMANIO_PCB, Vacio)
ConValor(x) == sendRemasterizado(<< >>, DATOS_VARIABLE_COMPARTIDA_KERNEL, 4,
                                 [Vacio EXCEPT !.valor = x])
SinValor == sendRemasterizado(<< >>, OPERACION_VARIABLE_COMPARTIDA_FALLIDA, 0, Vacio)

Respuesta(c) ==
  \/ /\ cpu[c].op \in OperacionesDeVariable
     /\ aCPU[c] = SinValor \/ \E x \in vistos[c] : aCPU[c] = ConValor(x)
  \/ /\ cpu[c].op \in {"abrir", "cerrar"}
     /\ \E n \in {OPERACION_CON_ARCHIVO_EXITOSA, OPERACION_FALLIDA} :
          aCPU[c] = sendDeNotificacion(<< >>, n)

Saludando(c, q) ==
  /\ q = 0
  /\ \/ /\ cpu[c].modo = "saludando"
        /\ \/ hilo[c].paso = "buscando" /\ aCPU[c] = Cfg
           \/ hilo[c].paso = "escuchando" /\ aCPU[c] = ConPCB(Cfg)
     \/ /\ cpu[c].modo = "saludandoMemoria"
        /\ \/ hilo[c].paso = "buscando" /\ aCPU[c] = << >>
           \/ hilo[c].paso = "escuchando" /\ aCPU[c] = ConPCB(<< >>)

Libre(c, q) ==
  /\ cpu[c].modo = "libre"
  /\ \/ hilo[c].paso = "buscando" /\ q = 0 /\ aCPU[c] = << >>
     \/ hilo[c].paso = "escuchando" /\ q = 0 /\ aCPU[c] = ConPCB(<< >>)
     \/ hilo[c].paso = "escuchando" /\ aCPU[c] = << >>

Ejecutando(c) ==
  cpu[c].modo \in EntreLineas /\ hilo[c].paso = "escuchando" /\ aCPU[c] = << >>

Asignando(c) ==
  /\ hilo[c].paso = "asignando" /\ aCPU[c] = << >> /\ cpu[c].op = "asignar"
  /\ hilo[c].clave = cpu[c].clave /\ valor[cpu[c].clave] \in vistos[c]

Abriendo(c) ==
  hilo[c].paso \in {"validando", "creando"} /\ aCPU[c] = << >> /\ cpu[c].op = "abrir"

Esperando(c, q) ==
  /\ cpu[c].modo \in Esperas
  /\ \/ hilo[c].paso = "escuchando" /\ aCPU[c] = << >>
     \/ hilo[c].paso = "escuchando" /\ q = 0 /\ Respuesta(c)
     \/ q = 0 /\ Asignando(c)
     \/ q = 0 /\ Abriendo(c)

Vuelta(c, q) ==
  Saludando(c, q) \/ Libre(c, q) \/ Ejecutando(c) \/ Esperando(c, q) \/ cpu[c].modo = "muerta"

EnEspera(c) ==
  /\ cpu[c].modo = "esperaPaquete" <=>
       cpu[c].op \in OperacionesDeVariable \cup {"abrir", "leerArchivo"}
  /\ cpu[c].modo = "esperaNotificacion" <=> cpu[c].op \in {"borrar", "cerrar", "mover", "escribir"}
  /\ cpu[c].op = "leer" /\ cpu[c].clave \in SHARED_VARS => valor[cpu[c].clave] \in vistos[c]

SinHiloAun(c) ==
  /\ hilo[c].paso = "ninguno"
  /\ cpu[c].nro = 0 /\ ultimo[c] = 0
  /\ \/ cpu[c].modo = "afuera" /\ aKernel[c] = << >>
     \/ /\ c \in porAceptar \cup socketsCliente
        /\ aKernel[c] = sendRemasterizado(<< >>, CPU, 0, Vacio)

(* A thread that lost its place answers nobody.                            *)
Perdido(c) ==
  /\ hilo[c].paso = "perdido"
  /\ \/ cpu[c].modo \in EntreLineas \cup Esperas \cup {"libre"} /\ aCPU[c] = << >>
     \/ cpu[c].modo = "muerta"

EnMarcha(c) ==
  /\ hilo[c].paso \notin {"ninguno", "perdido"}
  /\ \E z \in {0, 1}, q \in Nat : EnCamino(c, z, q) /\ Vuelta(c, q)

EnCompas(c) == EnEspera(c) /\ (SinHiloAun(c) \/ Perdido(c) \/ EnMarcha(c))

(* Of a CPU that closed a turn twice only the order of its packets is      *)
(* known.                                                                  *)
Descompasada(c) ==
  /\ EnEspera(c)
  /\ cpu[c].modo \in {"repite", "destiempo", "muerta"}
  /\ hilo[c].paso # "ninguno"
  /\ hilo[c].paso # "perdido" =>
       \E z \in {0, 1}, q \in Nat : Camino(aKernel[c], z, q, cpu[c].nro, ultimo[c], Int)

Conversa(c) == EnCompas(c) \/ Descompasada(c)

ConversacionInv == VidaInv /\ \A c \in CPUs : Conversa(c)

LEMMA ConversacionInicial == InitPeticiones => ConversacionInv
<1> SUFFICES ASSUME InitPeticiones, NEW c \in CPUs
             PROVE  EnCompas(c)
  BY VidaInicial DEF ConversacionInv, Conversa
<1>1. SinHiloAun(c)
  BY DEF InitPeticiones, Init, SinHiloAun, SinHilo, Clientes
<1>2. EnEspera(c)
  BY DEF InitPeticiones, Init, EnEspera, OperacionesDeVariable, Clientes
<1>3. QED
  BY <1>1, <1>2 DEF EnCompas

(* The state of the CPU and of its thread, with their types.               *)
LEMMA TiposDeUna ==
  ASSUME FormaInv, NEW c \in CPUs
  PROVE  /\ c \in Clientes /\ c # KERNEL
         /\ aKernel[c] \in Seq(Trozos) /\ aCPU[c] \in Seq(Trozos)
         /\ cpu[c] \in EstadosCPU /\ hilo[c] \in EstadosHilo
         /\ cpu[c].nro \in Nat /\ ultimo[c] \in Nat
         /\ vistos[c] \in SUBSET Valores
<1>1. MaxMensajes \in Nat
  BY PeticionesAssumption
<1>2. cpu[c] \in EstadosCPU /\ ultimo[c] \in 0 .. MaxMensajes /\ c \in Clientes /\ c # KERNEL
  BY ClientesAssumption DEF FormaInv, TypeOK, CompartidoOK, Clientes
<1>3. cpu[c].nro \in 0 .. MaxMensajes
  BY <1>2 DEF EstadosCPU
<1>4. QED
  BY <1>1, <1>2, <1>3 DEF FormaInv, TypeOK, CompartidoOK, FlujosOK

(* What others do does not disturb the conversation.                       *)
LEMMA ConversaQuieta ==
  ASSUME ConversacionInv, NEW c \in CPUs, Quieta(c)
  PROVE  /\ EnCompas(c) => EnCompas(c)'
         /\ Descompasada(c) => Descompasada(c)'
<1>0. /\ Conversa(c) /\ SigueViendo(c)
      /\ cpu'[c] = cpu[c] /\ hilo'[c] = hilo[c] /\ aKernel'[c] = aKernel[c] /\ aCPU'[c] = aCPU[c]
      /\ ultimo'[c] = ultimo[c] /\ (c \in porAceptar' <=> c \in porAceptar)
      /\ (c \in socketsCliente' <=> c \in socketsCliente)
      /\ hilo[c] \in EstadosHilo /\ FormaInv
  BY TiposDeUna DEF ConversacionInv, VidaInv, Quieta
<1>1. ASSUME cpu[c].clave \in SHARED_VARS, valor[cpu[c].clave] \in vistos[c]
      PROVE  valor'[cpu[c].clave] \in vistos'[c]
  BY <1>0, <1>1 DEF SigueViendo
<1>2. EnEspera(c)'
  BY <1>0, <1>1 DEF Conversa, EnCompas, Descompasada, EnEspera
<1>3. ASSUME SinHiloAun(c)
      PROVE  EnCompas(c)'
  BY <1>0, <1>2, <1>3 DEF EnCompas, SinHiloAun
<1>4. ASSUME Perdido(c)
      PROVE  EnCompas(c)'
  BY <1>0, <1>2, <1>4 DEF EnCompas, Perdido
<1>5. ASSUME EnMarcha(c)
      PROVE  EnCompas(c)'
  <2>1. PICK z \in {0, 1}, q \in Nat : EnCamino(c, z, q) /\ Vuelta(c, q)
    BY <1>5 DEF EnMarcha
  <2>2. EnCamino(c, z, q)'
    BY <1>0, <2>1 DEF EnCamino, UltimoDe, EsDeSuModo
  <2>3. Respuesta(c) => Respuesta(c)'
    <3>1. vistos[c] \subseteq vistos'[c]
      BY <1>0 DEF SigueViendo
    <3>2. QED
      BY <1>0, <3>1 DEF Respuesta
  <2>4. Asignando(c) => Asignando(c)'
    <3>1. Asignando(c) => cpu[c].clave \in SHARED_VARS
      BY <1>0 DEF Asignando, EstadosHilo
    <3>2. QED
      BY <1>0, <1>1, <3>1 DEF Asignando
  <2>5. Saludando(c, q) => Saludando(c, q)'
    BY <1>0 DEF Saludando
  <2>6. Libre(c, q) => Libre(c, q)'
    BY <1>0 DEF Libre
  <2>7. Ejecutando(c) => Ejecutando(c)'
    BY <1>0 DEF Ejecutando
  <2>8. Esperando(c, q) => Esperando(c, q)'
    BY <1>0, <2>3, <2>4 DEF Esperando, Abriendo
  <2>9. Vuelta(c, q)'
    BY <1>0, <2>1, <2>5, <2>6, <2>7, <2>8 DEF Vuelta
  <2>10. QED
    BY <1>0, <1>2, <1>5, <2>2, <2>9 DEF EnCompas, EnMarcha
<1>6. Descompasada(c) => Descompasada(c)'
  BY <1>0, <1>2 DEF Descompasada
<1>7. QED
  BY <1>3, <1>4, <1>5, <1>6 DEF EnCompas

(* A reader finds whole what was sent to an empty stream, and what was     *)
(* sent after it stays.                                                    *)
LEMMA UnPaqueteSolo ==
  ASSUME NEW tipo \in Int, NEW tam \in Nat, tam # 0, NEW que \in Cuerpos
  PROVE  LET F == sendRemasterizado(<< >>, tipo, tam, que) IN
         /\ F \in Seq(Trozos) /\ Len(F) = 3 /\ F # << >>
         /\ F[1] = Entero(tipo) /\ F[2] = Entero(tam) /\ F[3] = Bulto(tam, que)
         /\ recvRemasterizado(F).tipo = tipo
         /\ recvRemasterizado(F).mensaje = que
         /\ recvRemasterizado(F).resto = << >>
<1> DEFINE F == sendRemasterizado(<< >>, tipo, tam, que)
<1>1. << >> \in Seq(Trozos) /\ Len(<< >>) = 0
  BY EmptySeq
<1>2. /\ F \in Seq(Trozos) /\ Len(F) = 3
      /\ F[1] = Entero(tipo) /\ F[2] = Entero(tam) /\ F[3] = Bulto(tam, que)
  <2>1. MasUnPaquete(F, << >>, tipo, tam, que)
    BY <1>1, LoEnviadoEs
  <2> HIDE DEF F
  <2>2. QED
    BY <1>1, <2>1 DEF MasUnPaquete
<1> HIDE DEF F
<1>3. /\ F[1].entero = tipo /\ F[2].entero = tam /\ F[3].largo = tam /\ F[3].cuerpo = que
  BY <1>2 DEF Entero, Bulto
<1>4. /\ recvRemasterizado(F).tipo = F[1].entero
      /\ recvRemasterizado(F).mensaje = F[3].cuerpo
      /\ recvRemasterizado(F).resto = SubSeq(F, 4, Len(F))
  <2>1. Len(F) >= 3 /\ F[2].entero = F[3].largo /\ \A i \in 4 .. Len(F) : F[i].largo > 0
    BY <1>2, <1>3
  <2>2. QED
    BY <1>2, <2>1, PaqueteEntero
<1>5. SubSeq(F, 4, Len(F)) = << >>
  BY <1>2, SubSeqEmpty
<1>6. F # << >>
  BY <1>1, <1>2
<1>7. QED
  BY <1>2, <1>3, <1>4, <1>5, <1>6 DEF F

(* The same, to be cited as one fact.                                      *)
EsPaquete(F, tipo, tam, que) ==
  /\ F \in Seq(Trozos) /\ Len(F) = 3
  /\ F[1] = Entero(tipo) /\ F[2] = Entero(tam) /\ F[3] = Bulto(tam, que)

LEMMA EsUnPaqueteSolo ==
  ASSUME NEW tipo \in Int, NEW tam \in Nat, tam # 0, NEW que \in Cuerpos
  PROVE  EsPaquete(sendRemasterizado(<< >>, tipo, tam, que), tipo, tam, que)
BY UnPaqueteSolo DEF EsPaquete

LEMMA PaqueteYOtro ==
  ASSUME NEW tipo \in Int, NEW tam \in Nat, tam # 0, NEW que \in Cuerpos,
         NEW tipo2 \in Int, NEW tam2 \in Nat, tam2 # 0, NEW que2 \in Cuerpos
  PROVE  LET F == sendRemasterizado(<< >>, tipo, tam, que)
             G == sendRemasterizado(F, tipo2, tam2, que2) IN
         /\ recvRemasterizado(G).tipo = tipo
         /\ recvRemasterizado(G).resto = sendRemasterizado(<< >>, tipo2, tam2, que2)
<1> DEFINE F == sendRemasterizado(<< >>, tipo, tam, que)
           G == sendRemasterizado(F, tipo2, tam2, que2)
           H == sendRemasterizado(<< >>, tipo2, tam2, que2)
<1>1. /\ F \in Seq(Trozos) /\ Len(F) = 3
      /\ F[1] = Entero(tipo) /\ F[2] = Entero(tam) /\ F[3] = Bulto(tam, que)
  <2>1. EsPaquete(F, tipo, tam, que)
    BY EsUnPaqueteSolo
  <2> HIDE DEF F
  <2>2. QED
    BY <2>1 DEF EsPaquete
<1>2. /\ H \in Seq(Trozos) /\ Len(H) = 3
      /\ H[1] = Entero(tipo2) /\ H[2] = Entero(tam2) /\ H[3] = Bulto(tam2, que2)
  <2>1. EsPaquete(H, tipo2, tam2, que2)
    BY EsUnPaqueteSolo
  <2> HIDE DEF H
  <2>2. QED
    BY <2>1 DEF EsPaquete
<1> HIDE DEF F, H
<1>3. /\ G \in Seq(Trozos) /\ Len(G) = 6
      /\ G[1] = F[1] /\ G[2] = F[2] /\ G[3] = F[3]
      /\ G[4] = Entero(tipo2) /\ G[5] = Entero(tam2) /\ G[6] = Bulto(tam2, que2)
  <2>1. MasUnPaquete(G, F, tipo2, tam2, que2)
    BY <1>1, LoEnviadoEs
  <2> HIDE DEF G
  <2>2. QED
    BY <1>1, <2>1 DEF MasUnPaquete
<1> HIDE DEF G
<1>4. /\ G[1].entero = tipo /\ G[2].entero = G[3].largo
      /\ G[4].largo > 0 /\ G[5].largo > 0 /\ G[6].largo > 0
  BY <1>1, <1>3 DEF Entero, Bulto
<1>5. /\ recvRemasterizado(G).tipo = G[1].entero
      /\ recvRemasterizado(G).resto = SubSeq(G, 4, Len(G))
  <2>1. Len(G) >= 3 /\ G[2].entero = G[3].largo /\ \A i \in 4 .. Len(G) : G[i].largo > 0
    BY <1>3, <1>4
  <2>2. QED
    BY <1>3, <2>1, PaqueteEntero
<1>6. SubSeq(G, 4, Len(G)) = H
  <2> DEFINE S == SubSeq(G, 4, Len(G))
  <2>1. /\ S \in Seq(Trozos)
        /\ Len(S) = IF 4 <= Len(G) THEN Len(G) - 4 + 1 ELSE 0
        /\ \A i \in 1 .. Len(G) - 4 + 1 : S[i] = G[4 + i - 1]
    <3>1. G \in Seq(Trozos) /\ 4 \in Nat \ {0}
      BY <1>3
    <3>2. QED
      BY <3>1, Desde
  <2> HIDE DEF S
  <2>2. Len(S) = 3 /\ S[1] = G[4] /\ S[2] = G[5] /\ S[3] = G[6]
    BY <1>3, <2>1
  <2>3. \A i \in 1 .. Len(S) : S[i] = H[i]
    BY <1>2, <1>3, <2>2
  <2>4. S = H
    BY <1>2, <2>1, <2>2, <2>3, SeqEqual
  <2>5. QED
    BY <2>4 DEF S
<1>7. QED
  BY <1>4, <1>5, <1>6 DEF F, G, H

LEMMA UnPaqueteVacio ==
  ASSUME NEW tipo \in Int
  PROVE  LET F == sendRemasterizado(<< >>, tipo, 0, Vacio) IN
         /\ F \in Seq(Trozos) /\ Len(F) = 2 /\ F # << >>
         /\ F[1] = Entero(tipo) /\ F[2] = Entero(0)
         /\ recvRemasterizado(F).tipo = tipo
         /\ recvRemasterizado(F).resto = << >>
<1> DEFINE F == sendRemasterizado(<< >>, tipo, 0, Vacio)
<1>1. << >> \in Seq(Trozos) /\ Len(<< >>) = 0 /\ 0 \in Nat /\ Vacio \in Cuerpos
  BY EmptySeq, VacioEsCuerpo
<1>2. F \in Seq(Trozos) /\ Len(F) = 2 /\ F[1] = Entero(tipo) /\ F[2] = Entero(0)
  <2>1. F \in Seq(Trozos) /\ Len(F) = Len(<< >>) + 2
    BY <1>1, LoEnviado
  <2>2. F[Len(<< >>) + 1] = Entero(tipo)
    BY <1>1, LoEnviado, ZenonT(60)
  <2>2a. F[Len(<< >>) + 2] = Entero(0)
    BY <1>1, LoEnviado, ZenonT(60)
  <2> HIDE DEF F
  <2>3. QED
    BY <1>1, <2>1, <2>2, <2>2a
<1> HIDE DEF F
<1>3. F[1].entero = tipo /\ F[2].entero = 0 /\ F # << >>
  <2>1. F[1].entero = tipo /\ F[2].entero = 0
    BY <1>2 DEF Entero
  <2>2. F # << >>
    BY <1>1, <1>2
  <2>3. QED
    BY <2>1, <2>2
<1>4. recvRemasterizado(F).tipo = F[1].entero /\ recvRemasterizado(F).resto = << >>
  BY <1>2, <1>3, PaqueteSinCuerpo
<1>5. QED
  BY <1>2, <1>3, <1>4 DEF F

LEMMA UnaPalabraSola ==
  ASSUME NEW n \in Int
  PROVE  LET F == sendDeNotificacion(<< >>, n) IN
         /\ F \in Seq(Trozos) /\ Len(F) = 1 /\ F # << >>
         /\ recvDeNotificacion(F).notificacion = n
         /\ recvDeNotificacion(F).resto = << >>
<1> DEFINE F == sendDeNotificacion(<< >>, n)
<1>1. << >> \in Seq(Trozos) /\ Len(<< >>) = 0
  BY EmptySeq
<1>2. F \in Seq(Trozos) /\ Len(F) = 1 /\ F[1] = Entero(n)
  <2>1. F \in Seq(Trozos) /\ Len(F) = Len(<< >>) + 1 /\ F[Len(<< >>) + 1] = Entero(n)
    BY <1>1, LoNotificado
  <2> HIDE DEF F
  <2>2. QED
    BY <1>1, <2>1
<1> HIDE DEF F
<1>3. F # << >>
  BY <1>1, <1>2
<1>4. /\ recvDeNotificacion(F).notificacion = F[1].entero
      /\ recvDeNotificacion(F).resto \in Seq(Trozos)
      /\ Len(recvDeNotificacion(F).resto) = Len(F) - 1
  BY <1>2, <1>3, UnaPalabra
<1>5. recvDeNotificacion(F).resto = << >>
  BY <1>2, <1>4, EmptySeq
<1>6. F[1].entero = n
  BY <1>2 DEF Entero
<1>7. QED
  BY <1>2, <1>3, <1>4, <1>5, <1>6 DEF F

(* What a CPU sends and receives of a fixed form.                          *)
LEMMA FlujosFijos ==
  /\ Cfg \in Seq(Trozos) /\ Cfg # << >>
  /\ recvRemasterizado(Cfg).tipo = HANDSHAKE_CPU /\ recvRemasterizado(Cfg).resto = << >>
  /\ ConPCB(<< >>) # << >> /\ recvRemasterizado(ConPCB(<< >>)).resto = << >>
  /\ recvRemasterizado(ConPCB(Cfg)).tipo = HANDSHAKE_CPU
  /\ recvRemasterizado(ConPCB(Cfg)).resto = ConPCB(<< >>)
<1>1. /\ HANDSHAKE_CPU \in Int /\ TAMANIO_CONFIG \in Nat /\ TAMANIO_CONFIG # 0
      /\ MENSAJE_PCB \in Int /\ TAMANIO_PCB \in Nat /\ TAMANIO_PCB # 0
  BY DEF HANDSHAKE_CPU, TAMANIO_CONFIG, MENSAJE_PCB, TAMANIO_PCB
<1>2. Cfg \in Seq(Trozos) /\ Cfg # << >>
  BY <1>1, VacioEsCuerpo, UnPaqueteSolo DEF Cfg
<1>3. recvRemasterizado(Cfg).tipo = HANDSHAKE_CPU /\ recvRemasterizado(Cfg).resto = << >>
  BY <1>1, VacioEsCuerpo, UnPaqueteSolo DEF Cfg
<1>4. ConPCB(<< >>) # << >> /\ recvRemasterizado(ConPCB(<< >>)).resto = << >>
  BY <1>1, VacioEsCuerpo, UnPaqueteSolo DEF ConPCB
<1>5. /\ recvRemasterizado(ConPCB(Cfg)).tipo = HANDSHAKE_CPU
      /\ recvRemasterizado(ConPCB(Cfg)).resto = ConPCB(<< >>)
  BY <1>1, VacioEsCuerpo, PaqueteYOtro DEF ConPCB, Cfg
<1>6. QED
  BY <1>2, <1>3, <1>4, <1>5

LEMMA LoQueTrae ==
  ASSUME NEW x \in Valores
  PROVE  /\ ConValor(x) # << >>
         /\ recvRemasterizado(ConValor(x)).tipo = DATOS_VARIABLE_COMPARTIDA_KERNEL
         /\ recvRemasterizado(ConValor(x)).mensaje.valor = x
         /\ recvRemasterizado(ConValor(x)).resto = << >>
<1> DEFINE que == [Vacio EXCEPT !.valor = x]
<1>1. que \in Cuerpos /\ que.valor = x
  BY VacioEsCuerpo DEF Cuerpos, Vacio
<1>2. DATOS_VARIABLE_COMPARTIDA_KERNEL \in Int /\ 4 \in Nat /\ 4 # 0
  BY DEF DATOS_VARIABLE_COMPARTIDA_KERNEL
<1>3. ConValor(x) = sendRemasterizado(<< >>, DATOS_VARIABLE_COMPARTIDA_KERNEL, 4, que)
  BY DEF ConValor
<1> HIDE DEF que
<1>4. QED
  BY <1>1, <1>2, <1>3, UnPaqueteSolo

LEMMA HayAlgo ==
  ASSUME NEW flujo, HayPaquete(flujo)
  PROVE  flujo # << >>
  BY EmptySeq DEF HayPaquete

LEMMA EnEsperaSigue ==
  ASSUME NEW c, EnEspera(c), cpu'[c].op = cpu[c].op, cpu'[c].clave = cpu[c].clave,
         cpu[c].modo \notin Esperas, cpu'[c].modo \notin Esperas
  PROVE  EnEspera(c)'
  BY DEF EnEspera, Esperas, OperacionesDeVariable

LEMMA CaminoSigue ==
  ASSUME NEW c, NEW z, NEW q \in Nat, EnCamino(c, z, q), aKernel'[c] = aKernel[c],
         ultimo'[c] = ultimo[c], cpu'[c].nro = cpu[c].nro,
         q = 0 \/ (cpu[c].modo \in EntreLineas /\ cpu'[c].modo \in EntreLineas)
               \/ cpu'[c].modo = "muerta"
  PROVE  EnCamino(c, z, q)'
<1>1. q > 0 /\ UltimoDe(c, aKernel[c]) => UltimoDe(c, aKernel[c])'
  BY DEF UltimoDe, EsDeSuModo, EntreLineas, Esperas
<1>2. QED
  BY <1>1 DEF EnCamino

(* While a CPU greets, its thread has sent it what it needs in order.      *)
LEMMA ConversaSuyo ==
  ASSUME ConversacionInv, NEW c \in CPUs, EnCompas(c), Suyo(c), UNCHANGED peticiones
  PROVE  EnCompas(c)'
<1>0. /\ EnCompas(c) /\ SinSaludar(c) /\ FormaInv /\ EnEspera(c)
      /\ ultimo'[c] = ultimo[c]
  BY DEF ConversacionInv, VidaInv, SaludosInv, peticiones, EnCompas
<1>1. /\ c \in Clientes /\ c # KERNEL
      /\ aKernel[c] \in Seq(Trozos) /\ aCPU[c] \in Seq(Trozos)
      /\ cpu[c] \in EstadosCPU /\ hilo[c] \in EstadosHilo
      /\ cpu[c].nro \in Nat /\ ultimo[c] \in Nat
      /\ cpu \in [Clientes -> EstadosCPU] /\ hilo \in [Clientes -> EstadosHilo]
      /\ aKernel \in [Clientes -> Seq(Trozos)] /\ aCPU \in [Clientes -> Seq(Trozos)]
  BY <1>0, TiposDeUna DEF FormaInv, TypeOK, FlujosOK
<1>2. ASSUME NEW m, Modo(c, m)
      PROVE  /\ cpu'[c].modo = m /\ cpu'[c].op = cpu[c].op /\ cpu'[c].clave = cpu[c].clave
             /\ cpu'[c].nro = cpu[c].nro
  BY <1>1, <1>2 DEF Modo, EstadosCPU
<1>3. CASE ConectarCPU(c)
  <2>1. /\ cpu[c].modo = "afuera" /\ Modo(c, "saludando") /\ c \in porAceptar'
        /\ aKernel' = [aKernel EXCEPT ![c] = sendRemasterizado(aKernel[c], CPU, 0, Vacio)]
        /\ UNCHANGED << hilo, aCPU >>
    BY <1>3 DEF ConectarCPU
  <2>2. SinHiloAun(c)
    BY <1>0, <2>1 DEF EnCompas, Perdido, EnMarcha, SinSaludar
  <2>3. aKernel[c] = << >>
    BY <1>0, <2>1, <2>2 DEF SinHiloAun, SinSaludar
  <2>4. aKernel'[c] = sendRemasterizado(<< >>, CPU, 0, Vacio)
    BY <1>1, <2>1, <2>3
  <2>5. SinHiloAun(c)'
    BY <1>0, <1>1, <1>2, <2>1, <2>2, <2>4 DEF SinHiloAun
  <2>6. EnEspera(c)'
    BY <1>0, <1>2, <2>1, EnEsperaSigue DEF Esperas
  <2>7. QED
    BY <2>5, <2>6 DEF EnCompas
<1>4. CASE RecibirConfiguracion(c)
  <2>1. /\ cpu[c].modo = "saludando" /\ aCPU[c] # << >>
        /\ aCPU' = [aCPU EXCEPT ![c] = recvRemasterizado(aCPU[c]).resto]
        /\ Modo(c, IF recvRemasterizado(aCPU[c]).tipo = DATOS_CONFIG_KERNEL
                   THEN "saludandoMemoria" ELSE "muerta")
        /\ UNCHANGED << hilo, aKernel >>
    BY <1>4, HayAlgo DEF RecibirConfiguracion, deKernel
  <2>2. ~SinHiloAun(c) /\ ~Perdido(c)
    BY <1>0, <2>1 DEF SinHiloAun, SinSaludar, Perdido, EntreLineas, Esperas
  <2>3. EnMarcha(c)
    BY <1>0, <2>2 DEF EnCompas
  <2>4. PICK z \in {0, 1}, q \in Nat : EnCamino(c, z, q) /\ Vuelta(c, q)
    BY <2>3 DEF EnMarcha
  <2>5. Saludando(c, q)
    BY <2>1, <2>4 DEF Vuelta, Libre, Ejecutando, Esperando, EntreLineas, Esperas
  <2>6. /\ q = 0
        /\ \/ hilo[c].paso = "buscando" /\ aCPU[c] = Cfg
           \/ hilo[c].paso = "escuchando" /\ aCPU[c] = ConPCB(Cfg)
    BY <2>1, <2>5 DEF Saludando
  <2>7. recvRemasterizado(aCPU[c]).tipo = DATOS_CONFIG_KERNEL
    BY <2>6, FlujosFijos DEF HANDSHAKE_CPU, DATOS_CONFIG_KERNEL
  <2>8. Modo(c, "saludandoMemoria")
    BY <2>1, <2>7
  <2>9. cpu'[c].modo = "saludandoMemoria" /\ cpu'[c].nro = cpu[c].nro
    BY <1>2, <2>8
  <2>10. \/ hilo'[c].paso = "buscando" /\ aCPU'[c] = << >>
         \/ hilo'[c].paso = "escuchando" /\ aCPU'[c] = ConPCB(<< >>)
    BY <1>1, <2>1, <2>6, FlujosFijos
  <2>11. Vuelta(c, q)'
    BY <2>6, <2>9, <2>10 DEF Vuelta, Saludando
  <2>12. EnCamino(c, z, q)'
    BY <1>0, <2>1, <2>4, <2>6, <2>9, CaminoSigue
  <2>13. EnEspera(c)'
    BY <1>0, <1>2, <2>1, <2>8, EnEsperaSigue DEF Esperas
  <2>14. QED
    BY <2>10, <2>11, <2>12, <2>13 DEF EnCompas, EnMarcha
<1>5. CASE PerderMemoria(c)
  <2>1. /\ cpu[c].modo \in {"saludandoMemoria", "pidiendoLinea"} /\ Modo(c, "muerta")
        /\ UNCHANGED << hilo, aKernel, aCPU >>
    BY <1>5 DEF PerderMemoria, deKernel, flujos
  <2>2. cpu'[c].modo = "muerta" /\ cpu'[c].nro = cpu[c].nro
    BY <1>2, <2>1
  <2>3. ~SinHiloAun(c)
    BY <1>0, <2>1 DEF SinHiloAun, SinSaludar
  <2>4. EnEspera(c)'
    BY <1>0, <1>2, <2>1, EnEsperaSigue DEF Esperas
  <2>5. CASE Perdido(c)
    BY <2>1, <2>2, <2>4, <2>5 DEF Perdido, EnCompas
  <2>6. CASE EnMarcha(c)
    <3>1. PICK z \in {0, 1}, q \in Nat : EnCamino(c, z, q)
      BY <2>6 DEF EnMarcha
    <3>2. EnCamino(c, z, q)'
      BY <1>0, <2>1, <2>2, <3>1, CaminoSigue
    <3>3. QED
      BY <2>1, <2>2, <2>4, <2>6, <3>2 DEF EnMarcha, Vuelta, EnCompas
  <2>7. QED
    BY <1>0, <2>3, <2>5, <2>6 DEF EnCompas
<1>6. CASE aceptarConexionDeCliente(c)
  <2>1. /\ c \in porAceptar /\ c \in socketsCliente'
        /\ UNCHANGED << hilo, aKernel, aCPU, cpu >>
    BY <1>6 DEF aceptarConexionDeCliente, flujos
  <2>2. SinHiloAun(c)
    BY <1>0, <2>1 DEF SinSaludar, EnCompas, Perdido, EnMarcha
  <2>3. aKernel[c] = sendRemasterizado(<< >>, CPU, 0, Vacio)
    BY <1>0, <2>1, <2>2 DEF SinSaludar, SinHiloAun
  <2>4. SinHiloAun(c)'
    BY <1>0, <2>1, <2>2, <2>3 DEF SinHiloAun
  <2>5. EnEspera(c)'
    BY <1>0, <2>1 DEF EnEspera, peticiones
  <2>6. QED
    BY <2>4, <2>5 DEF EnCompas
<1>7. CASE AtenderSaludo(c)
  <2>1. c \in socketsCliente /\ cpu[c].modo = "saludando" /\ aCPU[c] = << >>
    BY <1>0, <1>7 DEF AtenderSaludo, SinSaludar
  <2>2. SinHiloAun(c)
    BY <1>0, <2>1 DEF SinSaludar, EnCompas, Perdido, EnMarcha
  <2>3. aKernel[c] = sendRemasterizado(<< >>, CPU, 0, Vacio) /\ cpu[c].nro = 0 /\ ultimo[c] = 0
    BY <1>0, <2>1, <2>2 DEF SinSaludar, SinHiloAun
  <2>4. /\ Len(aKernel[c]) = 2 /\ aKernel[c] # << >>
        /\ aKernel[c][1] = Entero(CPU) /\ aKernel[c][2] = Entero(0)
    BY <2>3, UnPaqueteVacio DEF CPU
  <2>5. /\ recvDeNotificacion(aKernel[c]).notificacion = CPU
        /\ Len(recvDeNotificacion(aKernel[c]).resto) = 1
        /\ recvDeNotificacion(aKernel[c]).resto[1] = Entero(0)
    <3>1. /\ recvDeNotificacion(aKernel[c]).notificacion = aKernel[c][1].entero
          /\ Len(recvDeNotificacion(aKernel[c]).resto) = Len(aKernel[c]) - 1
          /\ \A i \in 1 .. Len(aKernel[c]) - 1 :
               recvDeNotificacion(aKernel[c]).resto[i] = aKernel[c][i + 1]
      BY <1>1, <2>4, UnaPalabra
    <3>2. Entero(CPU).entero = CPU /\ 1 \in 1 .. Len(aKernel[c]) - 1 /\ 1 + 1 = 2
      BY <2>4 DEF Entero
    <3>3. recvDeNotificacion(aKernel[c]).resto[1] = aKernel[c][1 + 1]
      BY <3>1, <3>2
    <3>4. QED
      BY <2>4, <3>1, <3>2, <3>3
  <2>6. /\ aKernel' = [aKernel EXCEPT ![c] = recvDeNotificacion(aKernel[c]).resto]
        /\ aCPU' = [aCPU EXCEPT ![c] = Cfg]
        /\ hilo' = [hilo EXCEPT ![c].paso = "buscando"]
        /\ UNCHANGED cpu
    BY <1>7, <2>1, <2>5 DEF AtenderSaludo, CPU, CONSOLA, Cfg
  <2>7. Len(aKernel'[c]) = 1 /\ aKernel'[c][1] = Entero(0)
    BY <1>1, <2>5, <2>6
  <2>8. aKernel'[c][1].largo > 0 /\ aKernel'[c][1].entero = 0
    BY <2>7 DEF Entero
  <2>9. Camino(aKernel'[c], 1, 0, 0, 0, Senales)
    BY <2>7, <2>8 DEF Camino
  <2>10. EnCamino(c, 1, 0)'
    BY <1>0, <2>3, <2>6, <2>9 DEF EnCamino
  <2>11. hilo'[c].paso = "buscando" /\ aCPU'[c] = Cfg
    BY <1>1, <2>6 DEF EstadosHilo
  <2>12. Vuelta(c, 0)'
    BY <2>1, <2>6, <2>11 DEF Vuelta, Saludando
  <2>13. EnEspera(c)'
    BY <1>0, <2>6 DEF EnEspera, peticiones
  <2>14. QED
    BY <2>10, <2>11, <2>12, <2>13 DEF EnCompas, EnMarcha
<1>8. CASE AtenderPaquete(c)
  <2>1. /\ cpu[c].modo \in {"saludandoMemoria", "pidiendoLinea"}
        /\ Modo(c, IF cpu[c].modo = "saludandoMemoria" THEN "libre" ELSE "conLinea")
        /\ UNCHANGED << hilo, aKernel, aCPU >>
    <3>1. c \in pasada /\ cpu[c].modo # "muerta"
      BY <1>1, <1>8 DEF AtenderPaquete, EsDeClienteConocido, Corto
    <3>2. cpu[c].modo \in {"saludandoMemoria", "pidiendoLinea"}
      BY <3>1 DEF ConversacionInv, VidaInv, MemoriaInv
    <3>3. QED
      BY <1>1, <1>8, <3>2 DEF AtenderPaquete, flujos
  <2>2. ~SinHiloAun(c)
    BY <1>0, <2>1 DEF SinHiloAun, SinSaludar
  <2>3. EnEspera(c)'
    BY <1>0, <1>2, <2>1, EnEsperaSigue DEF Esperas
  <2>4. CASE cpu[c].modo = "saludandoMemoria"
    <3>1. cpu'[c].modo = "libre" /\ cpu'[c].nro = cpu[c].nro
      BY <1>2, <2>1, <2>4
    <3>2. EnMarcha(c)
      BY <1>0, <2>2, <2>4 DEF EnCompas, Perdido, EntreLineas, Esperas
    <3>3. PICK z \in {0, 1}, q \in Nat : EnCamino(c, z, q) /\ Vuelta(c, q)
      BY <3>2 DEF EnMarcha
    <3>4. Saludando(c, q)
      BY <2>4, <3>3 DEF Vuelta, Libre, Ejecutando, Esperando, EntreLineas, Esperas
    <3>5. Vuelta(c, q)'
      BY <2>1, <2>4, <3>1, <3>4 DEF Vuelta, Saludando, Libre
    <3>6. EnCamino(c, z, q)'
      BY <1>0, <2>1, <3>1, <3>3, <3>4, CaminoSigue DEF Saludando
    <3>7. QED
      BY <2>1, <2>3, <3>2, <3>5, <3>6 DEF EnCompas, EnMarcha
  <2>5. CASE cpu[c].modo = "pidiendoLinea"
    <3>1. cpu'[c].modo = "conLinea" /\ cpu'[c].nro = cpu[c].nro
      BY <1>2, <2>1, <2>5
    <3>2. CASE Perdido(c)
      BY <2>1, <2>3, <2>5, <3>1, <3>2 DEF Perdido, EntreLineas, EnCompas
    <3>3. CASE EnMarcha(c)
      <4>1. PICK z \in {0, 1}, q \in Nat : EnCamino(c, z, q) /\ Vuelta(c, q)
        BY <3>3 DEF EnMarcha
      <4>2. Ejecutando(c)
        BY <2>5, <4>1 DEF Vuelta, Saludando, Libre, Esperando, Esperas
      <4>3. Vuelta(c, q)'
        BY <2>1, <3>1, <4>2 DEF Vuelta, Ejecutando, EntreLineas
      <4>4. EnCamino(c, z, q)'
        BY <1>0, <2>1, <2>5, <3>1, <4>1, CaminoSigue DEF EntreLineas
      <4>5. QED
        BY <2>1, <2>3, <3>3, <4>3, <4>4 DEF EnCompas, EnMarcha
    <3>4. QED
      BY <1>0, <2>2, <3>2, <3>3 DEF EnCompas
  <2>6. QED
    BY <2>1, <2>4, <2>5
<1>9. QED
  BY <1>3, <1>4, <1>5, <1>6, <1>7, <1>8 DEF Suyo

(* What a CPU finds when it reads.                                         *)
LEMMA LoQueLee ==
  ASSUME NEW c, EnCompas(c), SinSaludar(c), aCPU[c] # << >>,
         cpu[c].modo \in Esperas \cup {"libre"}
  PROVE  \E z \in {0, 1} :
           /\ EnCamino(c, z, 0) /\ hilo[c].paso = "escuchando"
           /\ cpu[c].modo = "libre" => aCPU[c] = ConPCB(<< >>)
           /\ cpu[c].modo \in Esperas => Respuesta(c)
<1>1. ~SinHiloAun(c) /\ ~Perdido(c)
  BY DEF SinHiloAun, SinSaludar, Perdido, Esperas
<1>2. EnMarcha(c)
  BY <1>1 DEF EnCompas
<1>3. PICK z \in {0, 1}, q \in Nat : EnCamino(c, z, q) /\ Vuelta(c, q)
  BY <1>2 DEF EnMarcha
<1>4. CASE cpu[c].modo = "libre"
  <2>1. Libre(c, q)
    BY <1>3, <1>4 DEF Vuelta, Saludando, Ejecutando, Esperando, EntreLineas, Esperas
  <2>2. QED
    BY <1>3, <1>4, <2>1 DEF Libre, Esperas
<1>5. CASE cpu[c].modo \in Esperas
  <2>1. Esperando(c, q)
    BY <1>3, <1>5 DEF Vuelta, Saludando, Ejecutando, Libre, EntreLineas, Esperas
  <2>2. QED
    BY <1>3, <1>5, <2>1 DEF Esperando, Asignando, Abriendo, Esperas
<1>6. QED
  BY <1>4, <1>5

(* What a CPU is doing when it sends.                                      *)
LEMMA LoQueManda ==
  ASSUME NEW c, EnCompas(c), SinSaludar(c), cpu[c].modo \in EntreLineas
  PROVE  \/ Perdido(c) /\ aCPU[c] = << >>
         \/ /\ hilo[c].paso = "escuchando" /\ aCPU[c] = << >>
            /\ \E z \in {0, 1}, q \in Nat :
                 /\ Camino(aKernel[c], z, q, cpu[c].nro, ultimo[c], Senales)
                 /\ q > 0 => aKernel[c][Len(aKernel[c]) - 2].entero = SIGNAL_SEMAFORO
<1>1. CASE SinHiloAun(c)
  BY <1>1 DEF SinHiloAun, SinSaludar, EntreLineas
<1>2. CASE Perdido(c)
  BY <1>2 DEF Perdido, EntreLineas
<1>3. CASE EnMarcha(c)
  <2>1. PICK z \in {0, 1}, q \in Nat : EnCamino(c, z, q) /\ Vuelta(c, q)
    BY <1>3 DEF EnMarcha
  <2>2. Ejecutando(c)
    BY <2>1 DEF Vuelta, Saludando, Libre, Esperando, EntreLineas, Esperas
  <2>3. QED
    BY <2>1, <2>2 DEF Ejecutando, EnCamino, UltimoDe, EsDeSuModo
<1>4. QED
  BY <1>1, <1>2, <1>3 DEF EnCompas

(* A new packet, sent by a CPU that has only sent signals before it.       *)
LEMMA MandaUno ==
  ASSUME NEW c, NEW z \in {0, 1}, NEW q \in Nat, aKernel[c] \in Seq(Trozos),
         cpu[c].nro \in Nat, ultimo[c] \in Nat,
         Camino(aKernel[c], z, q, cpu[c].nro, ultimo[c], Senales),
         q > 0 => aKernel[c][Len(aKernel[c]) - 2].entero = SIGNAL_SEMAFORO,
         NEW tipo \in Int, tipo # 0, NEW tam \in Nat, tam # 0,
         NEW que \in Cuerpos, que.nro = cpu[c].nro + 1,
         aKernel'[c] = sendRemasterizado(aKernel[c], tipo, tam, que),
         cpu'[c].nro = cpu[c].nro + 1, ultimo'[c] = ultimo[c],
         EsDeSuModo(c, tipo, que.clave)'
  PROVE  EnCamino(c, z, q + 1)'
<1> DEFINE A == aKernel[c]
           B == sendRemasterizado(A, tipo, tam, que)
           n == cpu[c].nro
           u == ultimo[c]
<1>1. A \in Seq(Trozos) /\ n \in Nat /\ u \in Nat /\ Camino(A, z, q, n, u, Senales)
      /\ (q > 0 => A[Len(A) - 2].entero = SIGNAL_SEMAFORO) /\ que.nro = n + 1
  OBVIOUS
<1> HIDE DEF A, n, u
<1>2. /\ Camino(B, z, q + 1, n + 1, u, Senales)
      /\ B[Len(B) - 2].entero = tipo /\ B[Len(B)].cuerpo = que
  <2>1. q > 0 => A[Len(A) - 2].entero \in Senales
    BY <1>1 DEF Senales
  <2>2. Camino(B, z, q + 1, n + 1, u, Senales)
    BY <1>1, <2>1, CaminoCrece
  <2>3. B[Len(B) - 2].entero = tipo /\ B[Len(B)].cuerpo = que
    <3>1. MasUnPaquete(B, A, tipo, tam, que)
      BY <1>1, LoEnviadoEs
    <3> HIDE DEF B
    <3>2. Len(B) - 2 = Len(A) + 1 /\ Len(B) = Len(A) + 3
      BY <1>1, <3>1 DEF MasUnPaquete
    <3>3. B[Len(A) + 1] = Entero(tipo) /\ B[Len(A) + 3] = Bulto(tam, que)
      BY <3>1 DEF MasUnPaquete
    <3>4. QED
      BY <3>2, <3>3 DEF Entero, Bulto
  <2>4. QED
    BY <2>2, <2>3
<1>3. aKernel'[c] = B /\ cpu'[c].nro = n + 1 /\ ultimo'[c] = u
  BY DEF A, n, u
<1> HIDE DEF B
<1>4. Camino(aKernel'[c], z, q + 1, cpu'[c].nro, ultimo'[c], Senales)
  BY <1>2, <1>3
<1>5. UltimoDe(c, aKernel[c])'
  BY <1>2, <1>3 DEF UltimoDe, EsDeSuModo
<1>6. QED
  BY <1>4, <1>5 DEF EnCamino

(* Of a CPU out of its turns any packet may follow any other.              *)
LEMMA CaminoMasLaxo ==
  ASSUME NEW A \in Seq(Trozos), NEW z \in {0, 1}, NEW q \in Nat, NEW n, NEW u,
         NEW Previos, Camino(A, z, q, n, u, Previos)
  PROVE  /\ Camino(A, z, q, n, u, Int)
         /\ q > 0 => A[Len(A) - 2].entero \in Int
<1>1. Len(A) = z + 3 * q /\ Len(A) \in Nat
  BY DEF Camino
<1>2. ASSUME NEW i \in 1 .. Len(A)
      PROVE  A[i].entero \in Int
  <2>1. A[i] \in Trozos
    BY <1>2
  <2>2. QED
    BY <2>1 DEF Trozos
<1>3. ASSUME NEW j \in 1 .. q
      PROVE  z + 3 * j - 2 \in 1 .. Len(A)
  BY <1>1, <1>3
<1>4. \A j \in 1 .. q : A[z + 3 * j - 2].entero \in Int
  BY <1>2, <1>3
<1>5. Camino(A, z, q, n, u, Int)
  BY <1>4 DEF Camino
<1>6. q > 0 => Len(A) - 2 \in 1 .. Len(A)
  BY <1>1
<1>7. QED
  BY <1>2, <1>5, <1>6

LEMMA MandaOtro ==
  ASSUME NEW c, NEW z \in {0, 1}, NEW q \in Nat, aKernel[c] \in Seq(Trozos),
         cpu[c].nro \in Nat, ultimo[c] \in Nat, NEW Previos,
         Camino(aKernel[c], z, q, cpu[c].nro, ultimo[c], Previos),
         NEW tipo \in Int, tipo # 0, NEW tam \in Nat, tam # 0,
         NEW que \in Cuerpos, que.nro = cpu[c].nro + 1,
         aKernel'[c] = sendRemasterizado(aKernel[c], tipo, tam, que),
         cpu'[c].nro = cpu[c].nro + 1, ultimo'[c] = ultimo[c]
  PROVE  Camino(aKernel'[c], z, q + 1, cpu'[c].nro, ultimo'[c], Int)
<1> DEFINE A == aKernel[c]
           B == sendRemasterizado(A, tipo, tam, que)
           n == cpu[c].nro
           u == ultimo[c]
<1>1. A \in Seq(Trozos) /\ n \in Nat /\ u \in Nat /\ Camino(A, z, q, n, u, Previos)
      /\ que.nro = n + 1
  OBVIOUS
<1>2. aKernel'[c] = B /\ cpu'[c].nro = n + 1 /\ ultimo'[c] = u
  OBVIOUS
<1> HIDE DEF A, n, u
<1>3. Camino(A, z, q, n, u, Int) /\ (q > 0 => A[Len(A) - 2].entero \in Int)
  BY <1>1, CaminoMasLaxo
<1>4. Camino(B, z, q + 1, n + 1, u, Int)
  BY <1>1, <1>3, CaminoCrece
<1> HIDE DEF B
<1>5. QED
  BY <1>2, <1>4

LEMMA UnoMas ==
  ASSUME NEW n \in Nat
  PROVE  n + 1 \in Nat /\ \A m \in Nat : n < m => n + 1 \in 0 .. m
  OBVIOUS

LEMMA NumeroDePCB ==
  ASSUME NEW n \in Nat, n < MaxMensajes
  PROVE  LET que == [Vacio EXCEPT !.nro = n + 1] IN
         que \in Cuerpos /\ que.nro = n + 1 /\ que.clave = ""
<1>1. n + 1 \in 0 .. MaxMensajes
  BY PeticionesAssumption, UnoMas
<1>2. QED
  BY <1>1, VacioEsCuerpo DEF Cuerpos, Vacio

(* A CPU in its turns did not close one twice.                             *)
LEMMA EnCompasNoRepite ==
  ASSUME NEW c, EnCompas(c), SinSaludar(c)
  PROVE  cpu[c].modo \notin {"repite", "destiempo"}
<1>1. CASE SinHiloAun(c)
  BY <1>1 DEF SinHiloAun, SinSaludar
<1>2. CASE Perdido(c)
  BY <1>2 DEF Perdido, EntreLineas, Esperas
<1>3. CASE EnMarcha(c)
  BY <1>3 DEF EnMarcha, Vuelta, Saludando, Libre, Ejecutando, Esperando, EntreLineas, Esperas
<1>4. QED
  BY <1>1, <1>2, <1>3 DEF EnCompas

(* What a CPU process does keeps its conversation with its thread.         *)
LEMMA ConversaCiclo ==
  ASSUME ConversacionInv, NEW c \in CPUs, EnCompas(c), CicloCPU(c)
  PROVE  Conversa(c)'
<1>0. /\ EnCompas(c) /\ SinSaludar(c) /\ EnEspera(c)
      /\ c \in Clientes
      /\ aKernel[c] \in Seq(Trozos) /\ aCPU[c] \in Seq(Trozos)
      /\ cpu[c] \in EstadosCPU /\ cpu[c].nro \in Nat /\ ultimo[c] \in Nat
      /\ cpu \in [Clientes -> EstadosCPU] /\ vistos \in [CPUs -> SUBSET Valores]
      /\ aKernel \in [Clientes -> Seq(Trozos)] /\ aCPU \in [Clientes -> Seq(Trozos)]
  BY TiposDeUna DEF ConversacionInv, VidaInv, SaludosInv, EnCompas, FormaInv, TypeOK, FlujosOK,
     CompartidoOK
<1>1. hilo'[c] = hilo[c] /\ ultimo'[c] = ultimo[c] /\ valor' = valor
  BY DEF CicloCPU, recibirPCBDeKernel, pedirLineaAMemoria, Pedir, recibirValorCompartida,
     RecibirResultado, TerminarTurno, enviarPCBAKernel, SoloCPU, deKernel
<1>2. ASSUME EnEspera(c)', cpu'[c].modo = "muerta", Perdido(c)
      PROVE  EnCompas(c)'
  BY <1>1, <1>2 DEF EnCompas, Perdido
<1>3. ASSUME EnEspera(c)', NEW z \in {0, 1}, NEW q \in Nat, EnCamino(c, z, q)',
             hilo[c].paso = "escuchando", aCPU'[c] = << >>,
             cpu'[c].modo \in EntreLineas \cup Esperas \cup {"libre", "muerta"}
      PROVE  EnCompas(c)'
  <2>1. Vuelta(c, q)'
    BY <1>1, <1>3 DEF Vuelta, Ejecutando, Esperando, Libre
  <2>2. EnMarcha(c)'
    BY <1>1, <1>3, <2>1 DEF EnMarcha
  <2>3. QED
    BY <1>3, <2>2 DEF EnCompas
<1>4. ASSUME EnEspera(c)', Perdido(c), aCPU'[c] = << >>,
             cpu'[c].modo \in EntreLineas \cup Esperas \cup {"libre", "muerta"}
      PROVE  EnCompas(c)'
  BY <1>1, <1>4 DEF EnCompas, Perdido
<1>5. ASSUME recibirPCBDeKernel(c)
      PROVE  EnCompas(c)'
  <2>1. /\ cpu[c].modo = "libre" /\ aCPU[c] # << >>
        /\ aCPU' = [aCPU EXCEPT ![c] = recvRemasterizado(aCPU[c]).resto]
        /\ cpu' = [cpu EXCEPT ![c].modo = "ejecutando", ![c].abortado = FALSE]
        /\ UNCHANGED aKernel
    BY <1>5, HayAlgo DEF recibirPCBDeKernel
  <2>2. PICK z \in {0, 1} : /\ EnCamino(c, z, 0) /\ hilo[c].paso = "escuchando"
                            /\ aCPU[c] = ConPCB(<< >>)
    BY <1>0, <2>1, LoQueLee
  <2>3. aCPU'[c] = << >>
    BY <1>0, <2>1, <2>2, FlujosFijos
  <2>4. /\ cpu'[c].modo = "ejecutando" /\ cpu'[c].nro = cpu[c].nro
        /\ cpu'[c].op = cpu[c].op /\ cpu'[c].clave = cpu[c].clave
    BY <1>0, <2>1 DEF EstadosCPU
  <2>5. EnEspera(c)'
    BY <1>0, <2>1, <2>4, EnEsperaSigue DEF Esperas
  <2>6. EnCamino(c, z, 0)'
    BY <1>1, <2>1, <2>2, <2>4, CaminoSigue
  <2>7. QED
    BY <1>3, <2>2, <2>3, <2>4, <2>5, <2>6 DEF EntreLineas
<1>6. ASSUME pedirLineaAMemoria(c)
      PROVE  EnCompas(c)'
  <2>1. /\ cpu[c].modo = "ejecutando"
        /\ cpu' = [cpu EXCEPT ![c].modo = "pidiendoLinea"]
        /\ UNCHANGED << aKernel, aCPU >>
    BY <1>6 DEF pedirLineaAMemoria, Modo, flujos
  <2>2. /\ cpu'[c].modo = "pidiendoLinea" /\ cpu'[c].nro = cpu[c].nro
        /\ cpu'[c].op = cpu[c].op /\ cpu'[c].clave = cpu[c].clave
    BY <1>0, <2>1 DEF EstadosCPU
  <2>3. EnEspera(c)'
    BY <1>0, <2>1, <2>2, EnEsperaSigue DEF Esperas
  <2>4. cpu[c].modo \in EntreLineas /\ cpu'[c].modo \in EntreLineas
    BY <2>1, <2>2 DEF EntreLineas
  <2>5. CASE Perdido(c)
    <3>1. aCPU'[c] = << >>
      BY <2>1, <2>5 DEF Perdido
    <3>2. QED
      BY <1>4, <2>3, <2>4, <2>5, <3>1
  <2>6. CASE EnMarcha(c)
    <3>1. PICK z \in {0, 1}, q \in Nat : EnCamino(c, z, q) /\ Vuelta(c, q)
      BY <2>6 DEF EnMarcha
    <3>2. Ejecutando(c)
      BY <2>1, <3>1 DEF Vuelta, Saludando, Libre, Esperando, EntreLineas, Esperas
    <3>3. EnCamino(c, z, q)'
      BY <1>1, <2>1, <2>2, <2>4, <3>1, CaminoSigue
    <3>4. hilo[c].paso = "escuchando" /\ aCPU'[c] = << >>
      BY <2>1, <3>2 DEF Ejecutando
    <3>5. QED
      BY <1>3, <2>3, <2>4, <3>3, <3>4
  <2>7. ~SinHiloAun(c)
    BY <1>0, <2>1 DEF SinHiloAun, SinSaludar
  <2>8. QED
    BY <1>0, <2>5, <2>6, <2>7 DEF EnCompas
<1>7. ASSUME NEW op \in Operaciones, NEW clave \in Nombres \cup {""}, NEW nuevo \in Valores,
             Pedir(c, op, clave, nuevo)
      PROVE  EnCompas(c)'
  <2> DEFINE que == [clave |-> clave, valor |-> nuevo, nro |-> cpu[c].nro + 1]
  <2>0. cpu[c].modo # "destiempo"
    BY <1>0, EnCompasNoRepite
  <2>1. /\ cpu[c].modo = "conLinea" /\ cpu[c].nro < MaxMensajes
        /\ (clave = "") <=> (op \notin OperacionesDeVariable)
        /\ UNCHANGED << SoloCPU, aCPU >>
    BY <1>7, <2>0 DEF Pedir
  <2>2. aKernel' = [aKernel EXCEPT ![c] = sendRemasterizado(aKernel[c], Tipo(op), Tamanio(op), que)]
    BY <1>7 DEF Pedir
  <2>3. cpu' = [cpu EXCEPT ![c] = [modo |-> ModoDeEspera(op), abortado |-> FALSE,
                 op |-> IF op = "signal" THEN "" ELSE op, clave |-> clave,
                 nro |-> cpu[c].nro + 1]]
    BY <1>7, <2>0 DEF Pedir
  <2>4. vistos'[c] = IF op = "leer" /\ clave \in SHARED_VARS THEN {valor[clave]} ELSE {}
    BY <1>0, <1>7, <2>0 DEF Pedir
  <2>5. /\ Tipo(op) \in Int /\ Tipo(op) # 0 /\ Tamanio(op) \in Nat /\ Tamanio(op) # 0
        /\ op \in {"signal"} \cup OperacionesDeVariable \cup OperacionesDeArchivo
    BY TiposDePaquete, OperacionesAssumption
  <2>6. que \in Cuerpos /\ que.nro = cpu[c].nro + 1 /\ que.clave = clave
    <3>1. cpu[c].nro + 1 \in 0 .. MaxMensajes
      <4>1. MaxMensajes \in Nat /\ cpu[c].nro \in Nat
        BY <1>0, PeticionesAssumption
      <4>2. cpu[c].nro < MaxMensajes
        BY <2>1
      <4>3. QED
        BY <4>1, <4>2, UnoMas
    <3>2. QED
      BY <3>1 DEF Cuerpos
  <2>7. /\ cpu'[c].modo = ModoDeEspera(op) /\ cpu'[c].nro = cpu[c].nro + 1
        /\ cpu'[c].op = (IF op = "signal" THEN "" ELSE op) /\ cpu'[c].clave = clave
    BY <1>0, <2>3
  <2>8. aKernel'[c] = sendRemasterizado(aKernel[c], Tipo(op), Tamanio(op), que)
    BY <1>0, <2>2
  <2> HIDE DEF que
  <2>9. /\ op = "signal" => cpu'[c].modo = "ejecutando"
        /\ op \in OperacionesDeVariable \cup {"abrir", "leerArchivo"} =>
             cpu'[c].modo = "esperaPaquete"
        /\ op \in {"borrar", "cerrar", "mover", "escribir"} =>
             cpu'[c].modo = "esperaNotificacion"
    BY <2>7 DEF ModoDeEspera, OperacionesDeVariable
  <2>10. cpu'[c].modo \in EntreLineas \cup Esperas
    BY <2>5, <2>9 DEF EntreLineas, Esperas, OperacionesDeVariable, OperacionesDeArchivo
  <2>11. EnEspera(c)'
    <3>1. cpu'[c].op = "leer" /\ cpu'[c].clave \in SHARED_VARS =>
            valor'[cpu'[c].clave] \in vistos'[c]
      BY <1>1, <2>4, <2>7
    <3>2. /\ cpu'[c].modo = "esperaPaquete" <=>
               cpu'[c].op \in OperacionesDeVariable \cup {"abrir", "leerArchivo"}
          /\ cpu'[c].modo = "esperaNotificacion" <=>
               cpu'[c].op \in {"borrar", "cerrar", "mover", "escribir"}
      BY <2>5, <2>7, <2>9 DEF OperacionesDeVariable, OperacionesDeArchivo
    <3>3. QED
      BY <3>1, <3>2 DEF EnEspera
  <2>12. EsDeSuModo(c, Tipo(op), clave)'
    <3>1. cpu'[c].modo \in EntreLineas => op = "signal"
      BY <2>5, <2>9 DEF EntreLineas, OperacionesDeVariable, OperacionesDeArchivo
    <3>2. cpu'[c].modo \in EntreLineas => Tipo(op) = SIGNAL_SEMAFORO
      BY <3>1 DEF Tipo
    <3>3. cpu'[c].modo \in Esperas => op # "signal"
      BY <2>9 DEF Esperas
    <3>4. cpu'[c].modo # "libre"
      BY <2>10 DEF EntreLineas, Esperas
    <3>5. QED
      BY <2>7, <2>10, <3>2, <3>3, <3>4 DEF EsDeSuModo
  <2>13. cpu[c].modo \in EntreLineas
    BY <2>1 DEF EntreLineas
  <2>14. CASE Perdido(c) /\ aCPU[c] = << >>
    BY <1>4, <2>1, <2>10, <2>11, <2>14
  <2>15. CASE /\ hilo[c].paso = "escuchando" /\ aCPU[c] = << >>
              /\ \E z \in {0, 1}, q \in Nat :
                   /\ Camino(aKernel[c], z, q, cpu[c].nro, ultimo[c], Senales)
                   /\ q > 0 => aKernel[c][Len(aKernel[c]) - 2].entero = SIGNAL_SEMAFORO
    <3>1. PICK z \in {0, 1}, q \in Nat :
            /\ Camino(aKernel[c], z, q, cpu[c].nro, ultimo[c], Senales)
            /\ q > 0 => aKernel[c][Len(aKernel[c]) - 2].entero = SIGNAL_SEMAFORO
      BY <2>15
    <3>2. EnCamino(c, z, q + 1)'
      BY <1>0, <1>1, <2>5, <2>6, <2>7, <2>8, <2>12, <3>1, MandaUno
    <3>3. q + 1 \in Nat
      BY UnoMas
    <3>4. QED
      BY <1>3, <2>1, <2>10, <2>11, <2>15, <3>2, <3>3
  <2>16. QED
    BY <1>0, <2>13, <2>14, <2>15, LoQueManda
<1>8. ASSUME NEW modo \in {"ejecutando", "muerta"}, aCPU[c] # << >>, cpu[c].modo \in Esperas,
             cpu'[c].modo = modo, cpu'[c].op = "", cpu'[c].nro = cpu[c].nro,
             aKernel' = aKernel, Respuesta(c) => aCPU'[c] = << >>
      PROVE  EnCompas(c)'
  <2>1. PICK z \in {0, 1} : EnCamino(c, z, 0) /\ hilo[c].paso = "escuchando" /\ Respuesta(c)
    BY <1>0, <1>8, LoQueLee
  <2>2. EnEspera(c)'
    BY <1>8 DEF EnEspera, OperacionesDeVariable
  <2>3. EnCamino(c, z, 0)'
    BY <1>1, <1>8, <2>1, CaminoSigue
  <2>4. QED
    BY <1>3, <1>8, <2>1, <2>2, <2>3 DEF EntreLineas
<1>9. ASSUME recibirValorCompartida(c)
      PROVE  EnCompas(c)'
  <2>1. /\ cpu[c].modo = "esperaPaquete" /\ cpu[c].op \in OperacionesDeVariable
        /\ aCPU[c] # << >>
        /\ aCPU' = [aCPU EXCEPT ![c] = recvRemasterizado(aCPU[c]).resto]
        /\ UNCHANGED aKernel
    BY <1>9, HayAlgo DEF recibirValorCompartida
  <2>2. PICK modo \in {"ejecutando", "muerta"} : cpu' = Contestada(c, modo)
    BY <1>9 DEF recibirValorCompartida
  <2>3. cpu'[c].modo = modo /\ cpu'[c].op = "" /\ cpu'[c].nro = cpu[c].nro
    BY <1>0, <2>2 DEF Contestada, EstadosCPU
  <2>4. Respuesta(c) => aCPU'[c] = << >>
    <3>1. Respuesta(c) => aCPU[c] = SinValor \/ \E x \in Valores : aCPU[c] = ConValor(x)
      BY <1>0, <2>1 DEF Respuesta, OperacionesDeVariable
    <3>2. ASSUME aCPU[c] = SinValor
          PROVE  recvRemasterizado(aCPU[c]).resto = << >>
      <4>1. OPERACION_VARIABLE_COMPARTIDA_FALLIDA \in Int
        BY DEF OPERACION_VARIABLE_COMPARTIDA_FALLIDA
      <4>2. QED
        BY <3>2, <4>1, UnPaqueteVacio DEF SinValor
    <3>3. ASSUME NEW x \in Valores, aCPU[c] = ConValor(x)
          PROVE  recvRemasterizado(aCPU[c]).resto = << >>
      BY <3>3, LoQueTrae
    <3>4. QED
      BY <1>0, <2>1, <3>1, <3>2, <3>3
  <2>5. QED
    BY <1>8, <2>1, <2>3, <2>4 DEF Esperas
<1>10. ASSUME RecibirResultado(c)
       PROVE  EnCompas(c)'
  <2>1. /\ cpu[c].modo = "esperaNotificacion" /\ aCPU[c] # << >>
        /\ aCPU' = [aCPU EXCEPT ![c] = recvDeNotificacion(aCPU[c]).resto]
        /\ cpu' = [Contestada(c, "ejecutando") EXCEPT
                     ![c].abortado = EsError(recvDeNotificacion(aCPU[c]).notificacion)]
        /\ UNCHANGED aKernel
    BY <1>10 DEF RecibirResultado
  <2>2. cpu'[c].modo = "ejecutando" /\ cpu'[c].op = "" /\ cpu'[c].nro = cpu[c].nro
    BY <1>0, <2>1 DEF Contestada, EstadosCPU
  <2>3. cpu[c].op \in {"borrar", "cerrar", "mover", "escribir"}
    BY <1>0, <2>1 DEF EnEspera
  <2>4. Respuesta(c) => aCPU'[c] = << >>
    <3>1. Respuesta(c) => \E n \in Int : aCPU[c] = sendDeNotificacion(<< >>, n)
      BY <2>3 DEF Respuesta, OperacionesDeVariable, OPERACION_CON_ARCHIVO_EXITOSA, OPERACION_FALLIDA
    <3>2. QED
      BY <1>0, <2>1, <3>1, UnaPalabraSola
  <2>5. QED
    BY <1>8, <2>1, <2>2, <2>4 DEF Esperas
<1>11. ASSUME TerminarTurno(c)
       PROVE  Conversa(c)'
  <2> DEFINE que == [Vacio EXCEPT !.nro = cpu[c].nro + 1]
  <2>1. PICK tipo \in TiposDeVuelta, modo \in {"libre", "muerta", "repite", "destiempo"} :
          /\ enviarPCBAKernel(c, tipo, modo)
          /\ cpu[c].modo \in {"ejecutando", "repite", "destiempo"}
          /\ cpu[c].modo = "ejecutando" => modo # "destiempo"
    BY <1>11, UnFinDeTurno
  <2>2. cpu[c].modo = "ejecutando" /\ modo \in {"libre", "muerta", "repite"}
    BY <1>0, <2>1, EnCompasNoRepite
  <2>3. tipo \in Int /\ tipo # 0 /\ TAMANIO_PCB \in Nat /\ TAMANIO_PCB # 0
    BY <2>1 DEF TiposDeVuelta, PROCESO_ABORTADO, PROCESO_FINALIZADO, PROCESO_FINALIZO_RAFAGA,
       TAMANIO_PCB
  <2>4. que \in Cuerpos /\ que.nro = cpu[c].nro + 1 /\ que.clave = ""
    <3>1. cpu[c].nro < MaxMensajes
      BY <2>1 DEF enviarPCBAKernel
    <3>2. QED
      BY <1>0, <3>1, NumeroDePCB
  <2>5. /\ cpu'[c].modo = modo /\ cpu'[c].nro = cpu[c].nro + 1
        /\ cpu'[c].op = cpu[c].op /\ cpu'[c].clave = cpu[c].clave
    BY <1>0, <2>1 DEF EstadosCPU, enviarPCBAKernel
  <2>6. aKernel'[c] = sendRemasterizado(aKernel[c], tipo, TAMANIO_PCB, que) /\ aCPU'[c] = aCPU[c]
    BY <1>0, <2>1 DEF enviarPCBAKernel
  <2> HIDE DEF que
  <2>7. EnEspera(c)'
    BY <1>0, <2>2, <2>5, EnEsperaSigue DEF Esperas
  <2>8. cpu[c].modo \in EntreLineas
    BY <2>2 DEF EntreLineas
  <2>9. CASE modo = "repite"
    <3>1. hilo'[c].paso # "ninguno"
      BY <1>0, <1>1, <2>8, LoQueManda DEF Perdido
    <3>2. ASSUME hilo'[c].paso # "perdido"
          PROVE  \E z \in {0, 1}, q \in Nat :
                   Camino(aKernel'[c], z, q, cpu'[c].nro, ultimo'[c], Int)
      <4>1. PICK z \in {0, 1}, q \in Nat :
              Camino(aKernel[c], z, q, cpu[c].nro, ultimo[c], Senales)
        BY <1>0, <1>1, <2>8, <3>2, LoQueManda DEF Perdido
      <4>2. Camino(aKernel'[c], z, q + 1, cpu'[c].nro, ultimo'[c], Int)
        BY <1>0, <1>1, <2>3, <2>4, <2>5, <2>6, <4>1, MandaOtro
      <4>3. q + 1 \in Nat
        BY UnoMas
      <4>4. QED
        BY <4>2, <4>3
    <3>3. QED
      BY <2>5, <2>7, <2>9, <3>1, <3>2 DEF Conversa, Descompasada
  <2>10. CASE modo \in {"libre", "muerta"}
    <3>1. EsDeSuModo(c, tipo, "")'
      BY <2>1, <2>5, <2>10 DEF EsDeSuModo, EntreLineas, Esperas
    <3>2. CASE Perdido(c) /\ aCPU[c] = << >>
      BY <1>4, <2>5, <2>6, <2>7, <2>10, <3>2 DEF Conversa
    <3>3. CASE /\ hilo[c].paso = "escuchando" /\ aCPU[c] = << >>
               /\ \E z \in {0, 1}, q \in Nat :
                    /\ Camino(aKernel[c], z, q, cpu[c].nro, ultimo[c], Senales)
                    /\ q > 0 => aKernel[c][Len(aKernel[c]) - 2].entero = SIGNAL_SEMAFORO
      <4>1. PICK z \in {0, 1}, q \in Nat :
              /\ Camino(aKernel[c], z, q, cpu[c].nro, ultimo[c], Senales)
              /\ q > 0 => aKernel[c][Len(aKernel[c]) - 2].entero = SIGNAL_SEMAFORO
        BY <3>3
      <4>2. EnCamino(c, z, q + 1)'
        BY <1>0, <1>1, <2>3, <2>4, <2>5, <2>6, <3>1, <4>1, MandaUno
      <4>3. q + 1 \in Nat
        BY UnoMas
      <4>4. QED
        BY <1>3, <2>5, <2>6, <2>7, <2>10, <3>3, <4>2, <4>3 DEF Conversa
    <3>4. QED
      BY <1>0, <2>8, <3>2, <3>3, LoQueManda
  <2>11. QED
    BY <2>2, <2>9, <2>10
<1>12. QED
  BY <1>5, <1>6, <1>7, <1>9, <1>10, <1>11 DEF CicloCPU, Conversa

(* A CPU that closed a turn twice has greeted everybody long ago.          *)
LEMMA DescompasadaNoSaluda ==
  ASSUME ConversacionInv, NEW c \in CPUs, Descompasada(c)
  PROVE  ~(Suyo(c) /\ UNCHANGED peticiones)
<1> SUFFICES ASSUME Suyo(c)
             PROVE  FALSE
  OBVIOUS
<1>0. /\ SinSaludar(c) /\ cpu[c].modo \in {"repite", "destiempo", "muerta"} /\ c # KERNEL
      /\ cpu[c] \in EstadosCPU
  BY TiposDeUna DEF ConversacionInv, VidaInv, SaludosInv, Descompasada
<1>1. CASE ConectarCPU(c) \/ RecibirConfiguracion(c) \/ PerderMemoria(c)
  BY <1>0, <1>1 DEF ConectarCPU, RecibirConfiguracion, PerderMemoria
<1>2. CASE aceptarConexionDeCliente(c) \/ AtenderSaludo(c)
  BY <1>0, <1>2 DEF aceptarConexionDeCliente, AtenderSaludo, SinSaludar
<1>3. CASE AtenderPaquete(c)
  <2>1. c \in pasada /\ cpu[c].modo # "muerta"
    BY <1>0, <1>3 DEF AtenderPaquete, EsDeClienteConocido, Corto
  <2>2. QED
    BY <1>0, <2>1 DEF ConversacionInv, VidaInv, MemoriaInv
<1>4. QED
  BY <1>1, <1>2, <1>3 DEF Suyo

(* What such a CPU sends goes behind what it had sent.                     *)
LEMMA DescompasadaCiclo ==
  ASSUME ConversacionInv, NEW c \in CPUs, Descompasada(c), CicloCPU(c)
  PROVE  Descompasada(c)'
<1>0. /\ EnEspera(c) /\ cpu[c].modo \in {"repite", "destiempo", "muerta"}
      /\ hilo[c].paso # "ninguno" /\ c \in Clientes
      /\ aKernel[c] \in Seq(Trozos) /\ cpu[c] \in EstadosCPU
      /\ cpu[c].nro \in Nat /\ ultimo[c] \in Nat
      /\ cpu \in [Clientes -> EstadosCPU] /\ aKernel \in [Clientes -> Seq(Trozos)]
  BY TiposDeUna DEF ConversacionInv, VidaInv, FormaInv, TypeOK, FlujosOK, Descompasada
<1>1. hilo'[c] = hilo[c] /\ ultimo'[c] = ultimo[c]
  BY DEF CicloCPU, recibirPCBDeKernel, pedirLineaAMemoria, Pedir, recibirValorCompartida,
     RecibirResultado, TerminarTurno, enviarPCBAKernel, SoloCPU, deKernel
<1>2. ASSUME NEW tipo \in Int, tipo # 0, NEW tam \in Nat, tam # 0,
             NEW que \in Cuerpos, que.nro = cpu[c].nro + 1,
             aKernel'[c] = sendRemasterizado(aKernel[c], tipo, tam, que),
             cpu'[c].nro = cpu[c].nro + 1, cpu'[c].op = cpu[c].op, cpu'[c].clave = cpu[c].clave,
             cpu'[c].modo \in {"destiempo", "muerta"}
      PROVE  Descompasada(c)'
  <2>1. EnEspera(c)'
    BY <1>0, <1>2, EnEsperaSigue DEF Esperas
  <2>2. ASSUME hilo[c].paso # "perdido"
        PROVE  \E z \in {0, 1}, q \in Nat : Camino(aKernel'[c], z, q, cpu'[c].nro, ultimo'[c], Int)
    <3>1. PICK z \in {0, 1}, q \in Nat : Camino(aKernel[c], z, q, cpu[c].nro, ultimo[c], Int)
      BY <2>2 DEF Descompasada
    <3>2. Camino(aKernel'[c], z, q + 1, cpu'[c].nro, ultimo'[c], Int)
      BY <1>0, <1>1, <1>2, <3>1, MandaOtro
    <3>3. q + 1 \in Nat
      BY UnoMas
    <3>4. QED
      BY <3>2, <3>3
  <2>3. QED
    BY <1>0, <1>1, <1>2, <2>1, <2>2 DEF Descompasada
<1>3. ASSUME NEW op \in Operaciones, NEW clave \in Nombres \cup {""}, NEW nuevo \in Valores,
             Pedir(c, op, clave, nuevo)
      PROVE  Descompasada(c)'
  <2> DEFINE que == [clave |-> clave, valor |-> nuevo, nro |-> cpu[c].nro + 1]
  <2>1. /\ cpu[c].modo = "destiempo" /\ cpu[c].nro < MaxMensajes
        /\ cpu' = [cpu EXCEPT ![c].nro = @ + 1]
        /\ aKernel' = [aKernel EXCEPT ![c] =
             sendRemasterizado(aKernel[c], Tipo(op), Tamanio(op), que)]
    BY <1>0, <1>3 DEF Pedir
  <2>2. Tipo(op) \in Int /\ Tipo(op) # 0 /\ Tamanio(op) \in Nat /\ Tamanio(op) # 0
    BY TiposDePaquete
  <2>3. cpu[c].nro + 1 \in 0 .. MaxMensajes
    <3>1. MaxMensajes \in Nat
      BY PeticionesAssumption
    <3>2. QED
      BY <1>0, <2>1, <3>1, UnoMas
  <2>4. que \in Cuerpos /\ que.nro = cpu[c].nro + 1
    BY <2>3 DEF Cuerpos
  <2>5. aKernel'[c] = sendRemasterizado(aKernel[c], Tipo(op), Tamanio(op), que)
    BY <1>0, <2>1
  <2> HIDE DEF que
  <2>6. /\ cpu'[c].nro = cpu[c].nro + 1 /\ cpu'[c].op = cpu[c].op /\ cpu'[c].clave = cpu[c].clave
        /\ cpu'[c].modo = "destiempo"
    BY <1>0, <2>1 DEF EstadosCPU
  <2>7. QED
    BY <1>2, <2>2, <2>4, <2>5, <2>6
<1>4. ASSUME TerminarTurno(c)
      PROVE  Descompasada(c)'
  <2> DEFINE que == [Vacio EXCEPT !.nro = cpu[c].nro + 1]
  <2>1. PICK tipo \in TiposDeVuelta, modo \in {"libre", "muerta", "repite", "destiempo"} :
          /\ enviarPCBAKernel(c, tipo, modo)
          /\ cpu[c].modo \in {"ejecutando", "repite", "destiempo"}
          /\ cpu[c].modo # "ejecutando" => modo \in {"destiempo", "muerta"}
    BY <1>4, UnFinDeTurno
  <2>2. tipo \in Int /\ tipo # 0 /\ TAMANIO_PCB \in Nat /\ TAMANIO_PCB # 0
    BY <2>1 DEF TiposDeVuelta, PROCESO_ABORTADO, PROCESO_FINALIZADO, PROCESO_FINALIZO_RAFAGA,
       TAMANIO_PCB
  <2>3. que \in Cuerpos /\ que.nro = cpu[c].nro + 1
    <3>1. cpu[c].nro < MaxMensajes
      BY <2>1 DEF enviarPCBAKernel
    <3>2. QED
      BY <1>0, <3>1, NumeroDePCB
  <2>4. /\ cpu'[c].modo \in {"destiempo", "muerta"} /\ cpu'[c].nro = cpu[c].nro + 1
        /\ cpu'[c].op = cpu[c].op /\ cpu'[c].clave = cpu[c].clave
    BY <1>0, <2>1 DEF EstadosCPU, enviarPCBAKernel
  <2>5. aKernel'[c] = sendRemasterizado(aKernel[c], tipo, TAMANIO_PCB, que)
    BY <1>0, <2>1 DEF enviarPCBAKernel
  <2> HIDE DEF que
  <2>6. QED
    BY <1>2, <2>2, <2>3, <2>4, <2>5
<1>5. ~recibirPCBDeKernel(c) /\ ~pedirLineaAMemoria(c) /\ ~recibirValorCompartida(c)
      /\ ~RecibirResultado(c)
  BY <1>0 DEF recibirPCBDeKernel, pedirLineaAMemoria, recibirValorCompartida, RecibirResultado
<1>6. QED
  BY <1>3, <1>4, <1>5 DEF CicloCPU

-----------------------------------------------------------------------------
(* The thread of a CPU in its conversation.                                *)

(* With packets on their way to it, the thread listens and has not         *)
(* answered any of them.                                                   *)
PorAtender(c) ==
  \/ cpu[c].modo = "muerta"
  \/ /\ cpu[c].modo \in EntreLineas \cup Esperas \cup {"libre"}
     /\ hilo[c].paso = "escuchando" /\ aCPU[c] = << >>

LEMMA QuedaPorAtender ==
  ASSUME NEW c, NEW z, NEW q \in Nat, q > 0, EnCamino(c, z, q), Vuelta(c, q)
  PROVE  PorAtender(c)
<1>1. cpu[c].modo \in EntreLineas \cup Esperas \cup {"libre", "muerta"}
  BY DEF EnCamino, UltimoDe, EsDeSuModo
<1>2. q # 0
  OBVIOUS
<1>3. CASE Libre(c, q)
  BY <1>2, <1>3 DEF Libre, PorAtender
<1>4. CASE Ejecutando(c)
  BY <1>4 DEF Ejecutando, PorAtender
<1>5. CASE Esperando(c, q)
  BY <1>2, <1>5 DEF Esperando, PorAtender
<1>6. CASE Saludando(c, q)
  BY <1>2, <1>6 DEF Saludando
<1>7. QED
  BY <1>3, <1>4, <1>5, <1>6 DEF Vuelta, PorAtender

LEMMA SigueEnMarcha ==
  ASSUME NEW c, NEW z \in {0, 1}, NEW r \in Nat, EnCamino(c, z, r)', PorAtender(c), EnEspera(c)',
         cpu' = cpu, hilo'[c].paso = hilo[c].paso, aCPU'[c] = aCPU[c],
         hilo[c].paso \notin {"ninguno", "perdido"}
  PROVE  EnCompas(c)'
<1>1. Vuelta(c, r)'
  BY DEF PorAtender, Vuelta, Libre, Ejecutando, Esperando
<1>2. EnMarcha(c)'
  BY <1>1 DEF EnMarcha
<1>3. QED
  BY <1>2 DEF EnCompas

(* What a thread finds when it takes a packet of a type it knows.          *)
LEMMA RecibeUno ==
  ASSUME ConversacionInv, NEW c \in CPUs, EnCompas(c), NEW tipos, 0 \notin tipos, Recibir(c,
         tipos), cpu' = cpu
  PROVE  \E r \in Nat :
           /\ EnCamino(c, 0, r)'
           /\ r > 0 => Recibido(c).tipo = SIGNAL_SEMAFORO
           /\ r = 0 => EsDeSuModo(c, Recibido(c).tipo, Recibido(c).mensaje.clave)
           /\ ultimo'[c] = cpu[c].nro - r
           /\ ultimo[c] \in {0, ultimo'[c] - 1}
           /\ ultimo[c] = 0 => ultimo'[c] >= 2
           /\ PorAtender(c)
<1> DEFINE A == aKernel[c]
           n == cpu[c].nro
           u == ultimo[c]
           R == recvRemasterizado(A).resto
<1>0. /\ EnCompas(c) /\ EnEspera(c) /\ c \in Clientes
      /\ aKernel[c] \in Seq(Trozos) /\ cpu[c].nro \in Nat /\ ultimo[c] \in Nat
      /\ aKernel \in [Clientes -> Seq(Trozos)] /\ ultimo \in [CPUs -> 0 .. MaxMensajes]
  BY TiposDeUna DEF ConversacionInv, VidaInv, EnCompas, FormaInv, TypeOK, FlujosOK, CompartidoOK
<1>1. /\ hilo[c].paso = "escuchando" /\ HayPaquete(A)
      /\ recvRemasterizado(A).tipo # 0
      /\ aKernel' = [aKernel EXCEPT ![c] = R]
      /\ ultimo' = [ultimo EXCEPT ![c] = recvRemasterizado(A).mensaje.nro]
  BY DEF Recibir, Recibido
<1>2. aKernel'[c] = R /\ ultimo'[c] = recvRemasterizado(A).mensaje.nro
  BY <1>0, <1>1
<1>3. EnMarcha(c)
  BY <1>0, <1>1 DEF EnCompas, SinHiloAun, Perdido
<1>4. PICK z \in {0, 1}, q \in Nat : EnCamino(c, z, q) /\ Vuelta(c, q)
  BY <1>3 DEF EnMarcha
<1>5. A \in Seq(Trozos) /\ n \in Nat /\ u \in Nat /\ Camino(A, z, q, n, u, Senales)
  BY <1>0, <1>4 DEF EnCamino
<1>6. q > 0 => EsDeSuModo(c, A[Len(A) - 2].entero, A[Len(A)].cuerpo.clave)
  BY <1>4 DEF EnCamino, UltimoDe
<1>7. Recibido(c) = recvRemasterizado(A)
  BY DEF Recibido
<1> HIDE DEF A, n, u, R
<1>8. /\ z = 0 /\ q > 0
      /\ recvRemasterizado(A).mensaje.nro = n - q + 1
      /\ q > 1 => /\ recvRemasterizado(A).tipo = SIGNAL_SEMAFORO
                  /\ R[Len(R) - 2] = A[Len(A) - 2] /\ R[Len(R)] = A[Len(A)]
      /\ q = 1 => /\ recvRemasterizado(A).tipo = A[Len(A) - 2].entero
                  /\ recvRemasterizado(A).mensaje = A[Len(A)].cuerpo
      /\ Camino(R, 0, q - 1, n, n - q + 1, Senales)
  <2>1. /\ z = 0 /\ q > 0
        /\ recvRemasterizado(A).mensaje.nro = n - q + 1
        /\ q > 1 => /\ recvRemasterizado(A).tipo \in Senales
                    /\ R[Len(R) - 2] = A[Len(A) - 2] /\ R[Len(R)] = A[Len(A)]
        /\ q = 1 => /\ recvRemasterizado(A).tipo = A[Len(A) - 2].entero
                    /\ recvRemasterizado(A).mensaje = A[Len(A)].cuerpo
        /\ Camino(R, 0, q - 1, n, n - q + 1, Senales)
    BY <1>1, <1>5, CaminoRecibe DEF R
  <2>2. QED
    BY <2>1 DEF Senales
<1>9. PorAtender(c)
  BY <1>4, <1>8, QuedaPorAtender
<1>10. PICK r \in Nat : r = q - 1
  BY <1>8
<1>11. ultimo'[c] = n - r
  BY <1>2, <1>5, <1>8, <1>10
<1>12. n > q /\ u \in {0, n - q}
  BY <1>5, <1>8 DEF Camino
<1>13. u \in {0, ultimo'[c] - 1} /\ (u = 0 => ultimo'[c] >= 2)
  BY <1>5, <1>10, <1>11, <1>12
<1>14. r > 0 => UltimoDe(c, aKernel[c])'
  <2>1. r > 0 => R[Len(R) - 2] = A[Len(A) - 2] /\ R[Len(R)] = A[Len(A)]
    BY <1>8, <1>10
  <2>2. r > 0 => EsDeSuModo(c, R[Len(R) - 2].entero, R[Len(R)].cuerpo.clave)
    BY <1>6, <1>8, <2>1
  <2>3. QED
    BY <1>2, <2>2 DEF UltimoDe, EsDeSuModo
<1>15. Camino(aKernel'[c], 0, r, cpu'[c].nro, ultimo'[c], Senales)
  <2>1. n - r = n - q + 1 /\ r = q - 1
    BY <1>5, <1>10
  <2>2. cpu'[c].nro = n
    BY DEF n
  <2>3. QED
    BY <1>2, <1>8, <1>11, <2>1, <2>2
<1>16. EnCamino(c, 0, r)'
  BY <1>14, <1>15 DEF EnCamino
<1>17. r > 0 => Recibido(c).tipo = SIGNAL_SEMAFORO
  BY <1>7, <1>8, <1>10
<1>18. r = 0 => EsDeSuModo(c, Recibido(c).tipo, Recibido(c).mensaje.clave)
  <2>1. r = 0 => q = 1
    BY <1>10
  <2>2. QED
    BY <1>6, <1>7, <1>8, <2>1
<1>19. QED
  BY <1>9, <1>11, <1>13, <1>16, <1>17, <1>18 DEF n, u

(* The type of the last packet says what its CPU waits for.                *)
LEMMA LoQuePidio ==
  ASSUME NEW c, EnEspera(c), cpu[c] \in EstadosCPU, NEW tipo, NEW clave,
         EsDeSuModo(c, tipo, clave), tipo # SIGNAL_SEMAFORO
  PROVE  \/ cpu[c].modo = "muerta"
         \/ cpu[c].modo = "libre" /\ tipo \in TiposDeVuelta
         \/ /\ cpu[c].modo \in Esperas /\ cpu[c].op \in Operaciones
            /\ tipo = Tipo(cpu[c].op) /\ clave = cpu[c].clave
<1>1. cpu[c].op \in Operaciones \cup {""}
  BY DEF EstadosCPU
<1>2. cpu[c].modo \in Esperas => cpu[c].op # ""
  BY DEF EnEspera, Esperas, OperacionesDeVariable
<1>3. QED
  BY <1>1, <1>2 DEF EsDeSuModo

LEMMA QuePide ==
  ASSUME NEW op \in Operaciones
  PROVE  /\ Tipo(op) \notin TiposDeVuelta
         /\ Tipo(op) = PETICION_VARIABLE_COMPARTIDA_KERNEL => op = "leer"
         /\ Tipo(op) = PETICION_CAMBIO_VALOR_KERNEL => op = "asignar"
         /\ Tipo(op) = ABRIR_ARCHIVO => op = "abrir"
         /\ Tipo(op) = CERRAR_ARCHIVO => op = "cerrar"
<1>1. op \in {"signal", "leer", "asignar", "abrir", "borrar", "cerrar", "mover", "escribir",
              "leerArchivo"}
  BY OperacionesAssumption DEF OperacionesDeVariable, OperacionesDeArchivo
<1>2. Tipo(op) = CASE op = "signal" -> 106 [] op = "leer" -> 100 [] op = "asignar" -> 101
                   [] op = "abrir" -> 300 [] op = "borrar" -> 302 [] op = "cerrar" -> 303
                   [] op = "mover" -> 304 [] op = "escribir" -> 305 [] op = "leerArchivo" -> 306
  BY DEF Tipo, SIGNAL_SEMAFORO, PETICION_VARIABLE_COMPARTIDA_KERNEL, PETICION_CAMBIO_VALOR_KERNEL,
     ABRIR_ARCHIVO, BORRAR_ARCHIVO, CERRAR_ARCHIVO, MOVER_CURSOR, ESCRIBIR_DATOS_ARCHIVO,
     LEER_DATOS_ARCHIVO
<1>3. Tipo(op) \notin TiposDeVuelta
  BY <1>1, <1>2 DEF TiposDeVuelta, PROCESO_ABORTADO, PROCESO_FINALIZADO, PROCESO_FINALIZO_RAFAGA
<1>4. Tipo(op) = 100 => op = "leer"
  BY <1>1, <1>2
<1>5. Tipo(op) = 101 => op = "asignar"
  BY <1>1, <1>2
<1>6. Tipo(op) = 300 => op = "abrir"
  BY <1>1, <1>2
<1>7. Tipo(op) = 303 => op = "cerrar"
  BY <1>1, <1>2
<1>8. QED
  BY <1>3, <1>4, <1>5, <1>6, <1>7 DEF PETICION_VARIABLE_COMPARTIDA_KERNEL,
     PETICION_CAMBIO_VALOR_KERNEL, ABRIR_ARCHIVO, CERRAR_ARCHIVO

(* A request that is not a signal is the last of its CPU, which waits for  *)
(* the answer to it, unless it gave its PCB back.                          *)
LEMMA RecibePedido ==
  ASSUME ConversacionInv, NEW c \in CPUs, EnCompas(c),
         NEW tipos, 0 \notin tipos, SIGNAL_SEMAFORO \notin tipos, Recibir(c, tipos), cpu' = cpu
  PROVE  /\ EnCamino(c, 0, 0)'
         /\ aCPU[c] = << >> \/ cpu[c].modo = "muerta"
         /\ \/ cpu[c].modo = "muerta"
            \/ cpu[c].modo = "libre" /\ Recibido(c).tipo \in TiposDeVuelta
            \/ /\ cpu[c].modo \in Esperas /\ cpu[c].op \in Operaciones
               /\ Recibido(c).tipo = Tipo(cpu[c].op)
               /\ Recibido(c).mensaje.clave = cpu[c].clave
<1>1. PICK r \in Nat :
        /\ EnCamino(c, 0, r)'
        /\ r > 0 => Recibido(c).tipo = SIGNAL_SEMAFORO
        /\ r = 0 => EsDeSuModo(c, Recibido(c).tipo, Recibido(c).mensaje.clave)
        /\ PorAtender(c)
  BY RecibeUno
<1>2. Recibido(c).tipo \in tipos
  BY DEF Recibir
<1>3. r = 0
  BY <1>1, <1>2
<1>4. EnEspera(c) /\ cpu[c] \in EstadosCPU
  BY TiposDeUna DEF ConversacionInv, VidaInv, EnCompas
<1>5. QED
  BY <1>1, <1>2, <1>3, <1>4, LoQuePidio DEF PorAtender

LEMMA QuedaEnMarcha ==
  ASSUME NEW c, NEW z \in {0, 1}, EnCamino(c, z, 0)', EnEspera(c)',
         hilo'[c].paso \notin {"ninguno", "perdido"},
         \/ cpu'[c].modo = "muerta"
         \/ cpu'[c].modo \in Esperas /\ (Asignando(c)' \/ Abriendo(c)')
         \/ cpu'[c].modo \in Esperas /\ hilo'[c].paso = "escuchando" /\ Respuesta(c)'
  PROVE  EnCompas(c)'
<1>1. Vuelta(c, 0)'
  BY DEF Vuelta, Esperando
<1>2. 0 \in Nat
  OBVIOUS
<1>3. QED
  BY <1>1, <1>2 DEF EnMarcha, EnCompas

(* What a thread does keeps its conversation with its CPU.                 *)
LEMMA ConversaManejador ==
  ASSUME ConversacionInv, NEW c \in CPUs, EnCompas(c), manejadorCPU(c)
  PROVE  EnCompas(c)'
<1>0. /\ EnCompas(c) /\ EnEspera(c) /\ c \in Clientes /\ cpu' = cpu
      /\ aKernel[c] \in Seq(Trozos) /\ aCPU[c] \in Seq(Trozos)
      /\ cpu[c].nro \in Nat /\ ultimo[c] \in Nat
      /\ hilo \in [Clientes -> EstadosHilo] /\ vistos \in [CPUs -> SUBSET Valores]
      /\ aKernel \in [Clientes -> Seq(Trozos)] /\ aCPU \in [Clientes -> Seq(Trozos)]
      /\ valor \in [SHARED_VARS -> Valores]
  BY TiposDeUna, SoloDelHilo DEF ConversacionInv, VidaInv, EnCompas, FormaInv, TypeOK, FlujosOK,
     CompartidoOK, SoloHilo
<1>1. ASSUME UNCHANGED << valor, vistos >>
      PROVE  EnEspera(c)'
  BY <1>0, <1>1 DEF EnEspera
<1>2. ASSUME hilo[c].paso \notin {"ninguno", "perdido"}
      PROVE  \E z \in {0, 1}, q \in Nat : EnCamino(c, z, q) /\ Vuelta(c, q)
  BY <1>0, <1>2 DEF EnCompas, SinHiloAun, Perdido, EnMarcha
<1>3. ASSUME NEW z, NEW q, EnCamino(c, z, q), UNCHANGED << aKernel, ultimo >>
      PROVE  EnCamino(c, z, q)'
  BY <1>0, <1>3 DEF EnCamino, UltimoDe, EsDeSuModo
<1>4. ASSUME NEW paso, NEW clave, NEW dato, Paso(c, paso, clave, dato)
      PROVE  hilo'[c].paso = paso /\ hilo'[c].clave = clave
  BY <1>0, <1>4 DEF Paso
<1>5. ASSUME NEW flujo, Contestar(c, flujo)
      PROVE  aCPU'[c] = flujo
  BY <1>0, <1>5 DEF Contestar
<1>6. ASSUME EnEspera(c)', UNCHANGED << aKernel, ultimo >>, cpu[c].modo = "muerta",
             hilo[c].paso \notin {"ninguno", "perdido"},
             hilo'[c].paso \notin {"ninguno", "perdido"}
      PROVE  EnCompas(c)'
  <2>1. PICK z \in {0, 1}, q \in Nat : EnCamino(c, z, q)
    BY <1>2, <1>6
  <2>2. EnCamino(c, z, q)'
    BY <1>3, <1>6, <2>1
  <2>3. Vuelta(c, q)'
    BY <1>0, <1>6 DEF Vuelta
  <2>4. QED
    BY <1>6, <2>2, <2>3 DEF EnCompas, EnMarcha
<1>7. ASSUME enviarPCB(c)
      PROVE  EnCompas(c)'
  <2>1. /\ hilo[c].paso = "buscando" /\ cpu[c].modo # "muerta"
        /\ aCPU' = [aCPU EXCEPT ![c] = ConPCB(aCPU[c])]
        /\ hilo'[c].paso = "escuchando"
        /\ UNCHANGED << aKernel, ultimo, valor, vistos >>
    BY <1>4, <1>7 DEF enviarPCB, peticiones, ConPCB
  <2>2. PICK z \in {0, 1}, q \in Nat : EnCamino(c, z, q) /\ Vuelta(c, q)
    BY <1>2, <2>1
  <2>3. Saludando(c, q) \/ Libre(c, q)
    BY <2>1, <2>2 DEF Vuelta, Ejecutando, Esperando, Asignando, Abriendo
  <2>4. aCPU'[c] = ConPCB(aCPU[c])
    BY <1>0, <2>1
  <2>5. ASSUME Saludando(c, q)
        PROVE  Vuelta(c, q)'
    <3>1. q = 0 /\ \/ cpu[c].modo = "saludando" /\ aCPU[c] = Cfg
                   \/ cpu[c].modo = "saludandoMemoria" /\ aCPU[c] = << >>
      BY <2>1, <2>5 DEF Saludando
    <3>2. Saludando(c, q)'
      BY <1>0, <2>1, <2>4, <3>1 DEF Saludando
    <3>3. QED
      BY <3>2 DEF Vuelta
  <2>6. ASSUME Libre(c, q)
        PROVE  Vuelta(c, q)'
    <3>1. q = 0 /\ cpu[c].modo = "libre" /\ aCPU[c] = << >>
      BY <2>1, <2>6 DEF Libre
    <3>2. Libre(c, q)'
      BY <1>0, <2>1, <2>4, <3>1 DEF Libre
    <3>3. QED
      BY <3>2 DEF Vuelta
  <2>7. Vuelta(c, q)'
    BY <2>3, <2>5, <2>6
  <2>8. EnCamino(c, z, q)'
    BY <1>3, <2>1, <2>2
  <2>9. QED
    BY <1>1, <2>1, <2>7, <2>8 DEF EnCompas, EnMarcha
<1>8. ASSUME EnviarACPUPerdida(c)
      PROVE  EnCompas(c)'
  <2>1. /\ hilo[c].paso = "buscando" /\ cpu[c].modo = "muerta" /\ hilo' = hilo
        /\ UNCHANGED << aKernel, ultimo, valor, vistos >>
    BY <1>8 DEF EnviarACPUPerdida, peticiones, flujos
  <2>2. QED
    BY <1>1, <1>6, <2>1
<1>9. ASSUME RecibirFueraDePaso(c)
      PROVE  EnCompas(c)'
  <2> DEFINE A == aKernel[c]
             R == recvRemasterizado(A).resto
  <2>1. /\ hilo[c].paso = "escuchando" /\ HayPaquete(A) /\ recvRemasterizado(A).tipo = 0
        /\ aKernel' = [aKernel EXCEPT ![c] = R]
        /\ hilo' = [hilo EXCEPT ![c].paso = IF TerminaDentroDeOtro(A) THEN "perdido" ELSE @]
        /\ UNCHANGED << aCPU, ultimo, valor, vistos >>
    BY <1>9 DEF RecibirFueraDePaso, Recibido, peticiones
  <2>2. PICK z \in {0, 1}, q \in Nat : EnCamino(c, z, q) /\ Vuelta(c, q)
    BY <1>2, <2>1
  <2>3. Camino(A, z, q, cpu[c].nro, ultimo[c], Senales)
    BY <2>2 DEF EnCamino
  <2>4. /\ z = 1 /\ q > 0
        /\ ~TerminaDentroDeOtro(A) =>
             \E r \in Nat :
               /\ Camino(R, 0, r, cpu[c].nro, 0, Senales)
               /\ r > 0 => R[Len(R) - 2] = A[Len(A) - 2] /\ R[Len(R)] = A[Len(A)]
    BY <1>0, <2>1, <2>3, CaminoFuera
  <2>5. PorAtender(c)
    BY <2>2, <2>4, QuedaPorAtender
  <2>6. EnEspera(c)'
    BY <1>1, <2>1
  <2>7. aKernel'[c] = R /\ aCPU'[c] = aCPU[c] /\ hilo[c] \in EstadosHilo
    BY <1>0, <2>1
  <2>8. CASE TerminaDentroDeOtro(A)
    <3>1. hilo'[c].paso = "perdido"
      BY <1>0, <2>1, <2>7, <2>8 DEF EstadosHilo
    <3>2. Perdido(c)'
      BY <1>0, <2>5, <2>7, <3>1 DEF PorAtender, Perdido
    <3>3. QED
      BY <2>6, <3>2 DEF EnCompas
  <2>9. CASE ~TerminaDentroDeOtro(A)
    <3>1. hilo'[c].paso = hilo[c].paso
      BY <1>0, <2>1, <2>7, <2>9 DEF EstadosHilo
    <3>2. PICK r \in Nat :
            /\ Camino(R, 0, r, cpu[c].nro, 0, Senales)
            /\ r > 0 => R[Len(R) - 2] = A[Len(A) - 2] /\ R[Len(R)] = A[Len(A)]
      BY <2>4, <2>9
    <3>3. ultimo[c] = 0
      BY <2>3, <2>4 DEF Camino
    <3>4. UltimoDe(c, A)
      BY <2>2, <2>4 DEF EnCamino
    <3> HIDE DEF R
    <3>5. r > 0 => UltimoDe(c, R)
      BY <3>2, <3>4 DEF UltimoDe
    <3>6. r > 0 => UltimoDe(c, aKernel[c])'
      BY <1>0, <2>7, <3>5 DEF UltimoDe, EsDeSuModo
    <3>7. Camino(aKernel'[c], 0, r, cpu'[c].nro, ultimo'[c], Senales)
      BY <1>0, <2>1, <2>7, <3>2, <3>3
    <3>8. EnCamino(c, 0, r)'
      BY <3>6, <3>7 DEF EnCamino
    <3>9. QED
      BY <1>0, <2>1, <2>5, <2>6, <2>7, <3>1, <3>8, SigueEnMarcha
  <2>10. QED
    BY <2>8, <2>9
<1>10. ASSUME RecibirDeCPUPerdida(c)
       PROVE  EnCompas(c)'
  <2>1. /\ cpu[c].modo = "muerta" /\ hilo'[c].paso = "perdido"
        /\ UNCHANGED << valor, vistos >>
    BY <1>4, <1>10 DEF RecibirDeCPUPerdida, peticiones
  <2>2. QED
    BY <1>0, <1>1, <2>1 DEF EnCompas, Perdido
<1>11. ASSUME NEW tipos, 0 \notin tipos, Recibir(c, tipos),
              UNCHANGED << hilo, aCPU, valor, vistos >>
       PROVE  EnCompas(c)'
  <2>1. PICK r \in Nat : EnCamino(c, 0, r)' /\ PorAtender(c)
    BY <1>0, <1>11, RecibeUno
  <2>2. hilo[c].paso = "escuchando"
    BY <1>11 DEF Recibir
  <2>3. QED
    BY <1>0, <1>1, <1>11, <2>1, <2>2, SigueEnMarcha
<1>12. ASSUME signalSemaforo(c)
       PROVE  EnCompas(c)'
  BY <1>11, <1>12 DEF signalSemaforo, SIGNAL_SEMAFORO
<1>13. ASSUME NEW tipo \in {BORRAR_ARCHIVO, ESCRIBIR_DATOS_ARCHIVO, LEER_DATOS_ARCHIVO,
                            MOVER_CURSOR},
              SinEntrada(c, tipo)
       PROVE  EnCompas(c)'
  <2>1. 0 \notin {tipo}
    BY DEF BORRAR_ARCHIVO, ESCRIBIR_DATOS_ARCHIVO, LEER_DATOS_ARCHIVO, MOVER_CURSOR
  <2>2. QED
    BY <1>11, <1>13, <2>1 DEF SinEntrada
<1>14. ASSUME NEW tipos, Recibir(c, tipos),
              tipos \subseteq TiposDeVuelta \cup {PETICION_VARIABLE_COMPARTIDA_KERNEL,
                PETICION_CAMBIO_VALOR_KERNEL, ABRIR_ARCHIVO, CERRAR_ARCHIVO}
       PROVE  /\ EnCamino(c, 0, 0)'
              /\ aCPU[c] = << >> \/ cpu[c].modo = "muerta"
              /\ Recibido(c).tipo \in tipos
              /\ \/ cpu[c].modo = "muerta"
                 \/ cpu[c].modo = "libre" /\ Recibido(c).tipo \in TiposDeVuelta
                 \/ /\ cpu[c].modo \in Esperas /\ cpu[c].op \in Operaciones
                    /\ Recibido(c).tipo = Tipo(cpu[c].op)
                    /\ Recibido(c).mensaje.clave = cpu[c].clave
  <2>1. 0 \notin tipos /\ SIGNAL_SEMAFORO \notin tipos
    BY <1>14 DEF TiposDeVuelta, SIGNAL_SEMAFORO, PROCESO_ABORTADO, PROCESO_FINALIZADO,
       PROCESO_FINALIZO_RAFAGA, PETICION_VARIABLE_COMPARTIDA_KERNEL, PETICION_CAMBIO_VALOR_KERNEL,
       ABRIR_ARCHIVO, CERRAR_ARCHIVO
  <2>2. Recibido(c).tipo \in tipos
    BY <1>14 DEF Recibir
  <2>3. QED
    BY <1>0, <1>14, <2>1, <2>2, RecibePedido
<1>15. ASSUME VuelvePCB(c)
       PROVE  EnCompas(c)'
  <2>1. /\ Recibir(c, TiposDeVuelta) /\ hilo'[c].paso = "buscando"
        /\ UNCHANGED << aCPU, valor, vistos >>
    BY <1>4, <1>15 DEF VuelvePCB, TiposDeVuelta
  <2>2. /\ EnCamino(c, 0, 0)'
        /\ aCPU[c] = << >> \/ cpu[c].modo = "muerta"
        /\ cpu[c].modo \in {"libre", "muerta"}
    <3>1. Recibido(c).tipo \in TiposDeVuelta
      BY <2>1 DEF Recibir
    <3>2. /\ EnCamino(c, 0, 0)'
          /\ aCPU[c] = << >> \/ cpu[c].modo = "muerta"
          /\ \/ cpu[c].modo \in {"libre", "muerta"}
             \/ cpu[c].op \in Operaciones /\ Recibido(c).tipo = Tipo(cpu[c].op)
      BY <1>14, <2>1
    <3>3. QED
      BY <3>1, <3>2, QuePide
  <2>3. Vuelta(c, 0)'
    BY <1>0, <2>1, <2>2 DEF Vuelta, Libre
  <2>4. 0 \in Nat
    OBVIOUS
  <2>5. QED
    BY <1>1, <2>1, <2>2, <2>3, <2>4 DEF EnCompas, EnMarcha
<1>16. ASSUME NEW x \in vistos'[c], aCPU[c] = << >>, EnviarValor(c, x)
       PROVE  aCPU'[c] = ConValor(x)
  BY <1>5, <1>16 DEF EnviarValor, ConValor
<1>17. ASSUME obtenerValorVariableCompartida(c)
       PROVE  EnCompas(c)'
  <2> DEFINE v == Recibido(c).mensaje.clave
  <2>1. /\ Recibir(c, {PETICION_VARIABLE_COMPARTIDA_KERNEL}) /\ v \in SHARED_VARS
        /\ EnviarValor(c, valor[v])
        /\ UNCHANGED << hilo, valor, vistos >>
    BY <1>17 DEF obtenerValorVariableCompartida
  <2>2. Recibido(c).tipo = PETICION_VARIABLE_COMPARTIDA_KERNEL /\ hilo[c].paso = "escuchando"
    BY <2>1 DEF Recibir
  <2>3. /\ EnCamino(c, 0, 0)'
        /\ aCPU[c] = << >> \/ cpu[c].modo = "muerta"
        /\ \/ cpu[c].modo = "muerta"
           \/ cpu[c].modo = "libre" /\ Recibido(c).tipo \in TiposDeVuelta
           \/ /\ cpu[c].modo \in Esperas /\ cpu[c].op \in Operaciones
              /\ Recibido(c).tipo = Tipo(cpu[c].op)
              /\ v = cpu[c].clave
    BY <1>14, <2>1
  <2>4. cpu[c].modo # "muerta" =>
          cpu[c].modo \in Esperas /\ cpu[c].op = "leer" /\ v = cpu[c].clave
    BY <2>2, <2>3, QuePide DEF TiposDeVuelta, PROCESO_ABORTADO, PROCESO_FINALIZADO,
       PROCESO_FINALIZO_RAFAGA, PETICION_VARIABLE_COMPARTIDA_KERNEL
  <2> HIDE DEF v
  <2>5. cpu[c].modo # "muerta" => Respuesta(c)'
    <3>1. cpu[c].modo # "muerta" => valor[v] \in vistos[c]
      BY <1>0, <2>1, <2>4 DEF EnEspera
    <3>2. cpu[c].modo # "muerta" => aCPU'[c] = ConValor(valor[v])
      BY <1>16, <2>1, <2>3, <3>1
    <3>3. QED
      BY <1>0, <2>1, <2>4, <3>1, <3>2 DEF Respuesta, OperacionesDeVariable
  <2>6. QED
    BY <1>0, <1>1, <2>1, <2>2, <2>3, <2>4, <2>5, QuedaEnMarcha
<1>18. ASSUME VariableInexistente(c)
       PROVE  EnCompas(c)'
  <2>1. /\ Recibir(c, {PETICION_VARIABLE_COMPARTIDA_KERNEL, PETICION_CAMBIO_VALOR_KERNEL})
        /\ Contestar(c, sendRemasterizado(aCPU[c], OPERACION_VARIABLE_COMPARTIDA_FALLIDA, 0, Vacio))
        /\ UNCHANGED << hilo, valor, vistos >>
    BY <1>18 DEF VariableInexistente
  <2>2. /\ Recibido(c).tipo \in {PETICION_VARIABLE_COMPARTIDA_KERNEL, PETICION_CAMBIO_VALOR_KERNEL}
        /\ hilo[c].paso = "escuchando"
    BY <2>1 DEF Recibir
  <2>3. /\ EnCamino(c, 0, 0)'
        /\ aCPU[c] = << >> \/ cpu[c].modo = "muerta"
        /\ \/ cpu[c].modo = "muerta"
           \/ cpu[c].modo = "libre" /\ Recibido(c).tipo \in TiposDeVuelta
           \/ /\ cpu[c].modo \in Esperas /\ cpu[c].op \in Operaciones
              /\ Recibido(c).tipo = Tipo(cpu[c].op)
    BY <1>14, <2>1
  <2>4. cpu[c].modo # "muerta" => cpu[c].modo \in Esperas /\ cpu[c].op \in {"leer", "asignar"}
    BY <2>2, <2>3, QuePide DEF TiposDeVuelta, PROCESO_ABORTADO, PROCESO_FINALIZADO,
       PROCESO_FINALIZO_RAFAGA, PETICION_VARIABLE_COMPARTIDA_KERNEL, PETICION_CAMBIO_VALOR_KERNEL
  <2>5. aCPU'[c] = sendRemasterizado(aCPU[c], OPERACION_VARIABLE_COMPARTIDA_FALLIDA, 0, Vacio)
    BY <1>5, <2>1
  <2>6. cpu[c].modo # "muerta" => Respuesta(c)'
    BY <1>0, <2>3, <2>4, <2>5 DEF Respuesta, OperacionesDeVariable, SinValor
  <2>7. QED
    BY <1>0, <1>1, <2>1, <2>2, <2>3, <2>4, <2>6, QuedaEnMarcha
<1>19. ASSUME asignarValorVariableCompartida(c)
       PROVE  EnCompas(c)'
  <2> DEFINE m == Recibido(c).mensaje
  <2>1. /\ Recibir(c, {PETICION_CAMBIO_VALOR_KERNEL}) /\ m.clave \in SHARED_VARS
        /\ valor' = [valor EXCEPT ![m.clave] = m.valor]
        /\ Paso(c, "asignando", m.clave, valor[m.clave])
        /\ UNCHANGED aCPU
    BY <1>19 DEF asignarValorVariableCompartida
  <2>2. vistos'[c] = {m.valor}
    BY <1>19 DEF asignarValorVariableCompartida
  <2>3. /\ Recibido(c).tipo = PETICION_CAMBIO_VALOR_KERNEL
        /\ hilo'[c].paso = "asignando" /\ hilo'[c].clave = m.clave
    BY <1>4, <2>1 DEF Recibir
  <2>4. /\ EnCamino(c, 0, 0)'
        /\ aCPU[c] = << >> \/ cpu[c].modo = "muerta"
        /\ \/ cpu[c].modo = "muerta"
           \/ cpu[c].modo = "libre" /\ Recibido(c).tipo \in TiposDeVuelta
           \/ /\ cpu[c].modo \in Esperas /\ cpu[c].op \in Operaciones
              /\ Recibido(c).tipo = Tipo(cpu[c].op)
              /\ m.clave = cpu[c].clave
    BY <1>14, <2>1
  <2>5. cpu[c].modo # "muerta" =>
          cpu[c].modo \in Esperas /\ cpu[c].op = "asignar" /\ m.clave = cpu[c].clave
    BY <2>3, <2>4, QuePide DEF TiposDeVuelta, PROCESO_ABORTADO, PROCESO_FINALIZADO,
       PROCESO_FINALIZO_RAFAGA, PETICION_CAMBIO_VALOR_KERNEL
  <2> HIDE DEF m
  <2>6. valor'[m.clave] \in vistos'[c]
    BY <1>0, <2>1, <2>2
  <2>7. EnEspera(c)'
    <3>1. cpu[c].op # "leer"
      BY <1>0, <2>5 DEF EnEspera, OperacionesDeVariable
    <3>2. QED
      BY <1>0, <3>1 DEF EnEspera
  <2>8. cpu[c].modo # "muerta" => Asignando(c)'
    BY <1>0, <2>1, <2>3, <2>4, <2>5, <2>6 DEF Asignando
  <2>9. QED
    BY <1>0, <2>3, <2>4, <2>5, <2>7, <2>8, QuedaEnMarcha
<1>20. ASSUME ContestarAsignacion(c)
       PROVE  EnCompas(c)'
  <2>1. /\ hilo[c].paso = "asignando" /\ EnviarValor(c, valor[hilo[c].clave])
        /\ hilo'[c].paso = "escuchando"
        /\ UNCHANGED << aKernel, ultimo, valor, vistos >>
    BY <1>4, <1>20 DEF ContestarAsignacion, peticiones
  <2>2. PICK z \in {0, 1}, q \in Nat : EnCamino(c, z, q) /\ Vuelta(c, q)
    BY <1>2, <2>1
  <2>3. ASSUME cpu[c].modo # "muerta"
        PROVE  EnCompas(c)'
    <3>1. q = 0 /\ Asignando(c) /\ cpu[c].modo \in Esperas
      BY <2>1, <2>2, <2>3 DEF Vuelta, Saludando, Libre, Ejecutando, Esperando, Abriendo
    <3>2. /\ cpu[c].op = "asignar" /\ aCPU[c] = << >>
          /\ valor[hilo[c].clave] \in vistos[c]
      BY <3>1 DEF Asignando
    <3>3. aCPU'[c] = ConValor(valor[hilo[c].clave])
      BY <1>16, <2>1, <3>2
    <3>4. Respuesta(c)'
      BY <1>0, <2>1, <3>2, <3>3 DEF Respuesta, OperacionesDeVariable
    <3>5. EnCamino(c, z, 0)'
      BY <1>3, <2>1, <2>2, <3>1
    <3>6. QED
      BY <1>0, <1>1, <2>1, <3>1, <3>4, <3>5, QuedaEnMarcha
  <2>4. ASSUME cpu[c].modo = "muerta"
        PROVE  EnCompas(c)'
    BY <1>1, <1>6, <2>1, <2>4
  <2>5. QED
    BY <2>3, <2>4
<1>21. ASSUME NEW n \in {OPERACION_CON_ARCHIVO_EXITOSA, OPERACION_FALLIDA},
              aCPU'[c] = sendDeNotificacion(<< >>, n), cpu[c].op \in {"abrir", "cerrar"}
       PROVE  Respuesta(c)'
  BY <1>0, <1>21 DEF Respuesta
<1>22. ASSUME abrirArchivo(c)
       PROVE  EnCompas(c)'
  <2>1. /\ Recibir(c, {ABRIR_ARCHIVO}) /\ hilo'[c].paso = "validando"
        /\ UNCHANGED << aCPU, valor, vistos >>
    BY <1>4, <1>22 DEF abrirArchivo
  <2>2. Recibido(c).tipo = ABRIR_ARCHIVO
    BY <2>1 DEF Recibir
  <2>3. /\ EnCamino(c, 0, 0)'
        /\ aCPU[c] = << >> \/ cpu[c].modo = "muerta"
        /\ \/ cpu[c].modo = "muerta"
           \/ cpu[c].modo = "libre" /\ Recibido(c).tipo \in TiposDeVuelta
           \/ /\ cpu[c].modo \in Esperas /\ cpu[c].op \in Operaciones
              /\ Recibido(c).tipo = Tipo(cpu[c].op)
    BY <1>14, <2>1
  <2>4. cpu[c].modo # "muerta" => cpu[c].modo \in Esperas /\ cpu[c].op = "abrir"
    BY <2>2, <2>3, QuePide DEF TiposDeVuelta, PROCESO_ABORTADO, PROCESO_FINALIZADO,
       PROCESO_FINALIZO_RAFAGA, ABRIR_ARCHIVO
  <2>5. cpu[c].modo # "muerta" => Abriendo(c)'
    BY <1>0, <2>1, <2>3, <2>4 DEF Abriendo
  <2>6. QED
    BY <1>0, <1>1, <2>1, <2>3, <2>4, <2>5, QuedaEnMarcha
<1>23. ASSUME cerrarArchivo(c)
       PROVE  EnCompas(c)'
  <2>1. /\ Recibir(c, {CERRAR_ARCHIVO})
        /\ Contestar(c, sendDeNotificacion(aCPU[c], OPERACION_FALLIDA))
        /\ UNCHANGED << hilo, valor, vistos >>
    BY <1>23 DEF cerrarArchivo
  <2>2. Recibido(c).tipo = CERRAR_ARCHIVO /\ hilo[c].paso = "escuchando"
    BY <2>1 DEF Recibir
  <2>3. /\ EnCamino(c, 0, 0)'
        /\ aCPU[c] = << >> \/ cpu[c].modo = "muerta"
        /\ \/ cpu[c].modo = "muerta"
           \/ cpu[c].modo = "libre" /\ Recibido(c).tipo \in TiposDeVuelta
           \/ /\ cpu[c].modo \in Esperas /\ cpu[c].op \in Operaciones
              /\ Recibido(c).tipo = Tipo(cpu[c].op)
    BY <1>14, <2>1
  <2>4. cpu[c].modo # "muerta" => cpu[c].modo \in Esperas /\ cpu[c].op = "cerrar"
    BY <2>2, <2>3, QuePide DEF TiposDeVuelta, PROCESO_ABORTADO, PROCESO_FINALIZADO,
       PROCESO_FINALIZO_RAFAGA, CERRAR_ARCHIVO
  <2>5. aCPU'[c] = sendDeNotificacion(aCPU[c], OPERACION_FALLIDA)
    BY <1>5, <2>1
  <2>6. cpu[c].modo # "muerta" => Respuesta(c)'
    BY <1>21, <2>3, <2>4, <2>5
  <2>7. QED
    BY <1>0, <1>1, <2>1, <2>2, <2>3, <2>4, <2>6, QuedaEnMarcha
<1>24. ASSUME hilo[c].paso \in {"validando", "creando"},
              UNCHANGED << aKernel, ultimo, valor, vistos >>,
              \/ UNCHANGED << hilo, aCPU >>
              \/ hilo'[c].paso = "creando" /\ UNCHANGED aCPU
              \/ /\ hilo'[c].paso = "escuchando"
                 /\ \E n \in {OPERACION_CON_ARCHIVO_EXITOSA, OPERACION_FALLIDA} :
                      Contestar(c, sendDeNotificacion(aCPU[c], n))
       PROVE  EnCompas(c)'
  <2>1. PICK z \in {0, 1}, q \in Nat : EnCamino(c, z, q) /\ Vuelta(c, q)
    BY <1>2, <1>24
  <2>2. ASSUME cpu[c].modo # "muerta"
        PROVE  EnCompas(c)'
    <3>1. q = 0 /\ Abriendo(c) /\ cpu[c].modo \in Esperas
      BY <1>24, <2>1, <2>2 DEF Vuelta, Saludando, Libre, Ejecutando, Esperando, Asignando
    <3>2. aCPU[c] = << >> /\ cpu[c].op = "abrir"
      BY <3>1 DEF Abriendo
    <3>3. EnCamino(c, z, 0)'
      BY <1>3, <1>24, <2>1, <3>1
    <3>4. \/ Abriendo(c)' /\ hilo'[c].paso \in {"validando", "creando"}
          \/ hilo'[c].paso = "escuchando" /\ Respuesta(c)'
      BY <1>0, <1>5, <1>21, <1>24, <3>2 DEF Abriendo
    <3>5. QED
      BY <1>0, <1>1, <1>24, <3>1, <3>3, <3>4, QuedaEnMarcha
  <2>3. ASSUME cpu[c].modo = "muerta"
        PROVE  EnCompas(c)'
    BY <1>1, <1>6, <1>24, <2>3
  <2>4. QED
    BY <2>2, <2>3
<1>25. ASSUME NEW path, EntrarEnTablas(c, path) \/ NoSePudoAbrir(c)
       PROVE  \/ UNCHANGED << hilo, aCPU >>
              \/ /\ hilo'[c].paso = "escuchando"
                 /\ \E n \in {OPERACION_CON_ARCHIVO_EXITOSA, OPERACION_FALLIDA} :
                      Contestar(c, sendDeNotificacion(aCPU[c], n))
  <2>1. ASSUME Paso(c, "escuchando", "", 0),
               NEW n \in {OPERACION_CON_ARCHIVO_EXITOSA, OPERACION_FALLIDA},
               Contestar(c, sendDeNotificacion(aCPU[c], n))
        PROVE  /\ hilo'[c].paso = "escuchando"
               /\ \E k \in {OPERACION_CON_ARCHIVO_EXITOSA, OPERACION_FALLIDA} :
                    Contestar(c, sendDeNotificacion(aCPU[c], k))
    BY <1>4, <2>1
  <2>2. QED
    BY <1>25, <2>1 DEF EntrarEnTablas, NoSePudoAbrir
<1>26. ASSUME validarArchivo(c)
       PROVE  EnCompas(c)'
  <2>1. hilo[c].paso = "validando" /\ UNCHANGED << aKernel, ultimo, valor, vistos >>
    BY <1>26 DEF validarArchivo, RecibirDelFS
  <2>2. \/ EntrarEnTablas(c, hilo[c].clave) \/ NoSePudoAbrir(c)
        \/ Paso(c, "creando", hilo[c].clave, 0) /\ UNCHANGED aCPU
    BY <1>26 DEF validarArchivo
  <2>3. QED
    BY <1>4, <1>24, <1>25, <2>1, <2>2
<1>27. ASSUME crearArchivo(c)
       PROVE  EnCompas(c)'
  <2>1. hilo[c].paso = "creando" /\ UNCHANGED << aKernel, ultimo, valor, vistos >>
    BY <1>27 DEF crearArchivo, RecibirDelFS
  <2>2. EntrarEnTablas(c, hilo[c].clave) \/ NoSePudoAbrir(c)
    BY <1>27 DEF crearArchivo
  <2>3. QED
    BY <1>24, <1>25, <2>1, <2>2
<1>28. QED
  BY <1>7, <1>8, <1>9, <1>10, <1>12, <1>13, <1>15, <1>17, <1>18, <1>19, <1>20, <1>22, <1>23, <1>26,
     <1>27
     DEF manejadorCPU, borrarArchivo, escribirArchivo, leerArchivo, moverCursor

(* A thread only attends a packet, of those it numbers, in Recibir.        *)
LEMMA QuienRecibe ==
  ASSUME NEW c, manejadorCPU(c)
  PROVE  \/ RecibirFueraDePaso(c) \/ RecibirDeCPUPerdida(c)
         \/ UNCHANGED << aKernel, ultimo >> /\ hilo[c].paso \notin {"ninguno", "perdido"}
         \/ \E tipos : Recibir(c, tipos) /\ 0 \notin tipos
<1>1. CASE \/ enviarPCB(c) \/ EnviarACPUPerdida(c) \/ ContestarAsignacion(c)
           \/ validarArchivo(c) \/ crearArchivo(c)
  BY <1>1 DEF enviarPCB, EnviarACPUPerdida, ContestarAsignacion, validarArchivo, crearArchivo,
     RecibirDelFS, peticiones, flujos
<1>2. CASE signalSemaforo(c)
  BY <1>2 DEF signalSemaforo, SIGNAL_SEMAFORO
<1>3. CASE VuelvePCB(c)
  <2>1. Recibir(c, TiposDeVuelta)
    BY <1>3 DEF VuelvePCB, TiposDeVuelta
  <2>2. 0 \notin TiposDeVuelta
    BY DEF TiposDeVuelta, PROCESO_ABORTADO, PROCESO_FINALIZADO, PROCESO_FINALIZO_RAFAGA
  <2>3. QED
    BY <2>1, <2>2
<1>4. CASE obtenerValorVariableCompartida(c) \/ VariableInexistente(c)
           \/ asignarValorVariableCompartida(c)
  BY <1>4 DEF obtenerValorVariableCompartida, VariableInexistente, asignarValorVariableCompartida,
     PETICION_VARIABLE_COMPARTIDA_KERNEL, PETICION_CAMBIO_VALOR_KERNEL
<1>5. CASE abrirArchivo(c) \/ cerrarArchivo(c) \/ borrarArchivo(c) \/ escribirArchivo(c)
           \/ leerArchivo(c) \/ moverCursor(c)
  BY <1>5 DEF abrirArchivo, cerrarArchivo, borrarArchivo, escribirArchivo, leerArchivo,
     moverCursor, SinEntrada, ABRIR_ARCHIVO, CERRAR_ARCHIVO, BORRAR_ARCHIVO,
     ESCRIBIR_DATOS_ARCHIVO, LEER_DATOS_ARCHIVO, MOVER_CURSOR
<1>6. QED
  BY <1>1, <1>2, <1>3, <1>4, <1>5 DEF manejadorCPU

(* A thread that runs does not stop being one.                             *)
LEMMA SigueHabiendoHilo ==
  ASSUME NEW c \in Clientes, hilo \in [Clientes -> EstadosHilo], manejadorCPU(c),
         hilo[c].paso # "ninguno"
  PROVE  hilo'[c].paso # "ninguno"
<1>1. ASSUME NEW paso, paso # "ninguno", NEW clave, NEW dato, Paso(c, paso, clave, dato)
      PROVE  hilo'[c].paso # "ninguno"
  BY <1>1 DEF Paso
<1>2. CASE \/ enviarPCB(c) \/ RecibirDeCPUPerdida(c) \/ VuelvePCB(c)
           \/ asignarValorVariableCompartida(c) \/ ContestarAsignacion(c) \/ abrirArchivo(c)
  BY <1>1, <1>2 DEF enviarPCB, RecibirDeCPUPerdida, VuelvePCB, asignarValorVariableCompartida,
     ContestarAsignacion, abrirArchivo
<1>3. CASE RecibirFueraDePaso(c)
  <2>1. \/ hilo' = [hilo EXCEPT ![c] = [hilo[c] EXCEPT !.paso = "perdido"]]
        \/ hilo' = [hilo EXCEPT ![c] = [hilo[c] EXCEPT !.paso = hilo[c].paso]]
    BY <1>3 DEF RecibirFueraDePaso
  <2>2. ASSUME NEW paso
        PROVE  [hilo[c] EXCEPT !.paso = paso].paso = paso
    BY DEF EstadosHilo
  <2>3. QED
    BY <2>1, <2>2
<1>4. CASE \/ EnviarACPUPerdida(c) \/ signalSemaforo(c) \/ obtenerValorVariableCompartida(c)
           \/ VariableInexistente(c) \/ cerrarArchivo(c) \/ borrarArchivo(c)
           \/ escribirArchivo(c) \/ leerArchivo(c) \/ moverCursor(c)
  BY <1>4 DEF EnviarACPUPerdida, signalSemaforo, obtenerValorVariableCompartida,
     VariableInexistente, cerrarArchivo, borrarArchivo, escribirArchivo, leerArchivo,
     moverCursor, SinEntrada
<1>5. CASE validarArchivo(c) \/ crearArchivo(c)
  <2>1. \/ Paso(c, "creando", hilo[c].clave, 0) \/ NoSePudoAbrir(c)
        \/ EntrarEnTablas(c, hilo[c].clave)
    BY <1>5 DEF validarArchivo, crearArchivo
  <2>2. Paso(c, "creando", hilo[c].clave, 0) \/ Paso(c, "escuchando", "", 0) \/ hilo' = hilo
    BY <2>1 DEF NoSePudoAbrir, EntrarEnTablas
  <2>3. QED
    BY <1>1, <2>2
<1>6. QED
  BY <1>2, <1>3, <1>4, <1>5 DEF manejadorCPU

(* What a thread finds in a packet of a CPU that closed a turn twice.      *)
LEMMA RecibeDescompasada ==
  ASSUME ConversacionInv, NEW c \in CPUs, Descompasada(c), NEW tipos, 0 \notin tipos,
         Recibir(c, tipos), cpu' = cpu
  PROVE  /\ ultimo[c] \in {0, ultimo'[c] - 1}
         /\ ultimo[c] = 0 => ultimo'[c] >= 2
         /\ \E q \in Nat : Camino(aKernel'[c], 0, q, cpu'[c].nro, ultimo'[c], Int)
<1> DEFINE A == aKernel[c]
           n == cpu[c].nro
           u == ultimo[c]
           R == recvRemasterizado(A).resto
<1>0. /\ c \in Clientes
      /\ aKernel[c] \in Seq(Trozos) /\ cpu[c].nro \in Nat /\ ultimo[c] \in Nat
      /\ aKernel \in [Clientes -> Seq(Trozos)] /\ ultimo \in [CPUs -> 0 .. MaxMensajes]
  BY TiposDeUna DEF ConversacionInv, VidaInv, FormaInv, TypeOK, FlujosOK, CompartidoOK
<1>1. /\ hilo[c].paso = "escuchando" /\ HayPaquete(A)
      /\ recvRemasterizado(A).tipo # 0
      /\ aKernel' = [aKernel EXCEPT ![c] = R]
      /\ ultimo' = [ultimo EXCEPT ![c] = recvRemasterizado(A).mensaje.nro]
  BY DEF Recibir, Recibido
<1>2. aKernel'[c] = R /\ ultimo'[c] = recvRemasterizado(A).mensaje.nro /\ cpu'[c].nro = n
  BY <1>0, <1>1
<1>3. PICK z \in {0, 1}, q \in Nat : Camino(A, z, q, n, u, Int)
  BY <1>1 DEF Descompasada
<1>4. A \in Seq(Trozos) /\ n \in Nat /\ u \in Nat /\ HayPaquete(A)
      /\ recvRemasterizado(A).tipo # 0
  BY <1>0, <1>1
<1>5. ultimo[c] = u
  OBVIOUS
<1> HIDE DEF A, n, u, R
<1>6. /\ z = 0 /\ q > 0
      /\ recvRemasterizado(A).mensaje.nro = n - q + 1
      /\ Camino(R, 0, q - 1, n, n - q + 1, Int)
  BY <1>3, <1>4, CaminoRecibe DEF R
<1>7. n > q /\ u \in {0, n - q}
  BY <1>3, <1>6 DEF Camino
<1>8. ultimo'[c] = n - q + 1 /\ q - 1 \in Nat
  BY <1>2, <1>6
<1>9. u \in {0, ultimo'[c] - 1} /\ (u = 0 => ultimo'[c] >= 2)
  BY <1>4, <1>7, <1>8
<1>10. \E r \in Nat : Camino(aKernel'[c], 0, r, cpu'[c].nro, ultimo'[c], Int)
  BY <1>2, <1>6, <1>8
<1>11. QED
  BY <1>5, <1>9, <1>10

(* Its thread attends its packets in order, whatever they are.             *)
LEMMA DescompasadaManejador ==
  ASSUME ConversacionInv, NEW c \in CPUs, Descompasada(c), manejadorCPU(c)
  PROVE  Descompasada(c)'
<1>0. /\ EnEspera(c) /\ cpu[c].modo \in {"repite", "destiempo", "muerta"}
      /\ c \in Clientes /\ cpu' = cpu
      /\ aKernel[c] \in Seq(Trozos) /\ cpu[c].nro \in Nat /\ ultimo[c] \in Nat
      /\ hilo \in [Clientes -> EstadosHilo] /\ aKernel \in [Clientes -> Seq(Trozos)]
  BY TiposDeUna, SoloDelHilo DEF ConversacionInv, VidaInv, FormaInv, TypeOK, FlujosOK,
     Descompasada, SoloHilo
<1>1. EnEspera(c)'
  BY <1>0 DEF EnEspera, OperacionesDeVariable
<1>2. ASSUME NEW tipos, Recibir(c, tipos), 0 \notin tipos, hilo'[c].paso # "ninguno"
      PROVE  Descompasada(c)'
  BY <1>0, <1>1, <1>2, RecibeDescompasada DEF Descompasada
<1>3. ASSUME UNCHANGED << aKernel, ultimo >>, hilo[c].paso \notin {"ninguno", "perdido"},
             hilo'[c].paso # "ninguno"
      PROVE  Descompasada(c)'
  BY <1>0, <1>1, <1>3 DEF Descompasada
<1>4. hilo'[c].paso # "ninguno"
  BY <1>0, SigueHabiendoHilo DEF Descompasada
<1>5. CASE RecibirFueraDePaso(c)
  <2> DEFINE A == aKernel[c]
             R == recvRemasterizado(A).resto
             n == cpu[c].nro
             u == ultimo[c]
  <2>1. /\ hilo[c].paso = "escuchando" /\ HayPaquete(A) /\ recvRemasterizado(A).tipo = 0
        /\ aKernel' = [aKernel EXCEPT ![c] = R] /\ ultimo' = ultimo
        /\ hilo' = [hilo EXCEPT ![c].paso = IF TerminaDentroDeOtro(A) THEN "perdido" ELSE @]
    BY <1>5 DEF RecibirFueraDePaso, Recibido, peticiones
  <2>2. PICK z \in {0, 1}, q \in Nat : Camino(A, z, q, n, u, Int)
    BY <2>1 DEF Descompasada
  <2>3. aKernel'[c] = R /\ cpu'[c].nro = n /\ ultimo'[c] = u
    BY <1>0, <2>1
  <2>4. TerminaDentroDeOtro(A) => hilo'[c].paso = "perdido"
    <3>1. ASSUME TerminaDentroDeOtro(A)
          PROVE  hilo' = [hilo EXCEPT ![c] = [hilo[c] EXCEPT !.paso = "perdido"]]
      BY <2>1, <3>1
    <3>2. [hilo[c] EXCEPT !.paso = "perdido"].paso = "perdido"
      BY <1>0 DEF EstadosHilo
    <3>3. QED
      BY <1>0, <3>1, <3>2
  <2>5. A \in Seq(Trozos) /\ n \in Nat /\ u \in Nat
    BY <1>0
  <2>6. ASSUME ~TerminaDentroDeOtro(A)
        PROVE  \E r \in Nat : Camino(R, 0, r, n, u, Int)
    <3> HIDE DEF A, n, u, R
    <3>1. z = 1 /\ \E r \in Nat : Camino(R, 0, r, n, 0, Int)
      BY <2>1, <2>2, <2>5, <2>6, CaminoFuera DEF R
    <3>2. u = 0
      BY <2>2, <3>1 DEF Camino
    <3>3. QED
      BY <3>1, <3>2
  <2>7. QED
    BY <1>0, <1>1, <1>4, <2>3, <2>4, <2>6 DEF Descompasada
<1>6. CASE RecibirDeCPUPerdida(c)
  <2>1. hilo'[c].paso = "perdido"
    BY <1>0, <1>6 DEF RecibirDeCPUPerdida, Paso
  <2>2. QED
    BY <1>0, <1>1, <2>1 DEF Descompasada
<1>7. QED
  BY <1>2, <1>3, <1>4, <1>5, <1>6, QuienRecibe

LEMMA ConversacionSigue ==
  ASSUME ConversacionInv, [Next]_vars
  PROVE  ConversacionInv'
<1>1. VidaInv'
  BY FormaSiguiente, SaludosCumple, MemoriaCumple DEF ConversacionInv, VidaInv
<1>2. ASSUME NEW c \in CPUs
      PROVE  Conversa(c)'
  <2>1. \/ Quieta(c)
        \/ Suyo(c) /\ UNCHANGED peticiones
        \/ CicloCPU(c) \/ manejadorCPU(c)
    BY PasoDeUna DEF ConversacionInv, VidaInv
  <2>2. ASSUME EnCompas(c)
        PROVE  Conversa(c)'
    BY <2>1, <2>2, ConversaQuieta, ConversaSuyo, ConversaCiclo, ConversaManejador DEF Conversa
  <2>3. ASSUME Descompasada(c)
        PROVE  Conversa(c)'
    <3>1. ~(Suyo(c) /\ UNCHANGED peticiones)
      BY <2>3, DescompasadaNoSaluda
    <3>2. QED
      BY <2>1, <2>3, <3>1, ConversaQuieta, DescompasadaCiclo, DescompasadaManejador DEF Conversa
  <2>4. Conversa(c)
    BY DEF ConversacionInv
  <2>5. QED
    BY <2>2, <2>3, <2>4 DEF Conversa
<1>3. QED
  BY <1>1, <1>2 DEF ConversacionInv

LEMMA ConversacionSiempre == Spec => []ConversacionInv
<1>1. ConversacionInv /\ [Next]_vars => ConversacionInv'
  BY ConversacionSigue
<1>2. QED
  BY <1>1, ConversacionInicial, PTL DEF Spec

(* A CPU that asked for a file never has a packet to read: the answer of   *)
(* the kernel is one word, and nothing comes behind it.                    *)
THEOREM NadieAbreUnArchivo == Spec => []AbrirNoVuelve
<1>1. ConversacionInv => AbrirNoVuelve
  <2> SUFFICES ASSUME ConversacionInv, NEW c \in CPUs, cpu[c].op = "abrir"
               PROVE  ~HayPaquete(aCPU[c])
    BY DEF AbrirNoVuelve
  <2>1. EnCompas(c) /\ SinSaludar(c) /\ cpu[c].modo = "esperaPaquete"
    BY DEF ConversacionInv, Conversa, EnCompas, Descompasada, EnEspera, VidaInv, SaludosInv
  <2>2. cpu[c].modo = "esperaPaquete"
    BY <2>1
  <2>3. CASE aCPU[c] = << >>
    BY <2>3, HayAlgo
  <2>4. CASE aCPU[c] # << >>
    <3>1. Respuesta(c)
      BY <2>1, <2>2, <2>4, LoQueLee DEF Esperas
    <3>2. \E n \in Int : aCPU[c] = sendDeNotificacion(<< >>, n)
      BY <3>1 DEF Respuesta, OperacionesDeVariable, OPERACION_CON_ARCHIVO_EXITOSA,
         OPERACION_FALLIDA
    <3>3. Len(aCPU[c]) = 1
      BY <3>2, UnaPalabraSola
    <3>4. QED
      BY <3>3 DEF HayPaquete
  <2>5. QED
    BY <2>3, <2>4
<1>2. QED
  BY <1>1, ConversacionSiempre, PTL

(* The packets a thread attends are those its CPU sent, one after another: *)
(* none twice and none skipped, but the first, whose place the word that   *)
(* main left takes.                                                        *)
THEOREM LosPaquetesEnOrden == Spec => EnOrden
<1> DEFINE Orden == \A c \in CPUs :
                      ultimo'[c] # ultimo[c] =>
                        IF ultimo[c] = 0 THEN ultimo'[c] >= 2 ELSE ultimo'[c] = ultimo[c] + 1
<1>1. ConversacionInv /\ [Next]_vars => Orden
  <2> SUFFICES ASSUME ConversacionInv, [Next]_vars, NEW c \in CPUs, ultimo'[c] # ultimo[c]
               PROVE  IF ultimo[c] = 0 THEN ultimo'[c] >= 2 ELSE ultimo'[c] = ultimo[c] + 1
    OBVIOUS
  <2>1. ~Quieta(c) /\ ~UNCHANGED peticiones /\ ~CicloCPU(c)
    BY DEF Quieta, peticiones, CicloCPU, recibirPCBDeKernel, pedirLineaAMemoria, Pedir,
       recibirValorCompartida, RecibirResultado, TerminarTurno, enviarPCBAKernel, SoloCPU
  <2>2. manejadorCPU(c)
    BY <2>1, PasoDeUna DEF ConversacionInv, VidaInv
  <2>3. PICK tipos : Recibir(c, tipos) /\ 0 \notin tipos
    <3>1. ~RecibirFueraDePaso(c) /\ ~RecibirDeCPUPerdida(c)
      BY DEF RecibirFueraDePaso, RecibirDeCPUPerdida, peticiones
    <3>2. QED
      BY <2>2, <3>1, QuienRecibe
  <2>4. cpu' = cpu
    BY <2>2, SoloDelHilo DEF SoloHilo
  <2>5. /\ ultimo[c] \in {0, ultimo'[c] - 1}
        /\ ultimo[c] = 0 => ultimo'[c] >= 2
    <3>1. Conversa(c)
      BY DEF ConversacionInv
    <3>2. QED
      BY <2>3, <2>4, <3>1, RecibeUno, RecibeDescompasada DEF Conversa
  <2>6. ultimo'[c] \in Int /\ ultimo[c] \in Int
    <3>1. ultimo'[c] = Recibido(c).mensaje.nro
      BY <2>3, TiposDeUna DEF Recibir, ConversacionInv, VidaInv, FormaInv, TypeOK, CompartidoOK
    <3>2. Recibido(c).mensaje.nro \in 0 .. MaxMensajes
      BY <2>3, FormaRecibir DEF ConversacionInv, VidaInv, Cuerpos
    <3>3. ultimo[c] \in Nat /\ MaxMensajes \in Nat
      BY TiposDeUna, PeticionesAssumption DEF ConversacionInv, VidaInv
    <3>4. QED
      BY <3>1, <3>2, <3>3
  <2>7. QED
    BY <2>5, <2>6
<1>2. QED
  BY <1>1, ConversacionSiempre, PTL DEF Spec, EnOrden

(* A program that goes on after an operation on a file goes on aborted,    *)
(* whatever the other threads did meanwhile: the notifications of the      *)
(* kernel are never the one the CPU takes for success.                     *)
THEOREM NingunArchivoSirve == Spec => ArchivosNuncaSirven
<1> DEFINE Aborta == \A c \in CPUs :
                       cpu[c].op \in OperacionesDeArchivo /\ cpu'[c].modo = "ejecutando" =>
                         cpu'[c].abortado
<1>1. ConversacionInv /\ [Next]_vars => Aborta
  <2> SUFFICES ASSUME ConversacionInv, [Next]_vars, NEW c \in CPUs,
                      cpu[c].op \in OperacionesDeArchivo, cpu'[c].modo = "ejecutando"
               PROVE  cpu'[c].abortado
    OBVIOUS
  <2>0. /\ Conversa(c) /\ SinSaludar(c) /\ EnEspera(c) /\ c \in Clientes
        /\ cpu \in [Clientes -> EstadosCPU] /\ aCPU[c] \in Seq(Trozos)
    BY TiposDeUna DEF ConversacionInv, VidaInv, SaludosInv, Conversa, EnCompas, Descompasada,
       FormaInv, TypeOK
  <2>2. cpu[c].modo \in Esperas
    BY <2>0 DEF EnEspera, Esperas, OperacionesDeArchivo
  <2>1. /\ EnCompas(c) /\ SinSaludar(c) /\ c \in Clientes
        /\ cpu \in [Clientes -> EstadosCPU] /\ aCPU[c] \in Seq(Trozos)
    BY <2>0, <2>2 DEF Conversa, Descompasada, Esperas
  <2>3. CicloCPU(c)
    BY <2>2, ModoDeUna DEF ConversacionInv, Esperas
  <2>4. RecibirResultado(c)
    BY <2>2, <2>3 DEF CicloCPU, recibirPCBDeKernel, pedirLineaAMemoria, Pedir,
       recibirValorCompartida, TerminarTurno, enviarPCBAKernel, OperacionesDeVariable,
       OperacionesDeArchivo, Esperas
  <2>5. /\ aCPU[c] # << >>
        /\ cpu'[c].abortado = EsError(recvDeNotificacion(aCPU[c]).notificacion)
    BY <2>1, <2>4 DEF RecibirResultado, Contestada, EstadosCPU
  <2>6. Respuesta(c)
    BY <2>1, <2>2, <2>5, LoQueLee
  <2>7. PICK n \in {OPERACION_CON_ARCHIVO_EXITOSA, OPERACION_FALLIDA} :
          aCPU[c] = sendDeNotificacion(<< >>, n)
    BY <2>6 DEF Respuesta, OperacionesDeVariable, OperacionesDeArchivo
  <2>8. n \in Int /\ n # OPERACION_CON_ARCHIVO_EXITOSA_CPU
    BY DEF OPERACION_CON_ARCHIVO_EXITOSA, OPERACION_FALLIDA, OPERACION_CON_ARCHIVO_EXITOSA_CPU
  <2>9. recvDeNotificacion(aCPU[c]).notificacion = n
    BY <2>7, <2>8, UnaPalabraSola
  <2>10. QED
    BY <2>5, <2>8, <2>9 DEF EsError
<1>2. QED
  BY <1>1, ConversacionSiempre, PTL DEF Spec, ArchivosNuncaSirven

(* The value a program gets is never older than its request, nor than its  *)
(* own change, however the threads of the other CPUs interleave with them. *)
THEOREM ElValorEsVigente == Spec => ValorVigente
<1> DEFINE Vigente == \A c \in CPUs :
                        cpu[c].op \in OperacionesDeVariable /\ cpu'[c].modo = "ejecutando" =>
                          recvRemasterizado(aCPU[c]).mensaje.valor \in vistos[c]
<1>1. ConversacionInv /\ [Next]_vars => Vigente
  <2> SUFFICES ASSUME ConversacionInv, [Next]_vars, NEW c \in CPUs,
                      cpu[c].op \in OperacionesDeVariable, cpu'[c].modo = "ejecutando"
               PROVE  recvRemasterizado(aCPU[c]).mensaje.valor \in vistos[c]
    OBVIOUS
  <2>0. /\ Conversa(c) /\ SinSaludar(c) /\ EnEspera(c) /\ c \in Clientes
        /\ cpu \in [Clientes -> EstadosCPU] /\ vistos[c] \in SUBSET Valores
    BY TiposDeUna DEF ConversacionInv, VidaInv, SaludosInv, Conversa, EnCompas, Descompasada,
       FormaInv, TypeOK
  <2>2. cpu[c].modo = "esperaPaquete"
    BY <2>0 DEF EnEspera
  <2>1. /\ EnCompas(c) /\ SinSaludar(c) /\ c \in Clientes
        /\ cpu \in [Clientes -> EstadosCPU] /\ vistos[c] \in SUBSET Valores
    BY <2>0, <2>2 DEF Conversa, Descompasada
  <2>3. CicloCPU(c)
    BY <2>2, ModoDeUna DEF ConversacionInv
  <2>4. recibirValorCompartida(c)
    BY <2>2, <2>3 DEF CicloCPU, recibirPCBDeKernel, pedirLineaAMemoria, Pedir,
       RecibirResultado, TerminarTurno, enviarPCBAKernel
  <2>5. aCPU[c] # << >>
    BY <2>4, HayAlgo DEF recibirValorCompartida
  <2>6. recvRemasterizado(aCPU[c]).tipo = DATOS_VARIABLE_COMPARTIDA_KERNEL
    <3>1. Contestada(c, "muerta")[c].modo = "muerta"
      BY <2>1 DEF Contestada, EstadosCPU
    <3>2. cpu' # Contestada(c, "muerta")
      BY <3>1
    <3>3. QED
      BY <2>4, <3>2 DEF recibirValorCompartida
  <2>7. Respuesta(c)
    BY <2>1, <2>2, <2>5, LoQueLee DEF Esperas
  <2>8. aCPU[c] # SinValor
    <3>1. OPERACION_VARIABLE_COMPARTIDA_FALLIDA \in Int
          /\ OPERACION_VARIABLE_COMPARTIDA_FALLIDA # DATOS_VARIABLE_COMPARTIDA_KERNEL
      BY DEF OPERACION_VARIABLE_COMPARTIDA_FALLIDA, DATOS_VARIABLE_COMPARTIDA_KERNEL
    <3>2. QED
      BY <2>6, <3>1, UnPaqueteVacio DEF SinValor
  <2>9. PICK x \in vistos[c] : aCPU[c] = ConValor(x)
    BY <2>7, <2>8 DEF Respuesta, OperacionesDeVariable
  <2>10. x \in Valores
    BY <2>1
  <2>11. QED
    BY <2>9, <2>10, LoQueTrae
<1>2. QED
  BY <1>1, ConversacionSiempre, PTL DEF Spec, ValorVigente
=============================================================================

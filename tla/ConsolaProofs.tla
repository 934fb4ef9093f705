--------------------------- MODULE ConsolaProofs ----------------------------
(***************************************************************************)
(* Proofs about the console.  Whatever is asked of the kernel is one       *)
(* thing, and unless two threads split it, it is always somewhere: the     *)
(* request, the answer on its way, the last packet of the list, in the     *)
(* hands of a thread that is about to leave it there or taken by the       *)
(* program it is about.  Ficha says where; each action moves it to another *)
(* place or leaves it.  The rest of the list are refusals, for ever.       *)
(***************************************************************************)
EXTENDS Consola, SequenceTheorems, FiniteSetTheorems, WellFoundedInduction,
        TLAPS

(* A non-empty set of naturals has a least element.                        *)
LEMMA HayMinimo ==
  ASSUME NEW T \in SUBSET Nat, T # {}
  PROVE  \E n \in T : \A m \in T : n <= m
<1> DEFINE Menor == {ss \in Nat \X Nat : ss[1] < ss[2]}
<1>1. IsWellFoundedOn(Menor, Nat)
  BY NatLessThanWellFounded, Zenon DEF OpToRel
<1>2. PICK n \in T : \A m \in T : <<m, n>> \notin Menor
  <2> HIDE DEF Menor
  <2>1. QED
    BY <1>1, WFMin
<1>3. ASSUME NEW m \in T
      PROVE  n <= m
  <2>1. <<m, n>> \notin Menor
    BY <1>2
  <2>2. ~(m < n)
    BY <2>1
  <2>3. QED
    BY <2>2
<1>4. QED
  BY <1>3

(* The programs that have a thread to come.                                *)
SinHilo == {p \in otorgados : hilo[p].paso = "sin crear"}

Tiene(p) == hilo[p].paso \in {"deja", "quiereFinalizar", "quiereSalir"}

NadieTiene == \A p \in Pids : ~Tiene(p)

SoloTiene(p) == p \in Pids /\ \A q \in Pids : q # p => ~Tiene(q)

(* A request, or the answer to it, is what the interface waits for.        *)
Propio(paquete) ==
  IF paquete.tipo \in {"FINALIZAR_PROGRAMA", "FINALIZO_INCORRECTAMENTE"}
  THEN hilo[INTERFAZ].paso = "esperaFin" /\ hilo[INTERFAZ].pid = paquete.pid
  ELSE hilo[INTERFAZ].paso = "esperaPID"

Trae(paquete) == IF EsPID(paquete) THEN {paquete.pid} ELSE {}

(* What never leaves the list.                                             *)
SoloRechazos(lista) == \A i \in 1 .. Len(lista) : EsRechazo(lista[i])

Ultimo(lista, a) ==
  /\ lista # << >> /\ lista[Len(lista)] = a
  /\ \A i \in 1 .. Len(lista) - 1 : EsRechazo(lista[i])

Nada ==
  /\ pedidos = << >> /\ aConsola = << >> /\ SoloRechazos(listaHilosCorrectos) /\ NadieTiene
  /\ SinHilo = {}
  /\ hilo[INTERFAZ].paso \in {"menu", "quiereFinalizar", "esperaPID", "esperaFin"}
  /\ consola = "viva" => hilo[INTERFAZ].paso # "esperaFin"

EnLaInterfaz ==
  /\ pedidos = << >> /\ aConsola = << >> /\ SoloRechazos(listaHilosCorrectos) /\ NadieTiene
  /\ \/ /\ hilo[INTERFAZ].paso = "crea"
        /\ EsPID(hilo[INTERFAZ].mano) /\ SinHilo = {hilo[INTERFAZ].mano.pid}
     \/ /\ hilo[INTERFAZ].paso = "deja"
        /\ hilo[INTERFAZ].mano \in Paquetes /\ EsRechazo(hilo[INTERFAZ].mano) /\ SinHilo = {}

EnPedido(r) ==
  /\ pedidos = << r >> /\ aConsola = << >> /\ SoloRechazos(listaHilosCorrectos) /\ NadieTiene
  /\ SinHilo = {} /\ Propio(r)
  /\ r.tipo = "MENSAJE_CODIGO" => pidActual \in Pids

EnRespuesta(a) ==
  /\ pedidos = << >> /\ aConsola = << a >> /\ SoloRechazos(listaHilosCorrectos) /\ NadieTiene
  /\ SinHilo = Trae(a) /\ Propio(a)

EnLista(a) ==
  /\ pedidos = << >> /\ aConsola = << >> /\ Ultimo(listaHilosCorrectos, a) /\ NadieTiene
  /\ SinHilo = Trae(a) /\ Propio(a)

EnMano(p) ==
  /\ pedidos = << >> /\ aConsola = << >> /\ SoloRechazos(listaHilosCorrectos) /\ SoloTiene(p)
  /\ hilo[p].paso = "deja"
  /\ hilo[p].mano \in Paquetes /\ SinHilo = Trae(hilo[p].mano) /\ Propio(hilo[p].mano)

EnSuHilo(p) ==
  /\ pedidos = << >> /\ aConsola = << >> /\ SoloRechazos(listaHilosCorrectos) /\ SoloTiene(p)
  /\ hilo[p].paso \in {"quiereFinalizar", "quiereSalir"}
  /\ SinHilo = {} /\ hilo[INTERFAZ].paso = "esperaFin" /\ hilo[INTERFAZ].pid = p

Ficha ==
  \/ Nada \/ EnLaInterfaz
  \/ \E r \in Pedidos : EnPedido(r)
  \/ \E a \in Paquetes : EnRespuesta(a) \/ EnLista(a)
  \/ \E p \in Pids : EnMano(p) \/ EnSuHilo(p)

(* The packet was split between two threads: it is nowhere.                *)
Desfase == pedidos = << >> /\ aConsola = << >> /\ SoloRechazos(listaHilosCorrectos)

FichaODesfase == Ficha \/ (consola = "desfasada" /\ Desfase)

ProgramasInv ==
  \A p \in Pids : /\ hilo[p].paso \notin {"menu", "esperaPID", "esperaFin", "crea"}
                  /\ ~hilo[p].todos
                  /\ p \notin otorgados => hilo[p].paso = "sin crear"

MutexInv ==
  /\ mutexProcesos \in {LIBRE, INTERFAZ}
  /\ mutexProcesos = INTERFAZ =>
       hilo[INTERFAZ].paso \in {"esperaFin", "quiereFinalizar", "deja"}
  /\ consola = "viva" /\ hilo[INTERFAZ].paso = "esperaFin" => mutexProcesos = INTERFAZ

PaquetesInv ==
  /\ paquetes.i >= 1
  /\ paquetes.paso = "creando" <=> mutexHilosCorrectos = PAQUETES
  /\ paquetes.paso = "creando" =>
       /\ paquetes.i \in 1 .. Len(listaHilosCorrectos)
       /\ EsPID(listaHilosCorrectos[paquetes.i])

PidsInv == pidActual >= 1 /\ \A p \in otorgados : p < pidActual

ConsolaInv == TypeOK /\ ProgramasInv /\ MutexInv /\ PaquetesInv /\ PidsInv /\ FichaODesfase

-----------------------------------------------------------------------------
(* The parts of the types that the proofs use.                             *)
LEMMA Tipos0 ==
  ASSUME TypeOK
  PROVE  /\ hilo \in [Hilos -> EstadosHilo]
         /\ hilo[INTERFAZ].paso \in {"menu", "esperaPID", "esperaFin", "crea", "deja",
                                     "quiereFinalizar"}
         /\ \A h \in Hilos : hilo[h] \in EstadosHilo
         /\ INTERFAZ \in Hilos /\ Pids \subseteq Hilos /\ INTERFAZ \notin Pids
         /\ Pids \subseteq Nat \ {0}
BY PidsAssumption, FS_CardinalityType DEF TypeOK, Hilos, INTERFAZ

LEMMA UnPaso ==
  ASSUME TypeOK, NEW h \in Hilos, NEW x \in Pasos, Paso(h, x)
  PROVE  /\ hilo' \in [Hilos -> EstadosHilo]
         /\ hilo'[h] = [hilo[h] EXCEPT !.paso = x]
         /\ hilo'[h].paso = x /\ hilo'[h].pid = hilo[h].pid
         /\ hilo'[h].todos = hilo[h].todos /\ hilo'[h].mano = hilo[h].mano
         /\ \A g \in Hilos \ {h} : hilo'[g] = hilo[g]
<1>1. hilo \in [Hilos -> EstadosHilo] /\ hilo[h] \in EstadosHilo
  BY Tipos0
<1>2. [hilo[h] EXCEPT !.paso = x] \in EstadosHilo
  BY <1>1 DEF EstadosHilo
<1>3. hilo' = [hilo EXCEPT ![h] = [hilo[h] EXCEPT !.paso = x]]
  BY DEF Paso
<1>4. hilo'[h] = [hilo[h] EXCEPT !.paso = x]
  BY <1>1, <1>3
<1>5. /\ hilo'[h].paso = x /\ hilo'[h].pid = hilo[h].pid
      /\ hilo'[h].todos = hilo[h].todos /\ hilo'[h].mano = hilo[h].mano
  BY <1>1, <1>4 DEF EstadosHilo
<1>6. QED
  BY <1>1, <1>2, <1>3, <1>4, <1>5

(* Who has no thread depends only on who was never created.                *)
LEMMA MismosSinHilo ==
  ASSUME otorgados' = otorgados, otorgados \subseteq Pids,
         \A p \in Pids : hilo'[p].paso = "sin crear" <=> hilo[p].paso = "sin crear"
  PROVE  SinHilo' = SinHilo
BY DEF SinHilo

(* Where the one request or answer is, from where somebody is.             *)
LEMMA FichaDelMenu ==
  ASSUME ConsolaInv, consola = "viva",
         hilo[INTERFAZ].paso \in {"menu", "quiereFinalizar"}
  PROVE  Nada
BY DEF ConsolaInv, FichaODesfase, Ficha, Nada, EnLaInterfaz, EnPedido, EnRespuesta, EnLista,
       EnMano, EnSuHilo, Propio

LEMMA FichaDeLaInterfaz ==
  ASSUME ConsolaInv, consola # "desfasada", hilo[INTERFAZ].paso \in {"crea", "deja"}
  PROVE  EnLaInterfaz
BY DEF ConsolaInv, FichaODesfase, Ficha, Nada, EnLaInterfaz, EnPedido, EnRespuesta, EnLista,
       EnMano, EnSuHilo, Propio

LEMMA FichaPedida ==
  ASSUME ConsolaInv, pedidos # << >>
  PROVE  \E r \in Pedidos : EnPedido(r)
BY DEF ConsolaInv, FichaODesfase, Desfase, Ficha, Nada, EnLaInterfaz, EnPedido, EnRespuesta, EnLista,
       EnMano, EnSuHilo

LEMMA FichaQueLlega ==
  ASSUME ConsolaInv, aConsola # << >>
  PROVE  \E a \in Paquetes : EnRespuesta(a)
BY DEF ConsolaInv, FichaODesfase, Desfase, Ficha, Nada, EnLaInterfaz, EnPedido, EnRespuesta, EnLista,
       EnMano, EnSuHilo

LEMMA FichaListada ==
  ASSUME ConsolaInv, consola # "desfasada", NEW i \in 1 .. Len(listaHilosCorrectos),
         ~EsRechazo(listaHilosCorrectos[i])
  PROVE  /\ i = Len(listaHilosCorrectos) /\ listaHilosCorrectos[i] \in Paquetes
         /\ EnLista(listaHilosCorrectos[i])
<1>1. PICK a \in Paquetes : EnLista(a)
  BY DEF ConsolaInv, FichaODesfase, Ficha, Nada, EnLaInterfaz, EnPedido, EnRespuesta,
         EnMano, EnSuHilo, SoloRechazos
<1>2. Len(listaHilosCorrectos) \in Nat
  BY LenProperties DEF ConsolaInv, TypeOK
<1>3. i = Len(listaHilosCorrectos) /\ listaHilosCorrectos[i] = a
  BY <1>1, <1>2 DEF EnLista, Ultimo
<1>4. QED
  BY <1>1, <1>3

(* The list with one more packet, and without the last one.                *)
LEMMA ListaConUno ==
  ASSUME NEW s \in Seq(Paquetes), NEW a \in Paquetes, SoloRechazos(s)
  PROVE  /\ Append(s, a) \in Seq(Paquetes) /\ Ultimo(Append(s, a), a)
         /\ EsRechazo(a) => SoloRechazos(Append(s, a))
<1>1. /\ Append(s, a) \in Seq(Paquetes) /\ Len(Append(s, a)) = Len(s) + 1
      /\ \A i \in 1 .. Len(s) : Append(s, a)[i] = s[i]
      /\ Append(s, a)[Len(s) + 1] = a /\ Len(s) \in Nat
  BY AppendProperties, LenProperties
<1>2. Append(s, a) # << >>
  BY <1>1
<1>3. QED
  BY <1>1, <1>2 DEF Ultimo, SoloRechazos

LEMMA ListaSinElUltimo ==
  ASSUME NEW s \in Seq(Paquetes), NEW a, Ultimo(s, a)
  PROVE  RemoveAt(s, Len(s)) \in Seq(Paquetes) /\ SoloRechazos(RemoveAt(s, Len(s)))
<1> DEFINE n == Len(s)
<1>1. n \in Nat /\ n >= 1
  BY LenProperties, EmptySeq DEF Ultimo
<1>2. SubSeq(s, n + 1, n) = << >>
  BY <1>1, SubSeqEmpty
<1>3. \A k \in 1 .. n - 1 : s[k] \in Paquetes
  BY <1>1, ElementOfSeq
<1>4. /\ SubSeq(s, 1, n - 1) \in Seq(Paquetes) /\ Len(SubSeq(s, 1, n - 1)) = n - 1
      /\ \A k \in 1 .. n - 1 : SubSeq(s, 1, n - 1)[k] = s[k]
  <2> DEFINE m == n - 1
  <2>1. 1 \in Int /\ m \in Int /\ 1 <= m + 1
    BY <1>1
  <2> HIDE DEF n
  <2>2. \A k \in 1 .. m : s[k] \in Paquetes
    BY <1>3
  <2> HIDE DEF m
  <2>3. /\ SubSeq(s, 1, m) \in Seq(Paquetes) /\ Len(SubSeq(s, 1, m)) = m - 1 + 1
        /\ \A k \in 1 .. m - 1 + 1 : SubSeq(s, 1, m)[k] = s[1 + k - 1]
    BY <2>1, <2>2, SubSeqProperties
  <2>4. \A k \in 1 .. m : SubSeq(s, 1, m)[k] = s[k]
    BY <2>1, <2>3
  <2>5. QED
    BY <2>1, <2>3, <2>4 DEF m
<1>5. RemoveAt(s, n) = SubSeq(s, 1, n - 1)
  BY <1>2, <1>4, ConcatEmptySeq DEF RemoveAt
<1>6. QED
  BY <1>4, <1>5 DEF Ultimo, SoloRechazos

LEMMA FichaTomada ==
  ASSUME ConsolaInv, consola # "desfasada", NEW p \in Pids, Tiene(p)
  PROVE  EnMano(p) \/ EnSuHilo(p)
<1>1. \E q \in Pids : EnMano(q) \/ EnSuHilo(q)
  BY DEF ConsolaInv, FichaODesfase, Ficha, Nada, EnLaInterfaz, EnPedido, EnRespuesta, EnLista, NadieTiene
<1>2. PICK q \in Pids : EnMano(q) \/ EnSuHilo(q)
  BY <1>1
<1>3. q = p
  BY <1>2 DEF EnMano, EnSuHilo, SoloTiene
<1>4. QED
  BY <1>2, <1>3

LEMMA SinElPrimero ==
  ASSUME NEW s \in Seq(Pids), NEW e
  PROVE  RemoveFirst(s, e) \in Seq(Pids)
<1>1. CASE ~ \E i \in 1 .. Len(s) : s[i] = e
  BY <1>1 DEF RemoveFirst
<1>2. CASE \E i \in 1 .. Len(s) : s[i] = e
  <2>1. DEFINE I == {i \in 1 .. Len(s) : s[i] = e}
        i == SelectInSeq(s, LAMBDA v : v = e)
  <2>2. I # {} /\ I \subseteq Nat /\ Len(s) \in Nat
    BY <1>2, LenProperties
  <2>3. i = Min(I)
    BY <2>2 DEF SelectInSeq
  <2>4. \E n \in I : \A m \in I : n <= m
    BY <2>2, HayMinimo
  <2>5. i \in I
    BY <2>3, <2>4 DEF Min
  <2>6. i \in 1 .. Len(s) /\ Len(s) \in Nat
    BY <2>2, <2>5
  <2>7. RemoveFirst(s, e) = SubSeq(s, 1, i - 1) \o SubSeq(s, i + 1, Len(s))
    BY <1>2 DEF RemoveFirst, RemoveAt
  <2> HIDE DEF i
  <2>8. SubSeq(s, 1, i - 1) \in Seq(Pids)
    <3>1. 1 \in Int /\ i - 1 \in Int /\ \A k \in 1 .. i - 1 : s[k] \in Pids
      BY <2>6, ElementOfSeq
    <3>2. QED
      BY <3>1, SubSeqProperties
  <2>9. SubSeq(s, i + 1, Len(s)) \in Seq(Pids)
    <3>1. i + 1 \in Int /\ Len(s) \in Int /\ \A k \in i + 1 .. Len(s) : s[k] \in Pids
      BY <2>6, ElementOfSeq
    <3>2. QED
      BY <3>1, SubSeqProperties
  <2>10. QED
    BY <2>7, <2>8, <2>9, ConcatProperties
<1>3. QED
  BY <1>1, <1>2

(* A request that the interface sends; the rest of what it needs.          *)
LEMMA Pide ==
  ASSUME TypeOK, pedidos = << >>, NEW tipo \in {"MENSAJE_CODIGO", "FINALIZAR_PROGRAMA"},
         NEW pid \in Pids \cup {0}, Pedir(tipo, pid)
  PROVE  /\ [tipo |-> tipo, pid |-> pid] \in Pedidos
         /\ pedidos' = << [tipo |-> tipo, pid |-> pid] >>
         /\ pedidos' \in Seq(Pedidos)
<1>1. [tipo |-> tipo, pid |-> pid] \in Pedidos
  BY DEF Pedidos
<1>2. pedidos' = << [tipo |-> tipo, pid |-> pid] >>
  BY DEF Pedir
<1>3. QED
  BY <1>1, <1>2

-----------------------------------------------------------------------------
(* The interface asks.                                                     *)
LEMMA prepararProgramaInv ==
  ASSUME ConsolaInv, consola = "viva", prepararPrograma
  PROVE  ConsolaInv'
<1>0. TypeOK /\ ProgramasInv /\ MutexInv /\ PaquetesInv /\ PidsInv
  BY DEF ConsolaInv
<1>1. Nada
  BY FichaDelMenu DEF prepararPrograma
<1>2. /\ hilo[INTERFAZ].paso = "menu" /\ pidActual \in Pids
      /\ Pedir("MENSAJE_CODIGO", 0) /\ Paso(INTERFAZ, "esperaPID")
      /\ UNCHANGED << programaIniciado, paquetes, mutexProcesos, mutexHilosCorrectos,
           listaProcesos, listaHilosCorrectos, aConsola, pidActual, otorgados, consola >>
  BY DEF prepararPrograma, listas, nucleo
<1>3. /\ hilo' \in [Hilos -> EstadosHilo] /\ hilo'[INTERFAZ].paso = "esperaPID"
      /\ \A g \in Hilos \ {INTERFAZ} : hilo'[g] = hilo[g]
      /\ \A p \in Pids : hilo'[p] = hilo[p]
  <2>1. "esperaPID" \in Pasos /\ INTERFAZ \in Hilos /\ Pids \subseteq Hilos \ {INTERFAZ}
    BY <1>0, Tipos0 DEF Pasos
  <2>2. /\ hilo' \in [Hilos -> EstadosHilo] /\ hilo'[INTERFAZ].paso = "esperaPID"
        /\ \A g \in Hilos \ {INTERFAZ} : hilo'[g] = hilo[g]
    BY <1>0, <1>2, <2>1, UnPaso
  <2>3. QED
    BY <2>1, <2>2
<1>4. PICK r \in Pedidos : /\ r.tipo = "MENSAJE_CODIGO" /\ pedidos' = << r >>
                           /\ pedidos' \in Seq(Pedidos)
  BY <1>0, <1>1, <1>2, Pide DEF Nada
<1>5. TypeOK'
  BY <1>0, <1>2, <1>3, <1>4 DEF TypeOK
<1>6. ProgramasInv'
  BY <1>0, <1>2, <1>3 DEF ProgramasInv
<1>7. MutexInv' /\ PaquetesInv' /\ PidsInv'
  BY <1>0, <1>2, <1>3 DEF MutexInv, PaquetesInv, PidsInv
<1>8. SinHilo' = SinHilo
  BY <1>0, <1>2, <1>3, MismosSinHilo DEF TypeOK
<1>9. EnPedido(r)'
  BY <1>1, <1>2, <1>3, <1>4, <1>8 DEF EnPedido, Nada, NadieTiene, Tiene, Propio
<1>10. QED
  BY <1>5, <1>6, <1>7, <1>9 DEF ConsolaInv, FichaODesfase, Ficha

LEMMA pedirFinInv ==
  ASSUME ConsolaInv, consola = "viva", NEW p \in Pids \cup {0}, NEW todos \in BOOLEAN,
         pedirFin(p, todos)
  PROVE  ConsolaInv'
<1>0. TypeOK /\ ProgramasInv /\ MutexInv /\ PaquetesInv /\ PidsInv
  BY DEF ConsolaInv
<1>1. Nada
  BY FichaDelMenu DEF pedirFin
<1>2. /\ hilo[INTERFAZ].paso = "menu"
      /\ hilo' = [hilo EXCEPT ![INTERFAZ] =
           [hilo[INTERFAZ] EXCEPT !.paso = "quiereFinalizar", !.pid = p, !.todos = todos]]
      /\ UNCHANGED << programaIniciado, paquetes, mutexProcesos, mutexHilosCorrectos,
           listaProcesos, listaHilosCorrectos, pedidos, aConsola, pidActual, otorgados, consola >>
  BY <1>0, Tipos0 DEF pedirFin, listas, nucleo, EstadosHilo
<1>3. [hilo[INTERFAZ] EXCEPT !.paso = "quiereFinalizar", !.pid = p, !.todos = todos]
        \in EstadosHilo
  BY <1>0, Tipos0 DEF EstadosHilo, Pasos
<1>4. /\ hilo' \in [Hilos -> EstadosHilo] /\ hilo'[INTERFAZ].paso = "quiereFinalizar"
      /\ \A q \in Pids : hilo'[q] = hilo[q]
  BY <1>0, <1>2, <1>3, Tipos0 DEF EstadosHilo
<1>5. TypeOK'
  BY <1>0, <1>2, <1>4 DEF TypeOK
<1>6. ProgramasInv'
  BY <1>0, <1>2, <1>4 DEF ProgramasInv
<1>7. MutexInv' /\ PaquetesInv' /\ PidsInv'
  BY <1>0, <1>2, <1>4 DEF MutexInv, PaquetesInv, PidsInv
<1>8. SinHilo' = SinHilo
  BY <1>0, <1>2, <1>4, MismosSinHilo DEF TypeOK
<1>9. Nada'
  BY <1>1, <1>2, <1>4, <1>8 DEF Nada, NadieTiene, Tiene
<1>10. QED
  BY <1>5, <1>6, <1>7, <1>9 DEF ConsolaInv, FichaODesfase, Ficha

(* Only the interface takes part in the end of a program.                  *)
LEMMA NingunProgramaFinaliza ==
  ASSUME ConsolaInv, consola = "viva", NEW p \in Pids
  PROVE  ~finalizarPrograma(p) /\ ~RecibirFin(p)
<1>0. TypeOK /\ ProgramasInv /\ MutexInv
  BY DEF ConsolaInv
<1>1. ~RecibirFin(p)
  BY <1>0 DEF ProgramasInv, RecibirFin, Llega
<1>2. ASSUME finalizarPrograma(p)
      PROVE  FALSE
  <2>1. hilo[p].paso \in {"quiereFinalizar", "quiereSalir"} /\ mutexProcesos \in {LIBRE, p}
    BY <1>2 DEF finalizarPrograma
  <2>2. EnSuHilo(p)
    BY <2>1, FichaTomada DEF Tiene, EnMano
  <2>3. mutexProcesos = INTERFAZ
    BY <1>0, <2>2 DEF MutexInv, EnSuHilo
  <2>4. QED
    BY <1>0, <2>1, <2>3, Tipos0 DEF LIBRE, INTERFAZ
<1>3. QED
  BY <1>1, <1>2

LEMMA ElegidoEs ==
  ASSUME TypeOK
  PROVE  Elegido(INTERFAZ) \in Pids \cup {0}
<1>1. hilo[INTERFAZ].pid \in Pids \cup {0}
  BY Tipos0 DEF EstadosHilo
<1>2. listaProcesos # << >> => Head(listaProcesos) \in Pids
  BY HeadTailProperties DEF TypeOK
<1>3. QED
  BY <1>1, <1>2 DEF Elegido

LEMMA finalizarProgramaInv ==
  ASSUME ConsolaInv, consola = "viva", finalizarPrograma(INTERFAZ)
  PROVE  ConsolaInv'
<1>0. TypeOK /\ ProgramasInv /\ MutexInv /\ PaquetesInv /\ PidsInv
  BY DEF ConsolaInv
<1>1. /\ hilo[INTERFAZ].paso = "quiereFinalizar"
      /\ UNCHANGED << paquetes, mutexHilosCorrectos, listaProcesos, listaHilosCorrectos,
                      aConsola, pidActual, otorgados, consola >>
  BY <1>0, Tipos0 DEF finalizarPrograma, nucleo
<1>2. Nada
  BY <1>1, FichaDelMenu
<1>3. CASE Contains(listaProcesos, Elegido(INTERFAZ))
  <2>1. /\ hilo' = [hilo EXCEPT ![INTERFAZ] =
              [hilo[INTERFAZ] EXCEPT !.paso = "esperaFin", !.pid = Elegido(INTERFAZ)]]
        /\ Pedir("FINALIZAR_PROGRAMA", Elegido(INTERFAZ))
        /\ mutexProcesos' = INTERFAZ /\ UNCHANGED programaIniciado
    BY <1>0, <1>1, <1>3, Tipos0 DEF finalizarPrograma, EstadosHilo
  <2>2. [hilo[INTERFAZ] EXCEPT !.paso = "esperaFin", !.pid = Elegido(INTERFAZ)] \in EstadosHilo
    BY <1>0, Tipos0, ElegidoEs DEF EstadosHilo, Pasos
  <2>3. /\ hilo' \in [Hilos -> EstadosHilo] /\ hilo'[INTERFAZ].paso = "esperaFin"
        /\ hilo'[INTERFAZ].pid = Elegido(INTERFAZ)
        /\ \A q \in Pids : hilo'[q] = hilo[q]
    BY <1>0, <2>1, <2>2, Tipos0 DEF EstadosHilo
  <2>4. PICK r \in Pedidos : /\ r.tipo = "FINALIZAR_PROGRAMA" /\ r.pid = Elegido(INTERFAZ)
                             /\ pedidos' = << r >> /\ pedidos' \in Seq(Pedidos)
    BY <1>0, <1>2, <2>1, Pide, ElegidoEs DEF Nada
  <2>5. TypeOK'
    BY <1>0, <1>1, <2>1, <2>3, <2>4, Tipos0 DEF TypeOK
  <2>6. ProgramasInv'
    BY <1>0, <1>1, <2>3 DEF ProgramasInv
  <2>7. MutexInv' /\ PaquetesInv' /\ PidsInv'
    BY <1>0, <1>1, <2>1, <2>3 DEF MutexInv, PaquetesInv, PidsInv
  <2>8. SinHilo' = SinHilo
    BY <1>0, <1>1, <2>3, MismosSinHilo DEF TypeOK
  <2>9. EnPedido(r)'
    BY <1>1, <1>2, <2>3, <2>4, <2>8 DEF EnPedido, Nada, NadieTiene, Tiene, Propio
  <2>10. QED
    BY <2>5, <2>6, <2>7, <2>9 DEF ConsolaInv, FichaODesfase, Ficha
<1>4. CASE ~Contains(listaProcesos, Elegido(INTERFAZ))
  <2>1. /\ Paso(INTERFAZ, "menu") /\ mutexProcesos' = LIBRE
        /\ programaIniciado' = (listaProcesos # << >>) /\ UNCHANGED pedidos
    BY <1>0, <1>1, <1>4, Tipos0 DEF finalizarPrograma
  <2>2. /\ hilo' \in [Hilos -> EstadosHilo] /\ hilo'[INTERFAZ].paso = "menu"
        /\ \A g \in Hilos \ {INTERFAZ} : hilo'[g] = hilo[g]
        /\ \A q \in Pids : hilo'[q] = hilo[q]
    <3>1. "menu" \in Pasos /\ INTERFAZ \in Hilos /\ Pids \subseteq Hilos \ {INTERFAZ}
      BY <1>0, Tipos0 DEF Pasos
    <3>2. /\ hilo' \in [Hilos -> EstadosHilo] /\ hilo'[INTERFAZ].paso = "menu"
          /\ \A g \in Hilos \ {INTERFAZ} : hilo'[g] = hilo[g]
      BY <1>0, <2>1, <3>1, UnPaso
    <3>3. QED
      BY <3>1, <3>2
  <2>3. TypeOK'
    BY <1>0, <1>1, <2>1, <2>2 DEF TypeOK
  <2>4. ProgramasInv'
    BY <1>0, <1>1, <2>2 DEF ProgramasInv
  <2>5. MutexInv' /\ PaquetesInv' /\ PidsInv'
    BY <1>0, <1>1, <2>1, <2>2 DEF MutexInv, PaquetesInv, PidsInv, LIBRE, INTERFAZ
  <2>6. SinHilo' = SinHilo
    BY <1>0, <1>1, <2>2, MismosSinHilo DEF TypeOK
  <2>7. Nada'
    BY <1>1, <1>2, <2>1, <2>2, <2>6 DEF Nada, NadieTiene, Tiene
  <2>8. QED
    BY <2>3, <2>4, <2>5, <2>7 DEF ConsolaInv, FichaODesfase, Ficha
<1>5. QED
  BY <1>3, <1>4

-----------------------------------------------------------------------------
(* The answer arrives.                                                     *)
LEMMA administrarProgramaInv ==
  ASSUME ConsolaInv, consola = "viva", NEW p \in Pids, administrarPrograma(p)
  PROVE  ConsolaInv'
<1>0. TypeOK /\ ProgramasInv /\ MutexInv /\ PaquetesInv /\ PidsInv
  BY DEF ConsolaInv
<1>1. PICK a \in Paquetes : EnRespuesta(a)
  BY FichaQueLlega DEF administrarPrograma, Llega
<1>2. /\ hilo[p].paso = "recibiendo" /\ aConsola' = << >> /\ Head(aConsola) = a
      /\ UNCHANGED << programaIniciado, paquetes, mutexProcesos, mutexHilosCorrectos,
           listaProcesos, listaHilosCorrectos, pedidos, pidActual, otorgados, consola >>
  BY <1>1 DEF administrarPrograma, Llega, EnRespuesta, listas, nucleo
<1>3. \E e \in EstadosHilo :
        /\ hilo' = [hilo EXCEPT ![p] = e] /\ ~e.todos
        /\ \/ EsFin(a, p) /\ e.paso = "quiereFinalizar"
           \/ ~EsFin(a, p) /\ e.paso = "deja" /\ e.mano = a
  <2>0. hilo[p] \in EstadosHilo /\ p \in Hilos /\ ~hilo[p].todos
    BY <1>0, Tipos0 DEF ProgramasInv
  <2>1. ASSUME EsFin(a, p)
        PROVE  [hilo[p] EXCEPT !.paso = "quiereFinalizar", !.pid = p] \in EstadosHilo
    BY <2>0 DEF EstadosHilo, Pasos
  <2>2. [hilo[p] EXCEPT !.paso = "deja", !.mano = a] \in EstadosHilo
    BY <2>0 DEF EstadosHilo, Pasos
  <2>3. CASE EsFin(a, p)
    <3>1. hilo' = [hilo EXCEPT ![p] = [hilo[p] EXCEPT !.paso = "quiereFinalizar", !.pid = p]]
      BY <1>0, <1>2, <2>0, <2>3, Tipos0 DEF administrarPrograma
    <3>2. QED
      BY <2>0, <2>1, <2>3, <3>1 DEF EstadosHilo
  <2>4. CASE ~EsFin(a, p)
    <3>1. hilo' = [hilo EXCEPT ![p] = [hilo[p] EXCEPT !.paso = "deja", !.mano = a]]
      BY <1>0, <1>2, <2>0, <2>4, Tipos0 DEF administrarPrograma
    <3>2. QED
      BY <2>0, <2>2, <2>4, <3>1 DEF EstadosHilo
  <2>5. QED
    BY <2>3, <2>4
<1>4. PICK e \in EstadosHilo :
        /\ hilo' = [hilo EXCEPT ![p] = e] /\ ~e.todos
        /\ \/ EsFin(a, p) /\ e.paso = "quiereFinalizar"
           \/ ~EsFin(a, p) /\ e.paso = "deja" /\ e.mano = a
  BY <1>3
<1>5. /\ hilo' \in [Hilos -> EstadosHilo] /\ hilo'[INTERFAZ] = hilo[INTERFAZ]
      /\ hilo'[p] = e
      /\ \A q \in Pids \ {p} : hilo'[q] = hilo[q]
  BY <1>0, <1>4, Tipos0
<1>6. TypeOK'
  BY <1>0, <1>2, <1>5 DEF TypeOK
<1>7. p \in otorgados
  BY <1>0, <1>2 DEF ProgramasInv
<1>8. ProgramasInv'
  BY <1>0, <1>2, <1>4, <1>5, <1>7 DEF ProgramasInv
<1>9. MutexInv' /\ PaquetesInv' /\ PidsInv'
  BY <1>0, <1>2, <1>5 DEF MutexInv, PaquetesInv, PidsInv
<1>10. SinHilo' = SinHilo
  BY <1>0, <1>2, <1>4, <1>5, MismosSinHilo DEF TypeOK
<1>11. SoloTiene(p)'
  BY <1>1, <1>5 DEF SoloTiene, EnRespuesta, NadieTiene, Tiene
<1>12. CASE EsFin(a, p)
  <2>1. Trae(a) = {} /\ hilo[INTERFAZ].paso = "esperaFin" /\ hilo[INTERFAZ].pid = p
    BY <1>1, <1>12 DEF EnRespuesta, Trae, EsPID, EsFin, Propio
  <2>2. EnSuHilo(p)'
    BY <1>1, <1>2, <1>4, <1>5, <1>10, <1>11, <1>12, <2>1 DEF EnSuHilo, EnRespuesta
  <2>3. QED
    BY <1>6, <1>8, <1>9, <2>2 DEF ConsolaInv, FichaODesfase, Ficha
<1>13. CASE ~EsFin(a, p)
  <2>1. hilo'[p].paso = "deja" /\ hilo'[p].mano = a
    BY <1>4, <1>5, <1>13
  <2>2. Propio(a)' /\ Trae(a)' = Trae(a)
    BY <1>1, <1>5 DEF Propio, Trae, EnRespuesta
  <2>3. Propio(hilo[p].mano)' /\ SinHilo' = Trae(hilo[p].mano)'
    BY <1>1, <1>10, <2>1, <2>2 DEF EnRespuesta, Propio, Trae, EsPID
  <2>4. EnMano(p)'
    BY <1>1, <1>2, <1>11, <2>1, <2>3 DEF EnMano, EnRespuesta
  <2>5. QED
    BY <1>6, <1>8, <1>9, <2>4 DEF ConsolaInv, FichaODesfase, Ficha
<1>14. QED
  BY <1>12, <1>13

LEMMA recibirPIDInv ==
  ASSUME ConsolaInv, consola = "viva", recibirPID
  PROVE  ConsolaInv'
<1>0. TypeOK /\ ProgramasInv /\ MutexInv /\ PaquetesInv /\ PidsInv
  BY DEF ConsolaInv
<1>1. PICK a \in Paquetes : EnRespuesta(a)
  BY FichaQueLlega DEF recibirPID, Llega
<1>2. /\ hilo[INTERFAZ].paso = "esperaPID" /\ aConsola' = << >> /\ Head(aConsola) = a
      /\ programaIniciado' = (listaProcesos # << >>)
      /\ UNCHANGED << paquetes, mutexProcesos, mutexHilosCorrectos, listaProcesos,
                      listaHilosCorrectos, pedidos, pidActual, otorgados, consola >>
  BY <1>1 DEF recibirPID, Llega, EnRespuesta, listas, nucleo
<1>3. a.tipo \in {"MENSAJE_PID", "ESPACIO_INSUFICIENTE"}
  BY <1>1, <1>2 DEF EnRespuesta, Propio, Paquetes, Tipos
<1>4. DEFINE e == [hilo[INTERFAZ] EXCEPT !.paso = IF EsPID(a) THEN "crea" ELSE "menu",
                                         !.mano = a]
<1>5. e \in EstadosHilo /\ hilo' = [hilo EXCEPT ![INTERFAZ] = e]
  <2>1. hilo[INTERFAZ] \in EstadosHilo
    BY <1>0, Tipos0
  <2>2. e \in EstadosHilo
    BY <2>1 DEF EstadosHilo, Pasos
  <2>3. hilo' = [hilo EXCEPT ![INTERFAZ] = e]
    BY <1>0, <1>2, <1>3, <2>1, Tipos0 DEF recibirPID, EsPID
  <2>4. QED
    BY <2>2, <2>3
<1>6. e.paso = (IF EsPID(a) THEN "crea" ELSE "menu") /\ e.mano = a
  BY <1>0, Tipos0 DEF EstadosHilo
<1>7. /\ hilo' \in [Hilos -> EstadosHilo]
      /\ hilo'[INTERFAZ].paso = IF EsPID(a) THEN "crea" ELSE "menu"
      /\ hilo'[INTERFAZ].mano = a
      /\ \A q \in Pids : hilo'[q] = hilo[q]
  <2> HIDE DEF e
  <2>1. QED
    BY <1>0, <1>5, <1>6, Tipos0
<1>8. TypeOK'
  BY <1>0, <1>2, <1>7 DEF TypeOK
<1>9. ProgramasInv'
  BY <1>0, <1>2, <1>7 DEF ProgramasInv
<1>10. MutexInv' /\ PaquetesInv' /\ PidsInv'
  BY <1>0, <1>2, <1>7 DEF MutexInv, PaquetesInv, PidsInv
<1>11. SinHilo' = SinHilo
  BY <1>0, <1>2, <1>7, MismosSinHilo DEF TypeOK
<1>12. NadieTiene'
  BY <1>1, <1>7 DEF EnRespuesta, NadieTiene, Tiene
<1>13. CASE EsPID(a)
  <2>1. SinHilo' = {a.pid} /\ hilo'[INTERFAZ].paso = "crea" /\ hilo'[INTERFAZ].mano = a
    BY <1>1, <1>7, <1>11, <1>13 DEF EnRespuesta, Trae
  <2>2. EnLaInterfaz'
    BY <1>1, <1>2, <1>12, <1>13, <2>1 DEF EnLaInterfaz, EnRespuesta, EsPID
  <2>3. QED
    BY <1>8, <1>9, <1>10, <2>2 DEF ConsolaInv, FichaODesfase, Ficha
<1>14. CASE ~EsPID(a)
  <2>1. SinHilo' = {} /\ hilo'[INTERFAZ].paso = "menu"
    BY <1>1, <1>7, <1>11, <1>14 DEF EnRespuesta, Trae
  <2>2. Nada'
    BY <1>1, <1>2, <1>12, <2>1 DEF Nada, EnRespuesta
  <2>3. QED
    BY <1>8, <1>9, <1>10, <2>2 DEF ConsolaInv, FichaODesfase, Ficha
<1>15. QED
  BY <1>13, <1>14

(* The answer to the end of a program, for the one that asked.             *)
LEMMA RecibirFinPropio ==
  ASSUME ConsolaInv, consola = "viva", RecibirFin(INTERFAZ),
         EsFin(Head(aConsola), hilo[INTERFAZ].pid)
  PROVE  ConsolaInv'
<1>0. TypeOK /\ ProgramasInv /\ MutexInv /\ PaquetesInv /\ PidsInv
  BY DEF ConsolaInv
<1>1. PICK a \in Paquetes : EnRespuesta(a)
  BY FichaQueLlega DEF RecibirFin, Llega
<1>2. DEFINE sigue == IF hilo[INTERFAZ].todos /\ Len(listaProcesos) > 1
                      THEN "quiereFinalizar" ELSE "menu"
<1>3. /\ hilo[INTERFAZ].paso = "esperaFin" /\ aConsola' = << >> /\ Head(aConsola) = a
      /\ UNCHANGED << paquetes, mutexHilosCorrectos, listaHilosCorrectos, pedidos,
                      pidActual, otorgados >>
  BY <1>1 DEF RecibirFin, Llega, EnRespuesta, nucleo
<1>4. EsFin(a, hilo[INTERFAZ].pid) /\ Trae(a) = {}
  BY <1>3 DEF EsFin, Trae, EsPID
<1>5. /\ listaProcesos' = RemoveFirst(listaProcesos, hilo[INTERFAZ].pid)
      /\ mutexProcesos' = IF sigue = "quiereFinalizar" THEN INTERFAZ ELSE LIBRE
      /\ programaIniciado' = (listaProcesos' # << >>)
      /\ \/ Paso(INTERFAZ, sigue) /\ UNCHANGED consola
         \/ \E q \in Cancelables :
              /\ hilo' = [hilo EXCEPT ![INTERFAZ].paso = sigue, ![q].paso = "terminado"]
              /\ UNCHANGED consola
         \/ consola' = "caida" /\ UNCHANGED hilo
  BY <1>3, <1>4 DEF RecibirFin
<1>6. listaProcesos' \in Seq(Pids)
  BY <1>0, <1>5, SinElPrimero DEF TypeOK
<1>7. mutexProcesos' \in {LIBRE, INTERFAZ} /\ sigue \in {"menu", "quiereFinalizar"} /\ sigue \in Pasos
  BY <1>5 DEF Pasos
<1>8. /\ hilo' \in [Hilos -> EstadosHilo] /\ consola' \in {"viva", "caida"}
      /\ \/ hilo'[INTERFAZ].paso = sigue
         \/ hilo'[INTERFAZ].paso = "esperaFin" /\ consola' = "caida" /\ hilo' = hilo
      /\ \A q \in Pids : \/ hilo'[q] = hilo[q]
                         \/ /\ hilo[q].paso = "recibiendo" /\ hilo'[q].paso = "terminado"
                            /\ hilo'[q].todos = hilo[q].todos
  <2> HIDE DEF sigue
  <2>1. ASSUME Paso(INTERFAZ, sigue), UNCHANGED consola
        PROVE  /\ hilo' \in [Hilos -> EstadosHilo] /\ consola' = "viva"
               /\ hilo'[INTERFAZ].paso = sigue /\ \A q \in Pids : hilo'[q] = hilo[q]
    BY <1>0, <1>7, <2>1, Tipos0, UnPaso
  <2>2. ASSUME NEW q \in Cancelables, UNCHANGED consola,
               hilo' = [hilo EXCEPT ![INTERFAZ].paso = sigue, ![q].paso = "terminado"]
        PROVE  /\ hilo' \in [Hilos -> EstadosHilo] /\ consola' = "viva"
               /\ hilo'[INTERFAZ].paso = sigue
               /\ hilo[q].paso = "recibiendo" /\ hilo'[q].paso = "terminado"
               /\ hilo'[q].todos = hilo[q].todos
               /\ \A r \in Pids \ {q} : hilo'[r] = hilo[r]
    <3>1. q \in Pids /\ q \in Hilos /\ q # INTERFAZ /\ hilo[q].paso = "recibiendo"
      BY <1>0, <2>2, Tipos0 DEF Cancelables
    <3>2. /\ hilo \in [Hilos -> EstadosHilo] /\ hilo[q] \in EstadosHilo
          /\ hilo[INTERFAZ] \in EstadosHilo /\ INTERFAZ \in Hilos /\ INTERFAZ \notin Pids
          /\ Pids \subseteq Hilos
      BY <1>0, <3>1, Tipos0
    <3>3. DEFINE e == [hilo[INTERFAZ] EXCEPT !.paso = sigue]
          f == [hilo[q] EXCEPT !.paso = "terminado"]
    <3>4. e \in EstadosHilo /\ f \in EstadosHilo
      BY <1>7, <3>2 DEF EstadosHilo, Pasos
    <3>5. e.paso = sigue /\ f.paso = "terminado" /\ f.todos = hilo[q].todos
      BY <3>2 DEF EstadosHilo
    <3>6. hilo' = [[hilo EXCEPT ![INTERFAZ] = e] EXCEPT ![q] = f]
      BY <2>2, <3>1, <3>2
    <3> HIDE DEF e, f
    <3>7. /\ hilo' \in [Hilos -> EstadosHilo] /\ hilo'[INTERFAZ] = e /\ hilo'[q] = f
          /\ \A r \in Pids \ {q} : hilo'[r] = hilo[r]
      BY <3>1, <3>2, <3>4, <3>6
    <3>8. QED
      BY <2>2, <3>1, <3>5, <3>7
  <2>3. QED
    BY <1>0, <1>3, <1>5, <2>1, <2>2, Tipos0
<1>9. TypeOK'
  BY <1>0, <1>3, <1>5, <1>6, <1>7, <1>8, Tipos0 DEF TypeOK
<1>10. ProgramasInv'
  BY <1>0, <1>3, <1>8 DEF ProgramasInv
<1>11. MutexInv'
  BY <1>0, <1>3, <1>5, <1>7, <1>8 DEF MutexInv, LIBRE, INTERFAZ
<1>12. PaquetesInv' /\ PidsInv'
  BY <1>0, <1>3 DEF PaquetesInv, PidsInv
<1>13. SinHilo' = SinHilo
  BY <1>0, <1>3, <1>8, MismosSinHilo DEF TypeOK
<1>14. NadieTiene'
  BY <1>1, <1>8 DEF EnRespuesta, NadieTiene, Tiene
<1>15. Nada'
  BY <1>1, <1>3, <1>4, <1>7, <1>8, <1>13, <1>14 DEF Nada, EnRespuesta
<1>16. QED
  BY <1>9, <1>10, <1>11, <1>12, <1>15 DEF ConsolaInv, FichaODesfase, Ficha

(* A refusal, that the interface is about to leave in the list.            *)
LEMMA RecibirRechazo ==
  ASSUME ConsolaInv, consola = "viva", RecibirFin(INTERFAZ),
         ~EsFin(Head(aConsola), hilo[INTERFAZ].pid)
  PROVE  ConsolaInv'
<1>0. TypeOK /\ ProgramasInv /\ MutexInv /\ PaquetesInv /\ PidsInv
  BY DEF ConsolaInv
<1>1. PICK a \in Paquetes : EnRespuesta(a)
  BY FichaQueLlega DEF RecibirFin, Llega
<1>2. hilo[INTERFAZ].paso = "esperaFin" /\ aConsola' = << >> /\ Head(aConsola) = a
  BY <1>1 DEF RecibirFin, Llega, EnRespuesta
<1>3. EsRechazo(a) /\ Trae(a) = {}
  BY <1>1, <1>2 DEF EnRespuesta, Propio, EsFin, EsRechazo, Trae, EsPID
<1>4. DEFINE e == [hilo[INTERFAZ] EXCEPT !.paso = "deja", !.mano = a]
<1>5. /\ e \in EstadosHilo /\ hilo' = [hilo EXCEPT ![INTERFAZ] = e]
      /\ e.paso = "deja" /\ e.mano = a
  <2>1. hilo[INTERFAZ] \in EstadosHilo /\ INTERFAZ \in Hilos /\ hilo \in [Hilos -> EstadosHilo]
    BY <1>0, Tipos0
  <2>2. e \in EstadosHilo /\ e.paso = "deja" /\ e.mano = a
    BY <2>1 DEF EstadosHilo, Pasos
  <2>3. hilo' = [hilo EXCEPT ![INTERFAZ].paso = "deja", ![INTERFAZ].mano = a]
    BY <1>2 DEF RecibirFin
  <2>4. QED
    BY <2>1, <2>2, <2>3
<1>6. UNCHANGED << programaIniciado, paquetes, mutexProcesos, mutexHilosCorrectos, listaProcesos,
        listaHilosCorrectos, pedidos, pidActual, otorgados, consola >>
  BY DEF RecibirFin, nucleo
<1>7. /\ hilo' \in [Hilos -> EstadosHilo] /\ hilo'[INTERFAZ].paso = "deja"
      /\ hilo'[INTERFAZ].mano = a /\ \A q \in Pids : hilo'[q] = hilo[q]
  <2> HIDE DEF e
  <2>1. QED
    BY <1>0, <1>5, Tipos0
<1>8. TypeOK'
  BY <1>0, <1>2, <1>6, <1>7 DEF TypeOK
<1>9. ProgramasInv'
  BY <1>0, <1>6, <1>7 DEF ProgramasInv
<1>10. MutexInv' /\ PaquetesInv' /\ PidsInv'
  BY <1>0, <1>6, <1>7 DEF MutexInv, PaquetesInv, PidsInv
<1>11. SinHilo' = {}
  <2>1. SinHilo' = SinHilo
    BY <1>0, <1>6, <1>7, MismosSinHilo DEF TypeOK
  <2>2. QED
    BY <1>1, <1>3, <2>1 DEF EnRespuesta
<1>12. NadieTiene'
  BY <1>1, <1>7 DEF EnRespuesta, NadieTiene, Tiene
<1>13. EnLaInterfaz'
  BY <1>1, <1>2, <1>3, <1>6, <1>7, <1>11, <1>12 DEF EnLaInterfaz, EnRespuesta, EsRechazo
<1>14. QED
  BY <1>8, <1>9, <1>10, <1>13 DEF ConsolaInv, FichaODesfase, Ficha

-----------------------------------------------------------------------------
(* A packet for somebody else.                                             *)
LEMMA DejaElPrograma ==
  ASSUME ConsolaInv, consola = "viva", NEW h \in Pids, aniadirPaqueteALaLista(h)
  PROVE  ConsolaInv'
<1>0. TypeOK /\ ProgramasInv /\ MutexInv /\ PaquetesInv /\ PidsInv
  BY DEF ConsolaInv
<1>2. h \in Pids
  OBVIOUS
<1>3. EnMano(h)
  BY <1>2, FichaTomada DEF aniadirPaqueteALaLista, Tiene, EnSuHilo
<1>4. /\ mutexHilosCorrectos = LIBRE /\ mutexProcesos # h
      /\ Paso(h, "mirando") /\ listaHilosCorrectos' = Append(listaHilosCorrectos, hilo[h].mano)
      /\ UNCHANGED << programaIniciado, paquetes, mutexProcesos, mutexHilosCorrectos,
           listaProcesos, pedidos, aConsola, pidActual, otorgados, consola >>
  <2>1. mutexProcesos # h /\ ~hilo[h].todos /\ h # INTERFAZ
    <3>1. ~hilo[h].todos
      BY <1>0, <1>2 DEF ProgramasInv
    <3>2. mutexProcesos # h /\ h # INTERFAZ
      BY <1>0, <1>2, Tipos0 DEF MutexInv, LIBRE, INTERFAZ
    <3>3. QED
      BY <3>1, <3>2
  <2>2. QED
    BY <1>3, <2>1 DEF aniadirPaqueteALaLista, EnMano, nucleo
<1>5. PICK a \in Paquetes : /\ a = hilo[h].mano /\ SinHilo = Trae(a) /\ Propio(a)
                            /\ listaHilosCorrectos' = Append(listaHilosCorrectos, a)
  BY <1>3, <1>4 DEF EnMano
<1>17. listaHilosCorrectos' \in Seq(Paquetes) /\ Ultimo(listaHilosCorrectos', a)
  BY <1>0, <1>3, <1>5, ListaConUno DEF TypeOK, EnMano
<1>6. /\ hilo' \in [Hilos -> EstadosHilo] /\ hilo'[INTERFAZ] = hilo[INTERFAZ]
      /\ hilo'[h].paso = "mirando" /\ hilo'[h].todos = hilo[h].todos
      /\ \A q \in Pids \ {h} : hilo'[q] = hilo[q]
  BY <1>0, <1>2, <1>4, Tipos0, UnPaso DEF Pasos
<1>7. TypeOK'
  BY <1>0, <1>4, <1>6, <1>17 DEF TypeOK
<1>8. h \in otorgados /\ hilo[h].paso = "deja"
  BY <1>0, <1>2, <1>3 DEF ProgramasInv, EnMano
<1>9. ProgramasInv'
  BY <1>0, <1>4, <1>6, <1>8 DEF ProgramasInv
<1>10. MutexInv' /\ PidsInv'
  BY <1>0, <1>4, <1>6 DEF MutexInv, PidsInv
<1>11. PaquetesInv'
  BY <1>0, <1>4 DEF PaquetesInv, LIBRE, PAQUETES
<1>12. SinHilo' = SinHilo
  BY <1>0, <1>4, <1>6, <1>8, MismosSinHilo DEF TypeOK
<1>13. NadieTiene'
  BY <1>2, <1>3, <1>6 DEF EnMano, SoloTiene, NadieTiene, Tiene
<1>14. Propio(a)' /\ Trae(a)' = Trae(a)
  BY <1>5, <1>6 DEF Propio, Trae
<1>15. EnLista(a)'
  BY <1>3, <1>4, <1>5, <1>12, <1>13, <1>14, <1>17 DEF EnLista, EnMano
<1>16. QED
  BY <1>7, <1>9, <1>10, <1>11, <1>15 DEF ConsolaInv, FichaODesfase, Ficha

LEMMA DejaLaInterfaz ==
  ASSUME ConsolaInv, consola = "viva", aniadirPaqueteALaLista(INTERFAZ)
  PROVE  ConsolaInv'
<1>0. TypeOK /\ ProgramasInv /\ MutexInv /\ PaquetesInv /\ PidsInv
  BY DEF ConsolaInv
<1>1. EnLaInterfaz /\ hilo[INTERFAZ].paso = "deja" /\ mutexHilosCorrectos = LIBRE
  BY FichaDeLaInterfaz DEF aniadirPaqueteALaLista
<1>2. PICK a \in Paquetes : a = hilo[INTERFAZ].mano /\ EsRechazo(a)
  BY <1>1 DEF EnLaInterfaz
<1>3. PICK x \in {"menu", "quiereFinalizar"} :
        /\ Paso(INTERFAZ, x) /\ mutexProcesos' \in {LIBRE, INTERFAZ}
        /\ mutexProcesos' = INTERFAZ => x = "quiereFinalizar"
        /\ listaHilosCorrectos' = Append(listaHilosCorrectos, a)
        /\ UNCHANGED << programaIniciado, paquetes, mutexHilosCorrectos,
             listaProcesos, pedidos, aConsola, pidActual, otorgados, consola >>
  <2>1. DEFINE sigue == hilo[INTERFAZ].todos /\ mutexProcesos = INTERFAZ
        x == IF sigue THEN "quiereFinalizar" ELSE "menu"
  <2>2. /\ Paso(INTERFAZ, x) /\ listaHilosCorrectos' = Append(listaHilosCorrectos, a)
        /\ UNCHANGED << programaIniciado, paquetes, mutexHilosCorrectos,
             listaProcesos, pedidos, aConsola, pidActual, otorgados, consola >>
    BY <1>2 DEF aniadirPaqueteALaLista, nucleo
  <2>3. mutexProcesos' \in {LIBRE, INTERFAZ} /\ (mutexProcesos' = INTERFAZ => sigue)
    BY <1>0 DEF aniadirPaqueteALaLista, MutexInv, LIBRE, INTERFAZ
  <2>4. x \in {"menu", "quiereFinalizar"}
    OBVIOUS
  <2> HIDE DEF x
  <2>5. mutexProcesos' = INTERFAZ => x = "quiereFinalizar"
    BY <2>3 DEF x
  <2>6. QED
    BY <2>2, <2>3, <2>4, <2>5
<1>4. /\ hilo' \in [Hilos -> EstadosHilo] /\ hilo'[INTERFAZ].paso = x
      /\ \A q \in Pids : hilo'[q] = hilo[q]
  <2>1. x \in Pasos /\ INTERFAZ \in Hilos /\ Pids \subseteq Hilos \ {INTERFAZ}
    BY <1>0, Tipos0 DEF Pasos
  <2>2. /\ hilo' \in [Hilos -> EstadosHilo] /\ hilo'[INTERFAZ].paso = x
        /\ \A g \in Hilos \ {INTERFAZ} : hilo'[g] = hilo[g]
    BY <1>0, <1>3, <2>1, UnPaso
  <2>3. QED
    BY <2>1, <2>2
<1>5. listaHilosCorrectos' \in Seq(Paquetes) /\ SoloRechazos(listaHilosCorrectos')
  BY <1>0, <1>1, <1>2, <1>3, ListaConUno DEF TypeOK, EnLaInterfaz
<1>6. TypeOK'
  BY <1>0, <1>3, <1>4, <1>5, Tipos0 DEF TypeOK
<1>7. ProgramasInv'
  BY <1>0, <1>3, <1>4 DEF ProgramasInv
<1>8. MutexInv' /\ PidsInv'
  BY <1>0, <1>3, <1>4 DEF MutexInv, PidsInv
<1>9. PaquetesInv'
  BY <1>0, <1>1, <1>3 DEF PaquetesInv, LIBRE, PAQUETES
<1>10. SinHilo' = SinHilo
  BY <1>0, <1>3, <1>4, MismosSinHilo DEF TypeOK
<1>11. Nada'
  BY <1>1, <1>3, <1>4, <1>5, <1>10 DEF Nada, EnLaInterfaz, NadieTiene, Tiene
<1>12. QED
  BY <1>6, <1>7, <1>8, <1>9, <1>11 DEF ConsolaInv, FichaODesfase, Ficha

LEMMA crearProgramaInv ==
  ASSUME ConsolaInv, consola = "viva", crearPrograma
  PROVE  ConsolaInv'
<1>0. TypeOK /\ ProgramasInv /\ MutexInv /\ PaquetesInv /\ PidsInv
  BY DEF ConsolaInv
<1>1. EnLaInterfaz /\ hilo[INTERFAZ].paso = "crea"
  BY FichaDeLaInterfaz DEF crearPrograma
<1>2. PICK p \in Pids : p = hilo[INTERFAZ].mano.pid /\ SinHilo = {p}
  BY <1>0, <1>1 DEF EnLaInterfaz, SinHilo, TypeOK
<1>3. /\ listaProcesos' = Append(listaProcesos, p) /\ programaIniciado' = TRUE
      /\ hilo' = [hilo EXCEPT ![INTERFAZ].paso = "menu", ![p].paso = "mirando"]
      /\ UNCHANGED << paquetes, mutexProcesos, mutexHilosCorrectos, listaHilosCorrectos,
                      pedidos, aConsola, pidActual, otorgados, consola >>
  BY <1>2 DEF crearPrograma, nucleo
<1>4. /\ hilo' \in [Hilos -> EstadosHilo] /\ hilo'[INTERFAZ].paso = "menu"
      /\ hilo'[p].paso = "mirando" /\ hilo'[p].todos = hilo[p].todos
      /\ \A q \in Pids \ {p} : hilo'[q] = hilo[q]
  <2>1. /\ hilo \in [Hilos -> EstadosHilo] /\ hilo[p] \in EstadosHilo
        /\ hilo[INTERFAZ] \in EstadosHilo /\ INTERFAZ \in Hilos /\ INTERFAZ \notin Pids
        /\ Pids \subseteq Hilos /\ p \in Hilos /\ p # INTERFAZ
    BY <1>0, Tipos0
  <2>2. DEFINE e == [hilo[INTERFAZ] EXCEPT !.paso = "menu"]
        f == [hilo[p] EXCEPT !.paso = "mirando"]
  <2>3. e \in EstadosHilo /\ f \in EstadosHilo
    BY <2>1 DEF EstadosHilo, Pasos
  <2>4. e.paso = "menu" /\ f.paso = "mirando" /\ f.todos = hilo[p].todos
    BY <2>1 DEF EstadosHilo
  <2>5. hilo' = [[hilo EXCEPT ![INTERFAZ] = e] EXCEPT ![p] = f]
    BY <1>3, <2>1
  <2> HIDE DEF e, f
  <2>6. /\ hilo' \in [Hilos -> EstadosHilo] /\ hilo'[INTERFAZ] = e /\ hilo'[p] = f
        /\ \A q \in Pids \ {p} : hilo'[q] = hilo[q]
    BY <2>1, <2>3, <2>5
  <2>7. QED
    BY <2>4, <2>6
<1>5. TypeOK'
  <2>1. listaProcesos' \in Seq(Pids)
    BY <1>0, <1>3, AppendProperties DEF TypeOK
  <2>2. QED
    BY <1>0, <1>3, <1>4, <2>1 DEF TypeOK
<1>6. p \in otorgados
  BY <1>2 DEF SinHilo
<1>7. ProgramasInv'
  BY <1>0, <1>3, <1>4, <1>6 DEF ProgramasInv
<1>8. MutexInv' /\ PaquetesInv' /\ PidsInv'
  BY <1>0, <1>1, <1>3, <1>4 DEF MutexInv, PaquetesInv, PidsInv
<1>9. SinHilo' = {}
  BY <1>0, <1>2, <1>3, <1>4, ZenonT(60) DEF SinHilo, TypeOK
<1>10. Nada'
  BY <1>1, <1>3, <1>4, <1>9 DEF Nada, EnLaInterfaz, NadieTiene, Tiene
<1>11. QED
  BY <1>5, <1>7, <1>8, <1>10 DEF ConsolaInv, FichaODesfase, Ficha

(* A program that looks at the list and finds nothing in it for itself, or *)
(* is cancelled: it has no part in where the answer is.                    *)
LEMMA PasoSuelto ==
  ASSUME ConsolaInv, consola = "viva", NEW p \in Pids, NEW x \in {"mirando", "vioLista", "recibiendo"},
         hilo[p].paso \in {"mirando", "vioLista"}, Paso(p, x),
         UNCHANGED << programaIniciado, paquetes, mutexProcesos, mutexHilosCorrectos,
           listas, pedidos, aConsola, nucleo, consola >>
  PROVE  ConsolaInv'
<1>0. TypeOK /\ ProgramasInv /\ MutexInv /\ PaquetesInv /\ PidsInv /\ Ficha
  BY DEF ConsolaInv, FichaODesfase
<1>1. UNCHANGED << programaIniciado, paquetes, mutexProcesos, mutexHilosCorrectos, listaProcesos,
         listaHilosCorrectos, pedidos, aConsola, pidActual, otorgados, consola >>
  BY DEF listas, nucleo
<1>2. /\ hilo' \in [Hilos -> EstadosHilo] /\ hilo'[INTERFAZ] = hilo[INTERFAZ]
      /\ hilo'[p].paso = x /\ hilo'[p].todos = hilo[p].todos
      /\ \A q \in Pids \ {p} : hilo'[q] = hilo[q]
  BY <1>0, Tipos0, UnPaso DEF Pasos
<1>3. TypeOK'
  BY <1>0, <1>1, <1>2 DEF TypeOK
<1>4. p \in otorgados
  BY <1>0 DEF ProgramasInv
<1>5. ProgramasInv'
  BY <1>0, <1>1, <1>2, <1>4 DEF ProgramasInv
<1>6. MutexInv' /\ PaquetesInv' /\ PidsInv'
  BY <1>0, <1>1, <1>2 DEF MutexInv, PaquetesInv, PidsInv
<1>7. SinHilo' = SinHilo
  BY <1>0, <1>1, <1>2, MismosSinHilo DEF TypeOK
<1>8. \A q \in Pids : /\ Tiene(q)' <=> Tiene(q)
                      /\ Tiene(q) => hilo'[q] = hilo[q]
  BY <1>2 DEF Tiene
<1>9. (NadieTiene' <=> NadieTiene) /\ \A q \in Pids : SoloTiene(q)' <=> SoloTiene(q)
  BY <1>8 DEF NadieTiene, SoloTiene
<1>10. \A a : (Propio(a)' <=> Propio(a)) /\ Trae(a)' = Trae(a)
  BY <1>2 DEF Propio, Trae
<1>11. ASSUME Nada \/ EnLaInterfaz
       PROVE  Ficha'
  BY <1>1, <1>2, <1>7, <1>9, <1>11 DEF Nada, EnLaInterfaz, Ficha
<1>12. ASSUME NEW r \in Pedidos, EnPedido(r)
       PROVE  Ficha'
  <2>1. EnPedido(r)'
    BY <1>1, <1>7, <1>9, <1>10, <1>12 DEF EnPedido
  <2>2. QED
    BY <2>1 DEF Ficha
<1>13. ASSUME NEW a \in Paquetes, EnRespuesta(a) \/ EnLista(a)
       PROVE  Ficha'
  <2>1. EnRespuesta(a)' \/ EnLista(a)'
    BY <1>1, <1>7, <1>9, <1>10, <1>13 DEF EnRespuesta, EnLista
  <2>2. QED
    BY <2>1 DEF Ficha
<1>14. ASSUME NEW q \in Pids, EnMano(q) \/ EnSuHilo(q)
       PROVE  Ficha'
  <2>1. hilo'[q] = hilo[q]
    BY <1>8, <1>14 DEF EnMano, EnSuHilo, Tiene
  <2>2. EnSuHilo(q) => EnSuHilo(q)'
    BY <1>1, <1>2, <1>7, <1>9, <2>1 DEF EnSuHilo
  <2>3. /\ EnMano(q) => Propio(hilo[q].mano)'
        /\ Trae(hilo[q].mano)' = Trae(hilo[q].mano)
    BY <1>2, <2>1 DEF EnMano, Propio, Trae, EsPID
  <2>4. EnMano(q) => EnMano(q)'
    BY <1>1, <1>7, <1>9, <2>1, <2>3 DEF EnMano
  <2>5. QED
    BY <1>14, <2>2, <2>4 DEF Ficha
<1>15. Ficha'
  BY <1>0, <1>11, <1>12, <1>13, <1>14 DEF Ficha
<1>16. QED
  BY <1>3, <1>5, <1>6, <1>15 DEF ConsolaInv, FichaODesfase

(* Where the answer is depends on the threads, the lists and the kernel.   *)
LEMMA FichaIgual ==
  ASSUME Ficha, consola' = "viva" => consola = "viva",
         UNCHANGED << hilo, listaHilosCorrectos, pedidos, aConsola, pidActual, otorgados >>
  PROVE  Ficha'
<1>3. SinHilo' = SinHilo
  BY DEF SinHilo
<1>4. (NadieTiene' <=> NadieTiene) /\ \A q \in Pids : SoloTiene(q)' <=> SoloTiene(q)
  BY DEF NadieTiene, SoloTiene, Tiene
<1>5. \A a : (Propio(a)' <=> Propio(a)) /\ Trae(a)' = Trae(a)
  BY DEF Propio, Trae
<1>6. ASSUME Nada \/ EnLaInterfaz
      PROVE  Ficha'
  BY <1>3, <1>4, <1>6 DEF Nada, EnLaInterfaz, Ficha
<1>7. ASSUME NEW r \in Pedidos, EnPedido(r)
      PROVE  Ficha'
  <2>1. EnPedido(r)'
    BY <1>3, <1>4, <1>5, <1>7 DEF EnPedido
  <2>2. QED
    BY <2>1 DEF Ficha
<1>8. ASSUME NEW a \in Paquetes, EnRespuesta(a) \/ EnLista(a)
      PROVE  Ficha'
  <2>1. EnRespuesta(a)' \/ EnLista(a)'
    BY <1>3, <1>4, <1>5, <1>8 DEF EnRespuesta, EnLista
  <2>2. QED
    BY <2>1 DEF Ficha
<1>9. ASSUME NEW q \in Pids, EnMano(q) \/ EnSuHilo(q)
      PROVE  Ficha'
  <2>1. EnSuHilo(q) => EnSuHilo(q)'
    BY <1>3, <1>4 DEF EnSuHilo
  <2>2. EnMano(q) => Propio(hilo[q].mano)' /\ Trae(hilo[q].mano)' = Trae(hilo[q].mano)
    BY DEF EnMano, Propio, Trae, EsPID
  <2>3. EnMano(q) => EnMano(q)'
    BY <1>3, <1>4, <2>2 DEF EnMano
  <2>4. QED
    BY <1>9, <2>1, <2>3 DEF Ficha
<1>10. QED
  BY <1>6, <1>7, <1>8, <1>9 DEF Ficha

(* What changes nothing but whether the console goes on.                   *)
LEMMA CaeInv ==
  ASSUME ConsolaInv, consola = "viva", consola' = "caida",
         UNCHANGED << hilo, programaIniciado, paquetes, mutexProcesos, mutexHilosCorrectos,
           listas, pedidos, aConsola, nucleo >>
  PROVE  ConsolaInv'
<1>0. TypeOK /\ ProgramasInv /\ MutexInv /\ PaquetesInv /\ PidsInv /\ Ficha
  BY DEF ConsolaInv, FichaODesfase
<1>1. UNCHANGED << hilo, programaIniciado, paquetes, mutexProcesos, mutexHilosCorrectos,
         listaProcesos, listaHilosCorrectos, pedidos, aConsola, pidActual, otorgados >>
  BY DEF listas, nucleo
<1>2. TypeOK' /\ ProgramasInv' /\ MutexInv' /\ PaquetesInv' /\ PidsInv'
  BY <1>0, <1>1 DEF TypeOK, ProgramasInv, MutexInv, PaquetesInv, PidsInv
<1>3. Ficha'
  BY <1>0, <1>1, FichaIgual
<1>4. QED
  BY <1>2, <1>3 DEF ConsolaInv, FichaODesfase

LEMMA PartirPaqueteInv ==
  ASSUME ConsolaInv, consola = "viva", PartirPaquete
  PROVE  ConsolaInv'
<1>0. TypeOK /\ ProgramasInv /\ MutexInv /\ PaquetesInv /\ PidsInv
  BY DEF ConsolaInv
<1>1. PICK a \in Paquetes : EnRespuesta(a)
  BY FichaQueLlega DEF PartirPaquete
<1>2. /\ aConsola' = << >> /\ consola' = "desfasada"
      /\ UNCHANGED << hilo, programaIniciado, paquetes, mutexProcesos, mutexHilosCorrectos,
           listaProcesos, listaHilosCorrectos, pedidos, pidActual, otorgados >>
  BY <1>1 DEF PartirPaquete, EnRespuesta, listas, nucleo
<1>3. TypeOK' /\ ProgramasInv' /\ MutexInv' /\ PaquetesInv' /\ PidsInv'
  <2>1. aConsola' \in Seq(Paquetes)
    BY <1>2
  <2>2. TypeOK'
    BY <1>0, <1>2, <2>1 DEF TypeOK
  <2>3. ProgramasInv' /\ MutexInv' /\ PaquetesInv' /\ PidsInv'
    BY <1>0, <1>2 DEF ProgramasInv, MutexInv, PaquetesInv, PidsInv
  <2>4. QED
    BY <2>2, <2>3
<1>4. Desfase'
  BY <1>1, <1>2 DEF Desfase, EnRespuesta
<1>5. QED
  BY <1>2, <1>3, <1>4 DEF ConsolaInv, FichaODesfase

LEMMA MirarListaInv ==
  ASSUME ConsolaInv, consola = "viva", NEW p \in Pids, MirarLista(p)
  PROVE  ConsolaInv'
<1>1. CASE listaHilosCorrectos = << >>
  BY <1>1, PasoSuelto DEF MirarLista
<1>2. CASE listaHilosCorrectos # << >>
  BY <1>2, PasoSuelto DEF MirarLista
<1>3. QED
  BY <1>1, <1>2

LEMMA TomarCabezaInv ==
  ASSUME ConsolaInv, consola = "viva", NEW p \in Pids, TomarCabeza(p)
  PROVE  ConsolaInv'
<1>0. TypeOK /\ ProgramasInv /\ MutexInv /\ PaquetesInv /\ PidsInv
  BY DEF ConsolaInv
<1>1. ASSUME listaHilosCorrectos = << >>, Caer
      PROVE  ConsolaInv'
  BY <1>1, CaeInv DEF Caer
<1>2. ASSUME listaHilosCorrectos # << >>, ~EsFin(Head(listaHilosCorrectos), p)
      PROVE  ConsolaInv'
  BY <1>2, PasoSuelto DEF TomarCabeza, listas
<1>3. ASSUME listaHilosCorrectos # << >>, EsFin(Head(listaHilosCorrectos), p)
      PROVE  ConsolaInv'
  <2>1. PICK a \in Paquetes : EnLista(a) /\ listaHilosCorrectos' = << >> /\ EsFin(a, p)
    <3>1. /\ listaHilosCorrectos \in Seq(Paquetes) /\ Len(listaHilosCorrectos) \in Nat
          /\ Len(listaHilosCorrectos) >= 1
          /\ Head(listaHilosCorrectos) = listaHilosCorrectos[1]
      BY <1>0, <1>3, LenProperties, EmptySeq, HeadTailProperties DEF TypeOK
    <3>2. 1 = Len(listaHilosCorrectos) /\ listaHilosCorrectos[1] \in Paquetes
          /\ EnLista(listaHilosCorrectos[1])
      <4>1. 1 \in 1 .. Len(listaHilosCorrectos) /\ ~EsRechazo(listaHilosCorrectos[1])
        BY <1>3, <3>1 DEF EsFin, EsRechazo
      <4>2. QED
        BY <4>1, FichaListada
    <3>3. listaHilosCorrectos' = Tail(listaHilosCorrectos)
      BY <1>3 DEF TomarCabeza
    <3>4. Tail(listaHilosCorrectos) \in Seq(Paquetes) /\ Len(Tail(listaHilosCorrectos)) = 0
      BY <1>3, <3>1, <3>2, HeadTailProperties
    <3>5. QED
      BY <1>3, <3>1, <3>2, <3>3, <3>4, EmptySeq
  <2>2. /\ hilo[p].paso = "vioLista" /\ mutexHilosCorrectos = LIBRE /\ Paso(p, "quiereSalir")
        /\ UNCHANGED << programaIniciado, paquetes, mutexProcesos, mutexHilosCorrectos,
             listaProcesos, pedidos, aConsola, pidActual, otorgados, consola >>
    BY <1>3 DEF TomarCabeza, nucleo
  <2>14. SoloRechazos(listaHilosCorrectos')
    BY <2>1 DEF SoloRechazos
  <2>3. /\ hilo' \in [Hilos -> EstadosHilo] /\ hilo'[INTERFAZ] = hilo[INTERFAZ]
        /\ hilo'[p].paso = "quiereSalir" /\ hilo'[p].todos = hilo[p].todos
        /\ \A q \in Pids \ {p} : hilo'[q] = hilo[q]
    BY <1>0, <2>2, Tipos0, UnPaso DEF Pasos
  <2>4. TypeOK'
    BY <1>0, <2>1, <2>2, <2>3 DEF TypeOK
  <2>5. p \in otorgados
    BY <1>0, <2>2 DEF ProgramasInv
  <2>6. ProgramasInv'
    BY <1>0, <2>2, <2>3, <2>5 DEF ProgramasInv
  <2>7. MutexInv' /\ PidsInv'
    BY <1>0, <2>2, <2>3 DEF MutexInv, PidsInv
  <2>8. PaquetesInv'
    BY <1>0, <2>2 DEF PaquetesInv, LIBRE, PAQUETES
  <2>9. SinHilo' = SinHilo
    BY <1>0, <2>2, <2>3, MismosSinHilo DEF TypeOK
  <2>10. SinHilo = {} /\ hilo[INTERFAZ].paso = "esperaFin" /\ hilo[INTERFAZ].pid = p
    BY <2>1 DEF EnLista, Trae, EsPID, EsFin, Propio
  <2>11. SoloTiene(p)'
    BY <2>1, <2>3 DEF EnLista, NadieTiene, SoloTiene, Tiene
  <2>12. EnSuHilo(p)'
    BY <2>1, <2>2, <2>3, <2>9, <2>10, <2>11, <2>14 DEF EnSuHilo, EnLista
  <2>13. QED
    BY <2>4, <2>6, <2>7, <2>8, <2>12 DEF ConsolaInv, FichaODesfase, Ficha
<1>4. QED
  BY <1>1, <1>2, <1>3 DEF TomarCabeza

-----------------------------------------------------------------------------
(* manejadorPaquetes.                                                      *)

(* Where the answer is does not depend on how far manejadorPaquetes got.   *)
LEMMA OtroPaquetes ==
  ASSUME ConsolaInv, PaquetesInv',
         paquetes' \in [paso : {"mirando", "recorriendo", "creando"}, i : Nat, tamanio : Nat],
         mutexHilosCorrectos' \in {LIBRE, PAQUETES},
         UNCHANGED << hilo, programaIniciado, mutexProcesos, listas, pedidos, aConsola,
           nucleo, consola >>
  PROVE  ConsolaInv'
<1>0. TypeOK /\ ProgramasInv /\ MutexInv /\ PidsInv /\ FichaODesfase
  BY DEF ConsolaInv
<1>1. UNCHANGED << hilo, programaIniciado, mutexProcesos, listaProcesos, listaHilosCorrectos,
         pedidos, aConsola, pidActual, otorgados, consola >>
  BY DEF listas, nucleo
<1>2. TypeOK' /\ ProgramasInv' /\ MutexInv' /\ PidsInv'
  BY <1>0, <1>1 DEF TypeOK, ProgramasInv, MutexInv, PidsInv
<1>3. FichaODesfase'
  <2>1. Ficha => Ficha'
    BY <1>1, FichaIgual
  <2>2. Desfase => Desfase'
    BY <1>1 DEF Desfase
  <2>3. QED
    BY <1>0, <1>1, <2>1, <2>2 DEF FichaODesfase
<1>4. QED
  BY <1>2, <1>3 DEF ConsolaInv

LEMMA MirarPaquetesInv ==
  ASSUME ConsolaInv, consola = "viva", MirarPaquetes
  PROVE  ConsolaInv'
<1>0. TypeOK /\ PaquetesInv
  BY DEF ConsolaInv
<1>1. Len(listaHilosCorrectos) \in Nat
  BY <1>0, LenProperties DEF TypeOK
<1>2. /\ paquetes' = [paso |-> "recorriendo", i |-> 1, tamanio |-> Len(listaHilosCorrectos)]
      /\ mutexHilosCorrectos' = LIBRE
  BY DEF MirarPaquetes
<1>3. PaquetesInv'
  BY <1>2 DEF PaquetesInv, LIBRE, PAQUETES
<1>4. paquetes' \in [paso : {"mirando", "recorriendo", "creando"}, i : Nat, tamanio : Nat]
  BY <1>1, <1>2
<1>5. QED
  BY <1>2, <1>3, <1>4, OtroPaquetes DEF MirarPaquetes

LEMMA RecorrerPaquetesInv ==
  ASSUME ConsolaInv, consola = "viva", RecorrerPaquetes
  PROVE  ConsolaInv'
<1>0. TypeOK /\ ProgramasInv /\ MutexInv /\ PaquetesInv /\ PidsInv
  BY DEF ConsolaInv
<1>1. /\ paquetes.paso = "recorriendo" /\ mutexHilosCorrectos = LIBRE
      /\ UNCHANGED << hilo, programaIniciado, mutexProcesos, listaProcesos, pedidos,
                      aConsola, pidActual, otorgados >>
  BY DEF RecorrerPaquetes, nucleo
<1>2. /\ paquetes \in [paso : {"mirando", "recorriendo", "creando"}, i : Nat, tamanio : Nat]
      /\ paquetes.i >= 1 /\ Len(listaHilosCorrectos) \in Nat
  BY <1>0, LenProperties DEF TypeOK, PaquetesInv
<1>3. ASSUME paquetes' = [paquetes EXCEPT !.paso = "mirando"],
             UNCHANGED << mutexHilosCorrectos, listaHilosCorrectos, consola >>
      PROVE  ConsolaInv'
  <2>1. paquetes' \in [paso : {"mirando", "recorriendo", "creando"}, i : Nat, tamanio : Nat]
    BY <1>2, <1>3
  <2>2. PaquetesInv'
    BY <1>1, <1>2, <1>3 DEF PaquetesInv, LIBRE, PAQUETES
  <2>3. QED
    BY <1>1, <1>3, <2>1, <2>2, OtroPaquetes DEF listas, nucleo, LIBRE, PAQUETES
<1>4. ASSUME consola' = "caida",
             UNCHANGED << paquetes, mutexHilosCorrectos, listaHilosCorrectos >>
      PROVE  ConsolaInv'
  BY <1>1, <1>4, CaeInv DEF listas, nucleo
<1>5. ASSUME paquetes.i <= Len(listaHilosCorrectos)
      PROVE  paquetes.i \in 1 .. Len(listaHilosCorrectos)
  BY <1>2, <1>5
<1>6. ASSUME paquetes.i <= Len(listaHilosCorrectos), EsPID(listaHilosCorrectos[paquetes.i]),
             mutexHilosCorrectos' = PAQUETES,
             paquetes' = [paquetes EXCEPT !.paso = "creando"],
             UNCHANGED << listaHilosCorrectos, consola >>
      PROVE  ConsolaInv'
  <2>1. paquetes' \in [paso : {"mirando", "recorriendo", "creando"}, i : Nat, tamanio : Nat]
    BY <1>2, <1>6
  <2>2. paquetes'.i = paquetes.i /\ paquetes'.paso = "creando"
    BY <1>2, <1>6
  <2>3. /\ paquetes'.i \in 1 .. Len(listaHilosCorrectos')
        /\ EsPID(listaHilosCorrectos'[paquetes'.i])
    BY <1>5, <1>6, <2>2
  <2>4. PaquetesInv'
    BY <1>2, <1>6, <2>2, <2>3 DEF PaquetesInv, EsPID
  <2>5. QED
    BY <1>1, <1>6, <2>1, <2>4, OtroPaquetes DEF listas, nucleo
<1>7. ASSUME paquetes.i <= Len(listaHilosCorrectos),
             listaHilosCorrectos[paquetes.i].tipo = "ESPACIO_INSUFICIENTE",
             SacarPaquete(paquetes.i), UNCHANGED << mutexHilosCorrectos, consola >>,
             paquetes' = [paquetes EXCEPT !.tamanio = Len(listaHilosCorrectos')]
      PROVE  ConsolaInv'
  <2>10. paquetes.i \in 1 .. Len(listaHilosCorrectos) /\ ~EsRechazo(listaHilosCorrectos[paquetes.i])
    BY <1>5, <1>7 DEF EsRechazo
  <2>1. PICK a \in Paquetes : /\ EnLista(a) /\ paquetes.i = Len(listaHilosCorrectos)
                              /\ a.tipo = "ESPACIO_INSUFICIENTE"
    BY <1>7, <2>10, FichaListada
  <2>2. listaHilosCorrectos' \in Seq(Paquetes) /\ SoloRechazos(listaHilosCorrectos')
    BY <1>0, <1>7, <2>1, ListaSinElUltimo DEF SacarPaquete, EnLista, TypeOK
  <2>3. PICK n \in Nat : paquetes' = [paquetes EXCEPT !.tamanio = n]
    BY <1>7, <2>2, LenProperties
  <2>4. TypeOK'
    BY <1>0, <1>1, <1>2, <1>7, <2>2, <2>3 DEF TypeOK
  <2>5. ProgramasInv' /\ MutexInv' /\ PidsInv'
    BY <1>0, <1>1, <1>7 DEF ProgramasInv, MutexInv, PidsInv
  <2>6. PaquetesInv'
    BY <1>1, <1>2, <1>7, <2>3 DEF PaquetesInv, LIBRE, PAQUETES
  <2>7. SinHilo' = {} /\ hilo[INTERFAZ].paso = "esperaPID"
    BY <1>1, <2>1 DEF SinHilo, EnLista, Trae, EsPID, Propio
  <2>8. Nada'
    BY <1>1, <1>7, <2>1, <2>2, <2>7 DEF Nada, EnLista, NadieTiene, Tiene
  <2>9. QED
    BY <2>4, <2>5, <2>6, <2>8 DEF ConsolaInv, FichaODesfase, Ficha
<1>8. ASSUME paquetes' = [paquetes EXCEPT !.i = paquetes.i + 1],
             UNCHANGED << mutexHilosCorrectos, listaHilosCorrectos, consola >>
      PROVE  ConsolaInv'
  <2>1. paquetes' \in [paso : {"mirando", "recorriendo", "creando"}, i : Nat, tamanio : Nat]
    BY <1>2, <1>8
  <2>2. PaquetesInv'
    BY <1>1, <1>2, <1>8 DEF PaquetesInv, LIBRE, PAQUETES
  <2>3. QED
    BY <1>1, <1>8, <2>1, <2>2, OtroPaquetes DEF listas, nucleo, LIBRE, PAQUETES
<1>9. QED
  BY <1>3, <1>4, <1>6, <1>7, <1>8 DEF RecorrerPaquetes

LEMMA CrearDePaqueteInv ==
  ASSUME ConsolaInv, consola = "viva", CrearDePaquete
  PROVE  ConsolaInv'
<1>0. TypeOK /\ ProgramasInv /\ MutexInv /\ PaquetesInv /\ PidsInv
  BY DEF ConsolaInv
<1>1. /\ paquetes.i \in 1 .. Len(listaHilosCorrectos) /\ paquetes.i >= 1
      /\ EsPID(listaHilosCorrectos[paquetes.i])
      /\ paquetes \in [paso : {"mirando", "recorriendo", "creando"}, i : Nat, tamanio : Nat]
  BY <1>0 DEF CrearDePaquete, PaquetesInv, TypeOK
<1>2. PICK a \in Paquetes : /\ EnLista(a) /\ a = listaHilosCorrectos[paquetes.i]
                            /\ paquetes.i = Len(listaHilosCorrectos)
  BY <1>1, FichaListada DEF EsPID, EsRechazo
<1>3. EsPID(a)
  BY <1>1, <1>2
<1>4. SinHilo = {a.pid}
  BY <1>2, <1>3 DEF EnLista, Trae
<1>5. PICK p \in Pids : p = a.pid /\ p \in otorgados /\ SinHilo = {p}
  BY <1>0, <1>4 DEF SinHilo, TypeOK
<1>6. /\ Paso(p, "mirando") /\ listaProcesos' = Append(listaProcesos, p)
      /\ mutexHilosCorrectos' = LIBRE
      /\ UNCHANGED << programaIniciado, mutexProcesos, pedidos, aConsola, pidActual,
                      otorgados, consola >>
  BY <1>1, <1>2, <1>5 DEF CrearDePaquete, nucleo
<1>7. listaHilosCorrectos' \in Seq(Paquetes) /\ SoloRechazos(listaHilosCorrectos')
  BY <1>0, <1>2, ListaSinElUltimo DEF CrearDePaquete, SacarPaquete, EnLista, TypeOK
<1>8. PICK n \in Nat : paquetes' = [paquetes EXCEPT !.paso = "recorriendo", !.tamanio = n]
  BY <1>7, LenProperties DEF CrearDePaquete
<1>9. /\ hilo' \in [Hilos -> EstadosHilo] /\ hilo'[INTERFAZ] = hilo[INTERFAZ]
      /\ hilo'[p].paso = "mirando" /\ hilo'[p].todos = hilo[p].todos
      /\ \A q \in Pids \ {p} : hilo'[q] = hilo[q]
  BY <1>0, <1>6, Tipos0, UnPaso DEF Pasos
<1>10. TypeOK'
  <2>1. listaProcesos' \in Seq(Pids)
    BY <1>0, <1>6, AppendProperties DEF TypeOK
  <2>2. paquetes' \in [paso : {"mirando", "recorriendo", "creando"}, i : Nat, tamanio : Nat]
    BY <1>1, <1>8
  <2>3. QED
    BY <1>0, <1>6, <1>7, <1>9, <2>1, <2>2 DEF TypeOK
<1>11. ProgramasInv'
  BY <1>0, <1>5, <1>6, <1>9 DEF ProgramasInv
<1>12. MutexInv' /\ PidsInv'
  BY <1>0, <1>6, <1>9 DEF MutexInv, PidsInv
<1>13. PaquetesInv'
  BY <1>1, <1>6, <1>8 DEF PaquetesInv, LIBRE, PAQUETES
<1>14. SinHilo' = {}
  BY <1>0, <1>5, <1>6, <1>9 DEF SinHilo, TypeOK
<1>15. Nada'
  <2>1. hilo[INTERFAZ].paso = "esperaPID"
    BY <1>2, <1>3 DEF EnLista, Propio, EsPID
  <2>2. NadieTiene'
    BY <1>2, <1>9 DEF EnLista, NadieTiene, Tiene
  <2>3. QED
    BY <1>2, <1>6, <1>7, <1>9, <1>14, <2>1, <2>2 DEF Nada, EnLista
<1>16. QED
  BY <1>10, <1>11, <1>12, <1>13, <1>15 DEF ConsolaInv, FichaODesfase, Ficha

-----------------------------------------------------------------------------
(* The kernel answers.                                                     *)
LEMMA Responde ==
  ASSUME TypeOK, NEW r \in Pedidos, EnPedido(r), NEW tipo \in Tipos, NEW pid \in Pids \cup {0},
         Responder(tipo, pid)
  PROVE  /\ [tipo |-> tipo, pid |-> pid] \in Paquetes
         /\ pedidos' = << >> /\ aConsola' = << [tipo |-> tipo, pid |-> pid] >>
         /\ aConsola' \in Seq(Paquetes) /\ pedidos' \in Seq(Pedidos)
         /\ UNCHANGED << hilo, programaIniciado, paquetes, mutexProcesos,
              mutexHilosCorrectos, listaProcesos, listaHilosCorrectos, consola >>
<1>1. [tipo |-> tipo, pid |-> pid] \in Paquetes
  BY DEF Paquetes
<1>2. pedidos' = << >> /\ aConsola' = << [tipo |-> tipo, pid |-> pid] >>
  BY DEF EnPedido, Responder
<1>3. << >> \in Seq(Pedidos) /\ << [tipo |-> tipo, pid |-> pid] >> \in Seq(Paquetes)
  BY <1>1
<1>4. UNCHANGED << hilo, programaIniciado, paquetes, mutexProcesos,
         mutexHilosCorrectos, listaProcesos, listaHilosCorrectos, consola >>
  BY DEF Responder, listas
<1>5. QED
  BY <1>1, <1>2, <1>3, <1>4

LEMMA nuevoAListoInv ==
  ASSUME ConsolaInv, consola = "viva", nuevoAListo
  PROVE  ConsolaInv'
<1>0. TypeOK /\ ProgramasInv /\ MutexInv /\ PaquetesInv /\ PidsInv
  BY DEF ConsolaInv
<1>1. PICK r \in Pedidos : EnPedido(r)
  BY FichaPedida DEF nuevoAListo
<1>2. /\ r.tipo = "MENSAJE_CODIGO" /\ pidActual \in Pids /\ pidActual' = pidActual + 1
      /\ SinHilo = {} /\ hilo[INTERFAZ].paso = "esperaPID"
  BY <1>1 DEF nuevoAListo, EnPedido, Propio
<1>3. pidActual \in Nat /\ pidActual' \in Nat
  BY <1>0, <1>2 DEF TypeOK
<1>4. ASSUME otorgados' = otorgados \cup {pidActual}, Responder("MENSAJE_PID", pidActual)
      PROVE  ConsolaInv'
  <2>1. PICK a \in Paquetes :
          /\ a.tipo = "MENSAJE_PID" /\ a.pid = pidActual
          /\ pedidos' = << >> /\ aConsola' = << a >>
          /\ aConsola' \in Seq(Paquetes) /\ pedidos' \in Seq(Pedidos)
          /\ UNCHANGED << hilo, programaIniciado, paquetes, mutexProcesos,
               mutexHilosCorrectos, listaProcesos, listaHilosCorrectos, consola >>
    BY <1>0, <1>1, <1>2, <1>4, Responde DEF Tipos
  <2>2. TypeOK'
    BY <1>0, <1>2, <1>3, <1>4, <2>1 DEF TypeOK
  <2>3. ProgramasInv' /\ MutexInv' /\ PaquetesInv'
    BY <1>0, <1>4, <2>1 DEF ProgramasInv, MutexInv, PaquetesInv
  <2>4. PidsInv'
    <3>1. \A p \in otorgados : p \in Nat /\ p < pidActual
      BY <1>0, Tipos0 DEF TypeOK, PidsInv
    <3>2. QED
      BY <1>0, <1>2, <1>3, <1>4, <3>1 DEF PidsInv
  <2>5. hilo[pidActual].paso = "sin crear"
    <3>1. pidActual \notin otorgados
      BY <1>0, <1>3 DEF PidsInv
    <3>2. QED
      BY <1>0, <1>2, <3>1 DEF ProgramasInv
  <2>6. SinHilo' = {pidActual}
    BY <1>2, <1>4, <2>1, <2>5 DEF SinHilo
  <2>7. EnRespuesta(a)'
    BY <1>1, <1>2, <2>1, <2>6 DEF EnRespuesta, EnPedido, NadieTiene, Tiene, Trae, EsPID, Propio
  <2>8. QED
    BY <2>2, <2>3, <2>4, <2>7 DEF ConsolaInv, FichaODesfase, Ficha
<1>5. ASSUME otorgados' = otorgados, Responder("ESPACIO_INSUFICIENTE", 0)
      PROVE  ConsolaInv'
  <2>1. PICK a \in Paquetes :
          /\ a.tipo = "ESPACIO_INSUFICIENTE"
          /\ pedidos' = << >> /\ aConsola' = << a >>
          /\ aConsola' \in Seq(Paquetes) /\ pedidos' \in Seq(Pedidos)
          /\ UNCHANGED << hilo, programaIniciado, paquetes, mutexProcesos,
               mutexHilosCorrectos, listaProcesos, listaHilosCorrectos, consola >>
    BY <1>0, <1>1, <1>5, Responde DEF Tipos
  <2>2. TypeOK'
    BY <1>0, <1>2, <1>3, <1>5, <2>1 DEF TypeOK
  <2>3. ProgramasInv' /\ MutexInv' /\ PaquetesInv'
    BY <1>0, <1>5, <2>1 DEF ProgramasInv, MutexInv, PaquetesInv
  <2>4. PidsInv'
    <3>1. \A p \in otorgados : p \in Nat /\ p < pidActual
      BY <1>0, Tipos0 DEF TypeOK, PidsInv
    <3>2. QED
      BY <1>0, <1>2, <1>3, <1>5, <3>1 DEF PidsInv
  <2>5. SinHilo' = {}
    BY <1>2, <1>5, <2>1 DEF SinHilo
  <2>6. EnRespuesta(a)'
    BY <1>1, <1>2, <2>1, <2>5 DEF EnRespuesta, EnPedido, NadieTiene, Tiene, Trae, EsPID, Propio
  <2>7. QED
    BY <2>2, <2>3, <2>4, <2>6 DEF ConsolaInv, FichaODesfase, Ficha
<1>6. QED
  BY <1>4, <1>5 DEF nuevoAListo

LEMMA finalizarProcesoEnviadoDeConsolaInv ==
  ASSUME ConsolaInv, consola = "viva", finalizarProcesoEnviadoDeConsola
  PROVE  ConsolaInv'
<1>0. TypeOK /\ ProgramasInv /\ MutexInv /\ PaquetesInv /\ PidsInv
  BY DEF ConsolaInv
<1>1. PICK r \in Pedidos : EnPedido(r)
  BY FichaPedida DEF finalizarProcesoEnviadoDeConsola
<1>2. /\ r.tipo = "FINALIZAR_PROGRAMA" /\ r.pid \in Pids \cup {0}
      /\ SinHilo = {} /\ hilo[INTERFAZ].paso = "esperaFin" /\ hilo[INTERFAZ].pid = r.pid
      /\ \E tipo \in {"FINALIZAR_PROGRAMA", "FINALIZO_INCORRECTAMENTE"} : Responder(tipo, r.pid)
      /\ UNCHANGED << pidActual, otorgados >>
  BY <1>1 DEF finalizarProcesoEnviadoDeConsola, EnPedido, Propio, Pedidos, nucleo
<1>3. PICK a \in Paquetes :
        /\ a.tipo \in {"FINALIZAR_PROGRAMA", "FINALIZO_INCORRECTAMENTE"} /\ a.pid = r.pid
        /\ pedidos' = << >> /\ aConsola' = << a >>
        /\ aConsola' \in Seq(Paquetes) /\ pedidos' \in Seq(Pedidos)
        /\ UNCHANGED << hilo, programaIniciado, paquetes, mutexProcesos,
             mutexHilosCorrectos, listaProcesos, listaHilosCorrectos, consola >>
  BY <1>0, <1>1, <1>2, Responde DEF Tipos
<1>4. TypeOK'
  BY <1>0, <1>2, <1>3 DEF TypeOK
<1>5. ProgramasInv' /\ MutexInv' /\ PaquetesInv' /\ PidsInv'
  BY <1>0, <1>2, <1>3 DEF ProgramasInv, MutexInv, PaquetesInv, PidsInv
<1>6. SinHilo' = {}
  BY <1>2, <1>3 DEF SinHilo
<1>7. EnRespuesta(a)'
  BY <1>1, <1>2, <1>3, <1>6 DEF EnRespuesta, EnPedido, NadieTiene, Tiene, Trae, EsPID, Propio
<1>8. QED
  BY <1>4, <1>5, <1>7 DEF ConsolaInv, FichaODesfase, Ficha

-----------------------------------------------------------------------------
(* The invariant.                                                          *)
LEMMA ConsolaInit == Init => ConsolaInv
<1>1. SUFFICES ASSUME Init
               PROVE  ConsolaInv
  OBVIOUS
<1>2. INTERFAZ \notin Pids /\ Pids \subseteq Nat /\ INTERFAZ \in Hilos /\ Pids \subseteq Hilos
  BY PidsAssumption, FS_CardinalityType DEF Hilos, INTERFAZ
<1>3. hilo \in [Hilos -> EstadosHilo]
  BY <1>1 DEF Init, EstadosHilo, Pasos
<1>4. hilo[INTERFAZ].paso = "menu" /\ \A p \in Pids : hilo[p].paso = "sin crear" /\ ~hilo[p].todos
  BY <1>1, <1>2 DEF Init
<1>10. /\ listaProcesos = << >> /\ listaHilosCorrectos = << >>
       /\ pedidos = << >> /\ aConsola = << >> /\ programaIniciado = FALSE
       /\ mutexProcesos = LIBRE /\ mutexHilosCorrectos = LIBRE
       /\ pidActual = 1 /\ otorgados = {} /\ consola = "viva"
       /\ paquetes = [paso |-> "mirando", i |-> 1, tamanio |-> 0]
  BY <1>1 DEF Init
<1>5. TypeOK
  <2>2. paquetes \in [paso : {"mirando", "recorriendo", "creando"}, i : Nat, tamanio : Nat]
    BY <1>10
  <2>3. << >> \in Seq(Pids) /\ << >> \in Seq(Paquetes) /\ << >> \in Seq(Pedidos)
    OBVIOUS
  <2>4. QED
    BY <1>3, <1>4, <1>10, <2>2, <2>3 DEF TypeOK
<1>6. ProgramasInv
  BY <1>4 DEF ProgramasInv
<1>7. MutexInv /\ PaquetesInv /\ PidsInv
  <2>1. MutexInv
    <3>1. mutexProcesos # INTERFAZ
      BY <1>10 DEF LIBRE, INTERFAZ
    <3>2. QED
      BY <1>4, <1>10, <3>1 DEF MutexInv
  <2>2. PaquetesInv
    <3>1. paquetes.i = 1 /\ paquetes.paso = "mirando"
      BY <1>10
    <3>2. QED
      BY <1>10, <3>1 DEF PaquetesInv, LIBRE, PAQUETES
  <2>3. PidsInv
    BY <1>10 DEF PidsInv
  <2>4. QED
    BY <2>1, <2>2, <2>3
<1>8. Nada
  <2>1. SoloRechazos(listaHilosCorrectos)
    BY <1>10 DEF SoloRechazos
  <2>2. QED
    BY <1>4, <1>10, <2>1 DEF Nada, NadieTiene, Tiene, SinHilo
<1>9. QED
  BY <1>5, <1>6, <1>7, <1>8 DEF ConsolaInv, FichaODesfase, Ficha

LEMMA ConsolaNext == ConsolaInv /\ [Next]_vars => ConsolaInv'
<1>1. SUFFICES ASSUME ConsolaInv, [Next]_vars
               PROVE  ConsolaInv'
  OBVIOUS
<1>2. ASSUME UNCHANGED vars
      PROVE  ConsolaInv'
  <2>1. UNCHANGED << hilo, programaIniciado, paquetes, mutexProcesos, mutexHilosCorrectos,
          listas, pedidos, aConsola, nucleo, consola >>
    BY <1>2 DEF vars
  <2>2. TypeOK /\ PaquetesInv
    BY <1>1 DEF ConsolaInv
  <2>3. PaquetesInv'
    BY <2>1, <2>2 DEF PaquetesInv, listas
  <2>4. QED
    BY <1>1, <2>1, <2>2, <2>3, OtroPaquetes DEF TypeOK
<1>3. ASSUME Next
      PROVE  ConsolaInv'
  <2>0. consola = "viva"
    BY <1>3 DEF Next
  <2>1. ASSUME manejadorInterfaz
        PROVE  ConsolaInv'
    BY <1>1, <2>0, <2>1, prepararProgramaInv, pedirFinInv DEF manejadorInterfaz
  <2>2. ASSUME NEW p \in Pids, EnMarcha(p)
        PROVE  ConsolaInv'
    <3>1. p # INTERFAZ /\ p \in Hilos
      BY <1>1, Tipos0 DEF ConsolaInv
    <3>2. QED
      BY <1>1, <2>0, <2>2, <3>1, NingunProgramaFinaliza, DejaElPrograma,
         administrarProgramaInv, MirarListaInv, TomarCabezaInv DEF EnMarcha
  <2>3. ASSUME EnMarcha(INTERFAZ)
        PROVE  ConsolaInv'
    <3>1. INTERFAZ \in Hilos
      BY DEF Hilos
    <3>2. QED
      BY <1>1, <2>0, <2>3, <3>1, finalizarProgramaInv, RecibirFinPropio, RecibirRechazo,
         DejaLaInterfaz, recibirPIDInv, crearProgramaInv DEF EnMarcha
  <2>4. ASSUME manejadorPaquetes
        PROVE  ConsolaInv'
    BY <1>1, <2>0, <2>4, MirarPaquetesInv, RecorrerPaquetesInv, CrearDePaqueteInv
       DEF manejadorPaquetes
  <2>5. ASSUME PartirPaquete
        PROVE  ConsolaInv'
    BY <1>1, <2>0, <2>5, PartirPaqueteInv
  <2>6. ASSUME kernel
        PROVE  ConsolaInv'
    BY <1>1, <2>0, <2>6, nuevoAListoInv, finalizarProcesoEnviadoDeConsolaInv DEF kernel
  <2>7. QED
    BY <1>3, <2>1, <2>2, <2>3, <2>4, <2>5, <2>6 DEF Next, Hilos
<1>4. QED
  BY <1>1, <1>2, <1>3

LEMMA ConsolaSiempre == Spec => []ConsolaInv
<1>1. QED
  BY ConsolaInit, ConsolaNext, PTL DEF Spec

-----------------------------------------------------------------------------
(* The theorems.                                                           *)

(* The variables of the console always have values of their types, and in  *)
(* particular its two lists and what is on its way hold only packets and   *)
(* pids the kernel may give.                                               *)
THEOREM TipoDeConsola == Spec => []TypeOK
<1>1. ConsolaInv => TypeOK
  BY DEF ConsolaInv
<1>2. QED
  BY <1>1, ConsolaSiempre, PTL

(* There is one request or answer at a time, and it is the one the         *)
(* interface waits for, whoever receives it and however many programs the  *)
(* console runs.                                                           *)
THEOREM LaRespuestaEsLaPropia == Spec => []RespuestaPropia
<1>1. ASSUME ConsolaInv
      PROVE  RespuestaPropia
  <2>1. Len(pedidos) + Len(aConsola) <= 1
    <3>1. \/ pedidos = << >> /\ aConsola = << >>
          \/ \E r \in Pedidos : pedidos = << r >> /\ aConsola = << >>
          \/ \E a \in Paquetes : pedidos = << >> /\ aConsola = << a >>
      BY <1>1 DEF ConsolaInv, FichaODesfase, Desfase, Ficha, Nada, EnLaInterfaz, EnPedido,
         EnRespuesta, EnLista, EnMano, EnSuHilo
    <3>2. Len(<< >>) = 0 /\ \A x : Len(<< x >>) = 1
      OBVIOUS
    <3>3. QED
      BY <3>1, <3>2
  <2>2. ASSUME NEW i \in DOMAIN aConsola
        PROVE  Propio(aConsola[i])
    <3>1. aConsola # << >>
      BY <2>2
    <3>2. PICK a \in Paquetes : EnRespuesta(a)
      BY <1>1, <3>1, FichaQueLlega
    <3>3. aConsola[i] = a
      BY <2>2, <3>2 DEF EnRespuesta
    <3>4. QED
      BY <3>2, <3>3 DEF EnRespuesta
  <2>3. QED
    BY <2>1, <2>2 DEF RespuestaPropia, Propio, EsRechazo
<1>2. QED
  BY <1>1, ConsolaSiempre, PTL

(* crearPrograma, called with mutexHilosCorrectos held, never waits for    *)
(* mutexProcesos: the interface holds it only while it waits for the end   *)
(* of a program, and then no packet of the list has a pid.                 *)
THEOREM LosMutexNoSeAbrazan == Spec => []NoSeAbrazan
<1>1. ASSUME ConsolaInv, paquetes.paso = "creando"
      PROVE  mutexProcesos = LIBRE
  <2>1. PaquetesInv /\ MutexInv
    BY <1>1 DEF ConsolaInv
  <2>2. /\ paquetes.i \in 1 .. Len(listaHilosCorrectos)
        /\ EsPID(listaHilosCorrectos[paquetes.i]) /\ ~EsRechazo(listaHilosCorrectos[paquetes.i])
    BY <1>1, <2>1 DEF PaquetesInv, EsPID, EsRechazo
  <2>3. ~Desfase
    BY <2>2 DEF Desfase, SoloRechazos
  <2>6. Ficha
    BY <1>1, <2>3 DEF ConsolaInv, FichaODesfase
  <2>4. hilo[INTERFAZ].paso = "esperaPID"
    <3>1. PICK a \in Paquetes : EnLista(a)
      BY <2>2, <2>6 DEF Ficha, Nada, EnLaInterfaz, EnPedido, EnRespuesta, EnMano, EnSuHilo,
         SoloRechazos
    <3>2. listaHilosCorrectos[paquetes.i] = a
      <4>1. Len(listaHilosCorrectos) \in Nat
        BY <1>1, LenProperties DEF ConsolaInv, TypeOK
      <4>2. QED
        BY <2>2, <3>1, <4>1 DEF EnLista, Ultimo
    <3>3. QED
      BY <2>2, <3>1, <3>2 DEF EnLista, Propio, EsPID
  <2>5. QED
    BY <2>1, <2>4 DEF MutexInv
<1>2. ConsolaInv => NoSeAbrazan
  BY <1>1 DEF NoSeAbrazan
<1>3. QED
  BY <1>2, ConsolaSiempre, PTL

(* When the interface waits for the end of a program and nothing is on its *)
(* way, another thread has the answer.                                     *)
THEOREM ElFinEstaEnOtrasManos == Spec => []FinEnOtrasManos
<1>1. ASSUME ConsolaInv, consola = "viva", hilo[INTERFAZ].paso = "esperaFin",
             pedidos = << >>, aConsola = << >>
      PROVE  mutexProcesos = INTERFAZ /\ FinTomado(hilo[INTERFAZ].pid)
  <2>1. mutexProcesos = INTERFAZ
    BY <1>1 DEF ConsolaInv, MutexInv
  <2>2. \/ \E a \in Paquetes : EnLista(a)
        \/ \E p \in Pids : EnMano(p) \/ EnSuHilo(p)
    BY <1>1 DEF ConsolaInv, FichaODesfase, Ficha, Nada, EnLaInterfaz, EnPedido, EnRespuesta
  <2>3. ASSUME NEW a \in Paquetes, EnLista(a)
        PROVE  FinTomado(hilo[INTERFAZ].pid)
    <3>1. EsRespuesta(a, hilo[INTERFAZ].pid)
      BY <1>1, <2>3 DEF EnLista, Propio, EsFin, EsRespuesta, EsRechazo
    <3>2. \E i \in DOMAIN listaHilosCorrectos : listaHilosCorrectos[i] = a
      <4>1. listaHilosCorrectos \in Seq(Paquetes)
        BY <1>1 DEF ConsolaInv, TypeOK
      <4>2. Len(listaHilosCorrectos) \in DOMAIN listaHilosCorrectos
        BY <2>3, <4>1, LenProperties, EmptySeq DEF EnLista, Ultimo
      <4>3. QED
        BY <2>3, <4>2 DEF EnLista, Ultimo
    <3>3. QED
      BY <3>1, <3>2 DEF FinTomado
  <2>4. ASSUME NEW p \in Pids, EnMano(p)
        PROVE  FinTomado(hilo[INTERFAZ].pid)
    <3>1. EsRespuesta(hilo[p].mano, hilo[INTERFAZ].pid) /\ hilo[p].paso = "deja"
      BY <1>1, <2>4 DEF EnMano, Propio, EsFin, EsRespuesta, EsRechazo
    <3>2. QED
      BY <3>1 DEF FinTomado
  <2>5. ASSUME NEW p \in Pids, EnSuHilo(p)
        PROVE  FinTomado(hilo[INTERFAZ].pid)
    BY <2>5 DEF EnSuHilo, FinTomado
  <2>6. QED
    BY <2>1, <2>2, <2>3, <2>4, <2>5
<1>2. ConsolaInv => FinEnOtrasManos
  BY <1>1 DEF FinEnOtrasManos
<1>3. QED
  BY <1>2, ConsolaSiempre, PTL

(* How many packets of a list bring a pid.                                 *)
LEMMA UnPaqueteDePID ==
  ASSUME NEW s \in Seq(Paquetes), NEW a, NEW p, Ultimo(s, a)
  PROVE  Cardinality({i \in DOMAIN s : EsPID(s[i]) /\ s[i].pid = p})
           = IF EsPID(a) /\ a.pid = p THEN 1 ELSE 0
<1>1. DOMAIN s = 1 .. Len(s) /\ Len(s) \in Nat /\ Len(s) >= 1
  BY LenProperties, EmptySeq DEF Ultimo
<1>2. \A i \in 1 .. Len(s) - 1 : ~EsPID(s[i])
  BY DEF Ultimo, EsRechazo, EsPID
<1>3. s[Len(s)] = a
  BY DEF Ultimo
<1>4. CASE EsPID(a) /\ a.pid = p
  <2>1. {i \in DOMAIN s : EsPID(s[i]) /\ s[i].pid = p} = {Len(s)}
    BY <1>1, <1>2, <1>3, <1>4
  <2>2. QED
    BY <1>4, <2>1, FS_Singleton
<1>5. CASE ~(EsPID(a) /\ a.pid = p)
  <2>1. {i \in DOMAIN s : EsPID(s[i]) /\ s[i].pid = p} = {}
    BY <1>1, <1>2, <1>3, <1>5
  <2>2. QED
    BY <1>5, <2>1, FS_EmptySet
<1>6. QED
  BY <1>4, <1>5

LEMMA NingunPaqueteDePID ==
  ASSUME NEW s \in Seq(Paquetes), NEW p, SoloRechazos(s)
  PROVE  Cardinality({i \in DOMAIN s : EsPID(s[i]) /\ s[i].pid = p}) = 0
<1>1. \A i \in DOMAIN s : ~EsPID(s[i])
  BY LenProperties DEF SoloRechazos, EsRechazo, EsPID
<1>2. {i \in DOMAIN s : EsPID(s[i]) /\ s[i].pid = p} = {}
  BY <1>1
<1>3. QED
  BY <1>2, FS_EmptySet

(* Unless a packet is split between two threads, a pid that the kernel     *)
(* gave to this console is not lost and does not get two threads, although *)
(* any thread may receive the packet that brings it.                       *)
THEOREM CadaPidUnHilo == Spec => []UnHiloPorPid
<1>1. ASSUME ConsolaInv, consola # "desfasada", NEW p \in otorgados
      PROVE  (IF hilo[p].paso = "sin crear" THEN 0 ELSE 1) + PaquetesDePID(p) = 1
  <2>1. DEFINE c(lista) == Cardinality({i \in DOMAIN lista : EsPID(lista[i]) /\ lista[i].pid = p})
        M == {h \in Hilos : hilo[h].paso \in {"crea", "deja"}
                              /\ EsPID(hilo[h].mano) /\ hilo[h].mano.pid = p}
        e == IF p \in SinHilo THEN 1 ELSE 0
  <2>2. PaquetesDePID(p) = c(aConsola) + c(listaHilosCorrectos) + Cardinality(M)
    BY DEF PaquetesDePID
  <2>3. hilo[p].paso = "sin crear" <=> p \in SinHilo
    BY DEF SinHilo
  <2>5. TypeOK /\ ProgramasInv /\ Ficha /\ p \in Pids
    BY <1>1 DEF ConsolaInv, FichaODesfase, TypeOK
  <2>4. /\ aConsola = << >> => c(aConsola) = 0
        /\ SoloRechazos(listaHilosCorrectos) => c(listaHilosCorrectos) = 0
        /\ \A a : aConsola = << a >> => c(aConsola) = IF EsPID(a) /\ a.pid = p THEN 1 ELSE 0
        /\ \A a : Ultimo(listaHilosCorrectos, a) =>
                 c(listaHilosCorrectos) = IF EsPID(a) /\ a.pid = p THEN 1 ELSE 0
    <3>1. aConsola \in Seq(Paquetes) /\ listaHilosCorrectos \in Seq(Paquetes)
      BY <2>5 DEF TypeOK
    <3>2. aConsola = << >> => SoloRechazos(aConsola)
      BY DEF SoloRechazos
    <3>3. \A a : aConsola = << a >> => Ultimo(aConsola, a)
      BY DEF Ultimo
    <3>4. /\ SoloRechazos(aConsola) => c(aConsola) = 0
          /\ SoloRechazos(listaHilosCorrectos) => c(listaHilosCorrectos) = 0
      BY <3>1, NingunPaqueteDePID
    <3>5. \A a : Ultimo(aConsola, a) =>
                   c(aConsola) = IF EsPID(a) /\ a.pid = p THEN 1 ELSE 0
      BY <3>1, UnPaqueteDePID
    <3>6. \A a : Ultimo(listaHilosCorrectos, a) =>
                   c(listaHilosCorrectos) = IF EsPID(a) /\ a.pid = p THEN 1 ELSE 0
      BY <3>1, UnPaqueteDePID
    <3> HIDE DEF c
    <3>7. QED
      BY <3>2, <3>3, <3>4, <3>5, <3>6
  <2>6. ASSUME hilo[INTERFAZ].paso \notin {"crea", "deja"}, \A q \in Pids : hilo[q].paso # "deja"
        PROVE  Cardinality(M) = 0
    <3>1. M = {}
      BY <2>5, <2>6 DEF Hilos, ProgramasInv
    <3>2. QED
      BY <3>1, FS_EmptySet
  <2>7. ASSUME NEW h \in Hilos, hilo[h].paso \in {"crea", "deja"},
               \A g \in Hilos \ {h} : hilo[g].paso \notin {"crea", "deja"}
        PROVE  Cardinality(M) = IF p \in Trae(hilo[h].mano) THEN 1 ELSE 0
    <3>1. CASE p \in Trae(hilo[h].mano)
      <4>1. M = {h}
        BY <2>7, <3>1 DEF Trae
      <4>2. QED
        BY <3>1, <4>1, FS_Singleton
    <3>2. CASE p \notin Trae(hilo[h].mano)
      <4>1. M = {}
        BY <2>7, <3>2 DEF Trae
      <4>2. QED
        BY <3>2, <4>1, FS_EmptySet
    <3>3. QED
      BY <3>1, <3>2
  <2> HIDE DEF c, M
  <2>9. ASSUME Nada
        PROVE  c(aConsola) + c(listaHilosCorrectos) + Cardinality(M) = e
    <3>1. Cardinality(M) = 0
      BY <2>6, <2>9 DEF Nada, NadieTiene, Tiene
    <3>2. QED
      BY <2>4, <2>9, <3>1 DEF Nada
  <2>10. ASSUME EnLaInterfaz
         PROVE  c(aConsola) + c(listaHilosCorrectos) + Cardinality(M) = e
    <3>1. INTERFAZ \in Hilos /\ SinHilo = Trae(hilo[INTERFAZ].mano)
      BY <2>10 DEF Hilos, EnLaInterfaz, Trae, EsPID, EsRechazo
    <3>2. \A g \in Hilos \ {INTERFAZ} : hilo[g].paso \notin {"crea", "deja"}
      BY <2>5, <2>10 DEF Hilos, EnLaInterfaz, NadieTiene, Tiene, ProgramasInv
    <3>3. Cardinality(M) = e
      BY <2>7, <2>10, <3>1, <3>2 DEF EnLaInterfaz
    <3>4. QED
      BY <2>4, <2>10, <3>3 DEF EnLaInterfaz
  <2>11. ASSUME NEW r \in Pedidos, EnPedido(r)
         PROVE  c(aConsola) + c(listaHilosCorrectos) + Cardinality(M) = e
    <3>1. Cardinality(M) = 0
      BY <2>6, <2>11 DEF EnPedido, NadieTiene, Tiene, Propio
    <3>2. QED
      BY <2>4, <2>11, <3>1 DEF EnPedido
  <2>12. ASSUME NEW a \in Paquetes, EnRespuesta(a) \/ EnLista(a)
         PROVE  c(aConsola) + c(listaHilosCorrectos) + Cardinality(M) = e
    <3>1. Cardinality(M) = 0
      BY <2>6, <2>12 DEF EnRespuesta, EnLista, NadieTiene, Tiene, Propio
    <3>2. c(aConsola) + c(listaHilosCorrectos) = IF EsPID(a) /\ a.pid = p THEN 1 ELSE 0
      BY <2>4, <2>12 DEF EnRespuesta, EnLista
    <3>3. p \in SinHilo <=> EsPID(a) /\ a.pid = p
      BY <2>12 DEF EnRespuesta, EnLista, Trae
    <3>4. QED
      BY <3>1, <3>2, <3>3
  <2>13. ASSUME NEW q \in Pids, EnMano(q)
         PROVE  c(aConsola) + c(listaHilosCorrectos) + Cardinality(M) = e
    <3>1. q \in Hilos /\ hilo[q].paso = "deja" /\ SinHilo = Trae(hilo[q].mano)
      BY <2>13 DEF Hilos, EnMano
    <3>2. \A g \in Hilos \ {q} : hilo[g].paso \notin {"crea", "deja"}
      BY <2>5, <2>13 DEF Hilos, EnMano, SoloTiene, Tiene, Propio, ProgramasInv
    <3>3. Cardinality(M) = e
      BY <2>7, <3>1, <3>2
    <3>4. QED
      BY <2>4, <2>13, <3>3 DEF EnMano
  <2>14. ASSUME NEW q \in Pids, EnSuHilo(q)
         PROVE  c(aConsola) + c(listaHilosCorrectos) + Cardinality(M) = e
    <3>1. Cardinality(M) = 0
      BY <2>6, <2>14 DEF EnSuHilo, SoloTiene, Tiene
    <3>2. QED
      BY <2>4, <2>14, <3>1 DEF EnSuHilo
  <2>15. PaquetesDePID(p) = e
    BY <2>2, <2>5, <2>9, <2>10, <2>11, <2>12, <2>13, <2>14 DEF Ficha
  <2> DEFINE t == IF hilo[p].paso = "sin crear" THEN 0 ELSE 1
  <2>16. t + e = 1
    <3>1. (t = 0 /\ e = 1) \/ (t = 1 /\ e = 0)
      BY <2>3
    <3> HIDE DEF t, e
    <3>2. QED
      BY <3>1
  <2> HIDE DEF t, e
  <2>17. t + PaquetesDePID(p) = 1
    BY <2>15, <2>16
  <2>18. QED
    BY <2>17 DEF t
<1>2. ConsolaInv => UnHiloPorPid
  BY <1>1 DEF UnHiloPorPid
<1>3. QED
  BY <1>2, ConsolaSiempre, PTL
=============================================================================

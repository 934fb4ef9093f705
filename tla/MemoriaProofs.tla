--------------------------- MODULE MemoriaProofs ----------------------------
(***************************************************************************)
(* Theorems about the memory, for every number of frames, every size of    *)
(* frame and of cache and every set of pids and of page counts.  First the *)
(* inverted page table by itself, then with the reads, writes and flushes  *)
(* of the cache that come between the requests that change it.             *)
(***************************************************************************)
EXTENDS CacheMemoria, BuscarFrameLazo, SequenceTheorems, FiniteSetTheorems,
        WellFoundedInduction, TLAPS

(* The search state keeps its types, MARCOS being any number above 1.      *)
THEOREM TiposDelLazo == SpecLazo => []TypeOKLazo
<1>1. InitLazo => TypeOKLazo
  BY MarcosAssumption DEF InitLazo, TypeOKLazo, Frames, NO_ENCONTRADO, FUERA
<1>2. TypeOKLazo /\ [NextLazo]_varsLazo => TypeOKLazo'
  <2> SUFFICES ASSUME TypeOKLazo, [NextLazo]_varsLazo
               PROVE  TypeOKLazo'
    OBVIOUS
  <2> USE MarcosAssumption DEF TypeOKLazo, Frames, NO_ENCONTRADO, FUERA
  <2>1. CASE HashCorrecto
    BY <2>1 DEF HashCorrecto, Devolver
  <2>2. CASE HashIncorrecto
    BY <2>2 DEF HashIncorrecto
  <2>3. CASE VueltaCompleta
    BY <2>3 DEF VueltaCompleta, Devolver
  <2>4. CASE Encontrada
    BY <2>4 DEF Encontrada, Devolver, Siguiente
  <2>5. CASE LeerFuera
    BY <2>5 DEF LeerFuera, Devolver
  <2>6. CASE Avanzar
    BY <2>6 DEF Avanzar, AlPrincipio, Siguiente
  <2>7. CASE UNCHANGED varsLazo
    BY <2>7 DEF varsLazo
  <2>8. QED
    BY <2>1, <2>2, <2>3, <2>4, <2>5, <2>6, <2>7 DEF NextLazo
<1>3. QED
  BY <1>1, <1>2, PTL DEF SpecLazo

(* Two frames at the same distance of the start are the same frame, unless *)
(* one of them is frame 0.                                                 *)
LEMMA DistanciaInyectiva ==
  ASSUME NEW h \in Frames, NEW f \in Frames \ {0}, NEW g \in Frames \ {0},
         Distancia(h, f) = Distancia(h, g)
  PROVE  f = g
BY MarcosAssumption DEF Frames, Distancia

(* A candidate with no candidate nearer to the start is the one            *)
(* buscarFrameProceso chooses.                                             *)
LEMMA ElPrimero ==
  ASSUME NEW h \in Frames, NEW cs \in SUBSET (Frames \ {0}), NEW f \in cs,
         f \in Visitados(h),
         \A g \in cs \cap Visitados(h) : Distancia(h, f) <= Distancia(h, g)
  PROVE  buscarFrameProceso(h, cs) = f
<1> DEFINE vistos == cs \cap Visitados(h)
           Minimo(x) == \A g \in vistos : Distancia(h, x) <= Distancia(h, g)
<1>1. f \in vistos /\ Minimo(f)
  OBVIOUS
<1>2. ASSUME NEW x \in vistos, Minimo(x)
      PROVE  x = f
  <2>1. Distancia(h, x) <= Distancia(h, f) /\ Distancia(h, f) <= Distancia(h, x)
    BY <1>1, <1>2
  <2>2. Distancia(h, x) \in Int /\ Distancia(h, f) \in Int
    BY MarcosAssumption DEF Distancia, Frames
  <2>3. Distancia(h, x) = Distancia(h, f)
    BY <2>1, <2>2
  <2>4. QED
    BY <2>3, DistanciaInyectiva
<1>3. (CHOOSE x \in vistos : Minimo(x)) = f
  BY <1>1, <1>2
<1>4. vistos # {}
  BY <1>1
<1>5. QED
  BY <1>3, <1>4 DEF buscarFrameProceso

(* What is behind the search holds no candidate: the loop invariant.       *)
THEOREM NadaQuedaAtras == SpecLazo => []NadaAtras
<1>1. InitLazo => NadaAtras
  BY DEF InitLazo, NadaAtras
<1>2. TypeOKLazo /\ NadaAtras /\ [NextLazo]_varsLazo => NadaAtras'
  <2> SUFFICES ASSUME TypeOKLazo, NadaAtras, [NextLazo]_varsLazo
               PROVE  NadaAtras'
    OBVIOUS
  <2> USE MarcosAssumption DEF NadaAtras
  <2>1. CASE HashCorrecto
    BY <2>1 DEF HashCorrecto, Devolver
  <2>2. CASE HashIncorrecto
    <3>1. \A g \in candidatos : Distancia(deDondeEmpiezo, g) > 0
      BY <2>2 DEF HashIncorrecto, TypeOKLazo, Frames, Distancia
    <3>2. Recorrido' = 0
      BY <2>2 DEF HashIncorrecto, Recorrido, Distancia, TypeOKLazo, Frames
    <3>3. QED
      BY <2>2, <3>1, <3>2 DEF HashIncorrecto
  <2>3. CASE VueltaCompleta
    BY <2>3 DEF VueltaCompleta, Devolver
  <2>4. CASE Encontrada
    BY <2>4 DEF Encontrada, Devolver
  <2>5. CASE LeerFuera
    BY <2>5 DEF LeerFuera, Devolver
  <2>6. CASE Avanzar
    <3>1. \A g \in candidatos : Distancia(deDondeEmpiezo, g) > Recorrido'
      BY <2>6 DEF Avanzar, AlPrincipio, Siguiente, Recorrido, Distancia, TypeOKLazo, Frames
    <3>2. deDondeEmpiezo # MARCOS - 1 => paginaDeHash' # MARCOS - 1
      BY <2>6 DEF Avanzar, AlPrincipio, Siguiente, TypeOKLazo, Frames
    <3>3. deDondeEmpiezo # MARCOS - 1
      BY <2>6 DEF Avanzar, Siguiente, TypeOKLazo, Frames
    <3>4. QED
      BY <2>6, <3>1, <3>2, <3>3 DEF Avanzar
  <2>7. CASE UNCHANGED varsLazo
    BY <2>7 DEF varsLazo, Recorrido
  <2>8. QED
    BY <2>1, <2>2, <2>3, <2>4, <2>5, <2>6, <2>7 DEF NextLazo
<1>3. QED
  BY <1>1, <1>2, TiposDelLazo, PTL DEF SpecLazo

(* The loop returns what FuncionHash says, whatever the set of accepted    *)
(* frames, the start and the size of the table.                            *)
THEOREM LazoExacto == SpecLazo => []ResultadoExacto
<1>1. InitLazo => ResultadoExacto
  BY DEF InitLazo, ResultadoExacto
<1>2. TypeOKLazo /\ NadaAtras /\ ResultadoExacto /\ [NextLazo]_varsLazo => ResultadoExacto'
  <2> SUFFICES ASSUME TypeOKLazo, NadaAtras, ResultadoExacto, [NextLazo]_varsLazo
               PROVE  ResultadoExacto'
    OBVIOUS
  <2> USE MarcosAssumption DEF ResultadoExacto, Prometido
  <2>1. CASE HashCorrecto
    <3>1. \A g \in candidatos :
            Distancia(deDondeEmpiezo, deDondeEmpiezo) <= Distancia(deDondeEmpiezo, g)
      BY DEF Distancia, TypeOKLazo, Frames
    <3>2. deDondeEmpiezo \in Visitados(deDondeEmpiezo)
      BY DEF Visitados
    <3>3. buscarFrameProceso(deDondeEmpiezo, candidatos) = deDondeEmpiezo
      BY <2>1, <3>1, <3>2, ElPrimero DEF HashCorrecto, TypeOKLazo
    <3>4. QED
      BY <2>1, <3>3 DEF HashCorrecto, Devolver
  <2>2. CASE HashIncorrecto
    BY <2>2 DEF HashIncorrecto
  <2>3. CASE VueltaCompleta
    <3>1. deDondeEmpiezo # MARCOS - 1 /\ deDondeEmpiezo # 0
      BY <2>3 DEF VueltaCompleta, Siguiente, NadaAtras, TypeOKLazo, Frames
    <3>2. candidatos = {}
      BY <2>3, <3>1 DEF VueltaCompleta, Siguiente, NadaAtras, TypeOKLazo, Frames,
                        Recorrido, Distancia
    <3>3. buscarFrameProceso(deDondeEmpiezo, candidatos) = NO_ENCONTRADO
      BY <3>1, <3>2 DEF buscarFrameProceso
    <3>4. QED
      BY <2>3, <3>3 DEF VueltaCompleta, Devolver
  <2>4. CASE Encontrada
    <3>1. Siguiente \in candidatos /\ Siguiente \in Frames
      BY <2>4 DEF Encontrada, TypeOKLazo
    <3>2. deDondeEmpiezo # MARCOS - 1
      BY <2>4, <3>1 DEF Encontrada, Siguiente, NadaAtras, TypeOKLazo, Frames
    <3>3. Siguiente \in Visitados(deDondeEmpiezo)
      BY <3>1, <3>2 DEF Visitados, TypeOKLazo
    <3>4. \A g \in candidatos :
            Distancia(deDondeEmpiezo, Siguiente) <= Distancia(deDondeEmpiezo, g)
      BY <2>4, <3>1 DEF Encontrada, Siguiente, NadaAtras, TypeOKLazo, Frames,
                        Recorrido, Distancia
    <3>5. buscarFrameProceso(deDondeEmpiezo, candidatos) = Siguiente
      BY <3>1, <3>3, <3>4, ElPrimero DEF TypeOKLazo
    <3>6. QED
      BY <2>4, <3>5 DEF Encontrada, Devolver
  <2>5. CASE LeerFuera
    <3>1. deDondeEmpiezo = MARCOS - 1
      BY <2>5 DEF LeerFuera, Siguiente, NadaAtras, TypeOKLazo, Frames
    <3>2. candidatos \cap Visitados(deDondeEmpiezo) = {}
      BY <2>5, <3>1 DEF LeerFuera, NadaAtras, Visitados
    <3>3. buscarFrameProceso(deDondeEmpiezo, candidatos) = FUERA
      BY <3>1, <3>2 DEF buscarFrameProceso
    <3>4. QED
      BY <2>5, <3>3 DEF LeerFuera, Devolver
  <2>6. CASE Avanzar
    BY <2>6 DEF Avanzar
  <2>7. CASE UNCHANGED varsLazo
    BY <2>7 DEF varsLazo
  <2>8. QED
    BY <2>1, <2>2, <2>3, <2>4, <2>5, <2>6, <2>7 DEF NextLazo
<1>3. QED
  BY <1>1, <1>2, TiposDelLazo, NadaQuedaAtras, PTL DEF SpecLazo

-----------------------------------------------------------------------------
(* A non-empty set of naturals has a least element.                        *)
LEMMA HayMinimo ==
  ASSUME NEW T \in SUBSET Nat, T # {}
  PROVE  \E n \in T : \A m \in T : n <= m
<1> DEFINE Menor == {ss \in Nat \X Nat : ss[1] < ss[2]}
<1>1. IsWellFoundedOn(Menor, Nat)
  BY NatLessThanWellFounded, Zenon DEF OpToRel
<1>2. PICK n \in T : \A m \in T : <<m, n>> \notin Menor
  <2> HIDE DEF Menor
  <2>1. QED
    BY <1>1, WFMin
<1>3. ASSUME NEW m \in T
      PROVE  n <= m
  <2>1. <<m, n>> \notin Menor
    BY <1>2
  <2>2. ~(m < n)
    BY <2>1
  <2>3. QED
    BY <2>2
<1>4. QED
  BY <1>3

-----------------------------------------------------------------------------
(* The inverted page table.                                                *)

USE DEF Respuestas, Servidores

(* A search for which some visited frame is right answers with such a      *)
(* frame; the other answers are not frames.                                *)
LEMMA BusquedaAcierta ==
  ASSUME NEW h \in Frames, NEW cs \in SUBSET Frames
  PROVE  /\ cs \cap Visitados(h) # {} => buscarFrameProceso(h, cs) \in cs
         /\ cs \cap Visitados(h) = {} =>
              buscarFrameProceso(h, cs) \in {NO_ENCONTRADO, CUELGA, FUERA}
<1> DEFINE vistos == cs \cap Visitados(h)
           Minimo(x) == \A g \in vistos : Distancia(h, x) <= Distancia(h, g)
<1>1. CASE vistos # {}
  <2> DEFINE D == {Distancia(h, g) : g \in vistos}
  <2>1. D \subseteq Nat
    BY MarcosAssumption DEF Distancia, Frames
  <2>0. D # {}
    BY <1>1
  <2>2. PICK n \in D : \A m \in D : n <= m
    <3> HIDE DEF D
    <3>1. D \in SUBSET Nat
      BY <2>1
    <3>2. QED
      BY <2>0, <3>1, HayMinimo
  <2>3. PICK x \in vistos : n = Distancia(h, x)
    BY <2>2
  <2>4. Minimo(x)
    BY <2>2, <2>3
  <2>5. (CHOOSE f \in vistos : Minimo(f)) \in vistos
    BY <2>4
  <2>6. QED
    BY <1>1, <2>5 DEF buscarFrameProceso
<1>2. CASE vistos = {}
  BY <1>2 DEF buscarFrameProceso
<1>3. QED
  BY <1>1, <1>2

(* The search of every page starts at a frame.                             *)
LEMMA HashEsFrame ==
  ASSUME NEW pid \in Nat, NEW pagina \in Nat
  PROVE  calcularPosicion(pid, pagina) \in Frames
<1>1. Desplazamiento(pagina) \in Nat
  BY DEF Desplazamiento
<1>2. pid * Desplazamiento(pagina) + pagina \in Nat
  BY <1>1
<1>3. QED
  BY <1>2, MarcosAssumption DEF calcularPosicion, Frames

(* With a candidate outside frame 0, a search never answers that there is  *)
(* none: either it finds one, or it starts at the last frame.              *)
LEMMA NoDiceQueNoHay ==
  ASSUME NEW h \in Frames, NEW cs \in SUBSET (Frames \ {0}), cs # {}
  PROVE  buscarFrameProceso(h, cs) \in cs \cup {FUERA}
<1>1. CASE h = MARCOS - 1 /\ cs \cap Visitados(h) = {}
  BY <1>1 DEF buscarFrameProceso
<1>2. CASE h # MARCOS - 1
  <2>1. cs \cap Visitados(h) = cs
    BY <1>2 DEF Visitados
  <2>2. QED
    BY <2>1, BusquedaAcierta
<1>3. CASE cs \cap Visitados(h) # {}
  BY <1>3, BusquedaAcierta
<1>4. QED
  BY <1>1, <1>2, <1>3

-----------------------------------------------------------------------------
(* Facts every proof below uses.                                           *)
LEMMA FramesFinito ==
  /\ IsFiniteSet(Frames)
  /\ IsFiniteSet(FramesLibres)
  /\ \A pid : IsFiniteSet(FramesDe(pid))
  /\ IsFiniteSet(FramesLibres')
  /\ \A pid : IsFiniteSet(FramesDe(pid)')
<1>1. IsFiniteSet(Frames)
  BY MarcosAssumption, FS_Interval DEF Frames
<1>2. FramesLibres \in SUBSET Frames /\ FramesLibres' \in SUBSET Frames
  BY DEF FramesLibres
<1>3. \A pid : FramesDe(pid) \in SUBSET Frames /\ FramesDe(pid)' \in SUBSET Frames
  BY DEF FramesDe
<1>4. QED
  BY <1>1, <1>2, <1>3, FS_Subset

(* No free frame belongs to the table; in particular frame 0 is not free.  *)
LEMMA LibresSonDeDatos ==
  ASSUME TablaProtegida
  PROVE  /\ \A f \in FramesLibres : f >= calcularTamanioDeTabla
         /\ FramesLibres \in SUBSET (Frames \ {0})
<1>1. ASSUME NEW f \in FramesLibres
      PROVE  f >= calcularTamanioDeTabla /\ f \in Frames \ {0}
  <2>1. f \in Frames /\ entradasDeTabla[f].pagina = -1
    BY DEF FramesLibres
  <2>2. f \in Int /\ f >= 0 /\ calcularTamanioDeTabla \in Int
        /\ calcularTamanioDeTabla >= 1
    BY <2>1, TablaAssumption, MarcosAssumption DEF Frames
  <2>3. CASE f < calcularTamanioDeTabla
    <3>0. entradasDeTabla[f] = [pid |-> -1, pagina |-> f]
      BY <2>1, <2>3 DEF TablaProtegida
    <3>1. entradasDeTabla[f].pagina = f
      BY <3>0
    <3>2. QED
      BY <2>1, <2>2, <3>1
  <2>4. QED
    BY <2>1, <2>2, <2>3
<1>2. QED
  BY <1>1

(* The frames of a reservation are free and all different.                 *)
LEMMA ReservaDeLibres ==
  ASSUME NEW pid \in Pids, NEW k \in Nat, NEW primera \in Nat,
         NEW tomados \in [0 .. (k - 1) -> Frames],
         EsReserva(tomados, pid, primera)
  PROVE  \A i \in 0 .. (k - 1) :
           /\ tomados[i] \in FramesLibres
           /\ \A j \in 0 .. (i - 1) : tomados[i] # tomados[j]
<1> SUFFICES ASSUME NEW i \in 0 .. (k - 1)
             PROVE  tomados[i] \in FramesLibres \ Tomados(tomados, i)
  BY DEF Tomados
<1> DEFINE cs == FramesLibres \ Tomados(tomados, i)
           h  == calcularPosicion(pid, primera + i)
<1>1. tomados[i] = buscarFrameProceso(h, cs)
  BY DEF EsReserva, FrameParaPagina
<1>2. h \in Frames
  BY HashEsFrame, PidsAssumption
<1>3. cs \in SUBSET Frames
  BY DEF FramesLibres
<1>4. tomados[i] \in Frames
  OBVIOUS
<1>5. tomados[i] \notin {NO_ENCONTRADO, CUELGA, FUERA}
  BY <1>4 DEF Frames, NO_ENCONTRADO, CUELGA, FUERA
<1> HIDE DEF cs, h
<1>6. tomados[i] \in cs
  BY <1>1, <1>2, <1>3, <1>5, BusquedaAcierta
<1>7. QED
  BY <1>6 DEF cs

(* The tomados of a reservation fill as many frames as there are pages.    *)
LEMMA TomadosCuenta ==
  ASSUME NEW k \in Nat, NEW tomados \in [0 .. (k - 1) -> Frames],
         \A i \in 0 .. (k - 1) : \A j \in 0 .. (i - 1) : tomados[i] # tomados[j]
  PROVE  /\ IsFiniteSet(Tomados(tomados, k))
         /\ Cardinality(Tomados(tomados, k)) = k
         /\ Cardinality(DOMAIN tomados) = k
<1> DEFINE I == 0 .. (k - 1)
           P == Tomados(tomados, k)
<1>1. IsFiniteSet(I) /\ Cardinality(I) = k
  BY FS_Interval
<1>2. \A i, j \in I : tomados[i] = tomados[j] => i = j
  <2> SUFFICES ASSUME NEW i \in I, NEW j \in I, tomados[i] = tomados[j], j < i
               PROVE  FALSE
    OBVIOUS
  <2>1. j \in 0 .. (i - 1)
    OBVIOUS
  <2>2. QED
    BY <2>1
<1>3. tomados \in [I -> P]
  BY DEF Tomados
<1>4. tomados \in Surjection(I, P)
  BY <1>3 DEF Surjection, Tomados
<1>5. tomados \in Injection(I, P)
  BY <1>2, <1>3 DEF Injection, IsInjective
<1> HIDE DEF I, P
<1>6. IsFiniteSet(P) /\ Cardinality(P) = Cardinality(I)
  BY <1>1, <1>4, <1>5, FS_Surjection
<1>7. DOMAIN tomados = I
  BY DEF I
<1>8. QED
  BY <1>1, <1>6, <1>7 DEF P

-----------------------------------------------------------------------------
(* What a reservation does to the sets of free and of owned frames.        *)
LEMMA OcuparFrames ==
  ASSUME IInv, NEW pid \in Pids, NEW k \in Nat, NEW primera \in Nat,
         NEW tomados \in [0 .. (k - 1) -> Frames],
         EsReserva(tomados, pid, primera),
         entradasDeTabla' = TablaOcupada(tomados, pid, primera)
  PROVE  /\ Tomados(tomados, k) \subseteq FramesLibres
         /\ IsFiniteSet(Tomados(tomados, k)) /\ Cardinality(Tomados(tomados, k)) = k
         /\ Cardinality(DOMAIN tomados) = k
         /\ \A f \in Frames \ Tomados(tomados, k) :
              entradasDeTabla'[f] = entradasDeTabla[f]
         /\ \A f \in Tomados(tomados, k) :
              /\ entradasDeTabla'[f].pid = pid
              /\ entradasDeTabla'[f].pagina \in primera .. (primera + k - 1)
         /\ entradasDeTabla' \in [Frames -> [pid : Pids \cup {-1}, pagina : Nat \cup {-1}]]
<1> DEFINE P == Tomados(tomados, k)
<1>1. P \subseteq FramesLibres
  BY ReservaDeLibres DEF Tomados
<1>2. \A i \in 0 .. (k - 1) : \A j \in 0 .. (i - 1) : tomados[i] # tomados[j]
  BY ReservaDeLibres
<1>3. IsFiniteSet(P) /\ Cardinality(P) = k /\ Cardinality(DOMAIN tomados) = k
  BY <1>2, TomadosCuenta
<1> USE DEF Tomados
<1> DEFINE Indice(f) == CHOOSE i \in DOMAIN tomados : tomados[i] = f
<1>4. \A f \in P : Indice(f) \in 0 .. (k - 1)
  OBVIOUS
<1>5. entradasDeTabla' =
        [f \in Frames |-> IF \E i \in DOMAIN tomados : tomados[i] = f
                          THEN [pid |-> pid, pagina |-> primera + Indice(f)]
                          ELSE entradasDeTabla[f]]
  BY DEF TablaOcupada
<1>6. \A f \in Frames : f \in P <=> \E i \in DOMAIN tomados : tomados[i] = f
  OBVIOUS
<1> HIDE DEF Indice
<1>7. \A f \in Frames \ P : entradasDeTabla'[f] = entradasDeTabla[f]
  BY <1>5, <1>6
<1>8. P \subseteq Frames
  BY <1>1 DEF FramesLibres
<1>9. \A f \in P : entradasDeTabla'[f] = [pid |-> pid, pagina |-> primera + Indice(f)]
  BY <1>5, <1>6, <1>8
<1>10. \A f \in P : /\ entradasDeTabla'[f].pid = pid
                    /\ entradasDeTabla'[f].pagina \in primera .. (primera + k - 1)
  <2> SUFFICES ASSUME NEW f \in P
               PROVE  /\ entradasDeTabla'[f].pid = pid
                      /\ entradasDeTabla'[f].pagina \in primera .. (primera + k - 1)
    OBVIOUS
  <2>1. entradasDeTabla'[f] = [pid |-> pid, pagina |-> primera + Indice(f)]
    BY <1>9
  <2>2. entradasDeTabla'[f].pid = pid /\ entradasDeTabla'[f].pagina = primera + Indice(f)
    BY <2>1
  <2>3. primera + Indice(f) \in primera .. (primera + k - 1)
    BY <1>4
  <2>4. QED
    BY <2>2, <2>3
<1>11. entradasDeTabla' \in [Frames -> [pid : Pids \cup {-1}, pagina : Nat \cup {-1}]]
  <2> DEFINE E == [pid : Pids \cup {-1}, pagina : Nat \cup {-1}]
  <2>1. \A f \in Frames : entradasDeTabla[f] \in E
    BY DEF IInv, TypeOK
  <2>2. \A f \in P : entradasDeTabla'[f] \in E
    <3> SUFFICES ASSUME NEW f \in P
                 PROVE  entradasDeTabla'[f] \in E
      OBVIOUS
    <3>1. entradasDeTabla'[f] = [pid |-> pid, pagina |-> primera + Indice(f)]
      BY <1>9
    <3>2. primera + Indice(f) \in Nat
      BY <1>4
    <3>3. QED
      BY <3>1, <3>2
  <2>3. \A f \in Frames : entradasDeTabla'[f] \in E
    BY <1>7, <2>1, <2>2
  <2>4. entradasDeTabla' = [f \in Frames |-> entradasDeTabla'[f]]
    BY <1>5
  <2> HIDE DEF E
  <2>5. QED
    BY <2>3, <2>4 DEF E
<1>12. QED
  BY <1>1, <1>3, <1>7, <1>10, <1>11

(* Frames free and owned after a reservation of k pages.                   *)
LEMMA OcuparConjuntos ==
  ASSUME IInv, NEW pid \in Pids, NEW k \in Nat, NEW primera \in Nat,
         NEW tomados \in [0 .. (k - 1) -> Frames],
         EsReserva(tomados, pid, primera),
         entradasDeTabla' = TablaOcupada(tomados, pid, primera)
  PROVE  /\ Cardinality(FramesLibres') = Cardinality(FramesLibres) - k
         /\ Cardinality(FramesDe(pid)') = Cardinality(FramesDe(pid)) + k
         /\ \A q \in Pids \ {pid} : FramesDe(q)' = FramesDe(q)
<1>0. /\ Tomados(tomados, k) \subseteq FramesLibres
      /\ IsFiniteSet(Tomados(tomados, k)) /\ Cardinality(Tomados(tomados, k)) = k
      /\ Cardinality(DOMAIN tomados) = k
      /\ \A f \in Frames \ Tomados(tomados, k) :
           entradasDeTabla'[f] = entradasDeTabla[f]
      /\ \A f \in Tomados(tomados, k) :
           /\ entradasDeTabla'[f].pid = pid
           /\ entradasDeTabla'[f].pagina \in primera .. (primera + k - 1)
      /\ entradasDeTabla' \in [Frames -> [pid : Pids \cup {-1}, pagina : Nat \cup {-1}]]
  BY OcuparFrames, ZenonT(30)
<1> DEFINE P == Tomados(tomados, k)
<1>1. /\ P \subseteq FramesLibres
      /\ IsFiniteSet(P) /\ Cardinality(P) = k
      /\ \A f \in Frames \ P : entradasDeTabla'[f] = entradasDeTabla[f]
      /\ \A f \in P : /\ entradasDeTabla'[f].pid = pid
                     /\ entradasDeTabla'[f].pagina \in primera .. (primera + k - 1)
  BY <1>0
<1> HIDE DEF P
<1>2. P \subseteq Frames
  BY <1>1 DEF FramesLibres
<1>3. \A f \in P : entradasDeTabla'[f].pid = pid /\ entradasDeTabla'[f].pagina # -1
  BY <1>1
<1>4. FramesLibres' = FramesLibres \ P
  BY <1>1, <1>2, <1>3 DEF FramesLibres
<1>5. \A f \in P : entradasDeTabla[f].pid = -1
  <2> SUFFICES ASSUME NEW f \in P
               PROVE  entradasDeTabla[f].pid = -1
    OBVIOUS
  <2>1. f \in FramesLibres /\ f \in Frames
    BY <1>1, <1>2
  <2>2. f >= calcularTamanioDeTabla
    BY <2>1, LibresSonDeDatos DEF IInv
  <2>3. QED
    BY <2>1, <2>2 DEF IInv, PidYPaginaJuntos, FramesLibres
<1>6. -1 \notin Pids
  BY PidsAssumption
<1>7. \A q \in Pids \ {pid} : FramesDe(q)' = FramesDe(q)
  BY <1>1, <1>2, <1>3, <1>5, <1>6 DEF FramesDe
<1>8. FramesDe(pid)' = FramesDe(pid) \cup P
  BY <1>1, <1>2, <1>3 DEF FramesDe
<1>9. FramesDe(pid) \cap P = {}
  BY <1>5, <1>6 DEF FramesDe
<1>10. Cardinality(FramesLibres') = Cardinality(FramesLibres) - k
  <2>1. FramesLibres \cap P = P
    BY <1>1
  <2>2. QED
    BY <1>1, <1>4, <2>1, FramesFinito, FS_Difference
<1>11. Cardinality(FramesDe(pid)') = Cardinality(FramesDe(pid)) + k
  <2>1. Cardinality(FramesDe(pid) \cup P)
          = Cardinality(FramesDe(pid)) + Cardinality(P) - Cardinality({})
    BY <1>1, <1>9, FramesFinito, FS_Union
  <2>2. Cardinality(FramesDe(pid)) \in Nat
    BY FramesFinito, FS_CardinalityType
  <2>3. QED
    BY <1>1, <1>8, <2>1, <2>2, FS_EmptySet
<1>12. QED
  BY <1>7, <1>10, <1>11

-----------------------------------------------------------------------------
(* The counters of a process that may reserve: what they number and count. *)
LEMMA CuentaDeReserva ==
  ASSUME IInv, NEW pid \in Pids,
         EnLista(pid) \/ ~paginasPorProcesos[pid].usado
  PROVE  /\ paginasPorProcesos[pid].asignadas = Cardinality(FramesDe(pid))
         /\ paginasPorProcesos[pid].asignadas \in Nat
         /\ paginasPorProcesos[pid].pedidas \in Nat
         /\ paginasPorProcesos[pid].asignadas <= paginasPorProcesos[pid].pedidas
         /\ FramesDe(pid) # {} => paginasPorProcesos[pid].enLista
<1>1. Cardinality(FramesDe(pid)) \in Nat
  BY FramesFinito, FS_CardinalityType
<1>2. paginasPorProcesos[pid].pedidas \in Nat
  BY DEF IInv, TypeOK
<1>3. CASE EnLista(pid)
  BY <1>1, <1>2, <1>3 DEF IInv, EnLista, AsignadasCuentaFrames, AsignadasHastaPedidas
<1>4. CASE ~paginasPorProcesos[pid].usado
  <2>1. paginasPorProcesos[pid] = SinEntrada /\ FramesDe(pid) = {}
    BY <1>4 DEF IInv, NuevoSinFrames
  <2>2. Cardinality(FramesDe(pid)) = 0
    BY <2>1, FS_EmptySet
  <2>3. QED
    BY <2>1, <2>2 DEF SinEntrada
<1>5. QED
  BY <1>3, <1>4

(* The whole invariant but the lock, after a reservation of k pages.       *)
LEMMA OcuparPreserva ==
  ASSUME IInv, NEW pid \in Pids, NEW k \in Nat,
         EnLista(pid) \/ ~paginasPorProcesos[pid].usado,
         NEW tomados \in [0 .. (k - 1) -> Frames],
         EsReserva(tomados, pid, paginasPorProcesos[pid].asignadas),
         Ocupar(tomados, pid, paginasPorProcesos[pid].asignadas),
         mutexTablaInvertida' \in {"libre", "tomado"},
         servidor' \in Servidores,
         respuesta' \in Respuestas
  PROVE  /\ TypeOK' /\ TablaProtegida' /\ PidYPaginaJuntos' /\ LibresAcotado'
         /\ PaginasPedidas' /\ AsignadasCuentaFrames' /\ NuevoSinFrames'
         /\ AsignadasHastaPedidas'
<1> DEFINE a == paginasPorProcesos[pid].asignadas
           d == paginasPorProcesos[pid].pedidas
           P == Tomados(tomados, k)
<1> HIDE DEF a, d
<1>1. /\ a = Cardinality(FramesDe(pid)) /\ a \in Nat /\ d \in Nat /\ a <= d
      /\ FramesDe(pid) # {} => paginasPorProcesos[pid].enLista
  BY CuentaDeReserva DEF a, d
<1>2. /\ EsReserva(tomados, pid, a)
      /\ Ocupar(tomados, pid, a)
      /\ entradasDeTabla' = TablaOcupada(tomados, pid, a)
  BY DEF a, Ocupar
<1>3. /\ P \subseteq FramesLibres
      /\ Cardinality(DOMAIN tomados) = k
      /\ \A f \in Frames \ P : entradasDeTabla'[f] = entradasDeTabla[f]
      /\ \A f \in P : /\ entradasDeTabla'[f].pid = pid
                     /\ entradasDeTabla'[f].pagina \in a .. (a + k - 1)
      /\ entradasDeTabla' \in [Frames -> [pid : Pids \cup {-1}, pagina : Nat \cup {-1}]]
  BY <1>1, <1>2, OcuparFrames
<1> HIDE DEF P
<1>4. /\ Cardinality(FramesLibres') = Cardinality(FramesLibres) - k
      /\ Cardinality(FramesDe(pid)') = Cardinality(FramesDe(pid)) + k
      /\ \A q \in Pids \ {pid} : FramesDe(q)' = FramesDe(q)
  BY <1>1, <1>2, OcuparConjuntos
<1> DEFINE nuevo == [enLista |-> TRUE, usado |-> TRUE, pedidas |-> d + k, asignadas |-> a + k]
<1>5. paginasPorProcesos' = [paginasPorProcesos EXCEPT ![pid] = nuevo]
  BY <1>2, <1>3 DEF Ocupar, a, d
<1>6. cantidadPaginasLibres' = cantidadPaginasLibres - k
  BY <1>2, <1>3 DEF Ocupar
<1>7. paginasPorProcesos \in
        [Pids -> [enLista : BOOLEAN, usado : BOOLEAN, pedidas : Nat, asignadas : Int]]
  BY DEF IInv, TypeOK
<1>8. /\ paginasPorProcesos'[pid] = nuevo
      /\ \A q \in Pids \ {pid} : paginasPorProcesos'[q] = paginasPorProcesos[q]
  BY <1>5, <1>7
<1>9. \A f \in P : f \in Frames /\ f >= calcularTamanioDeTabla
  BY <1>3, LibresSonDeDatos DEF IInv, FramesLibres
<1>10. -1 \notin Pids
  BY PidsAssumption
<1>11. \A f \in P : /\ entradasDeTabla'[f].pid = pid
                    /\ entradasDeTabla'[f].pagina # -1
                    /\ entradasDeTabla'[f].pagina < a + k
  BY <1>1, <1>3
<1>12. TypeOK'
  <2>1. nuevo \in [enLista : BOOLEAN, usado : BOOLEAN, pedidas : Nat, asignadas : Int]
    BY <1>1
  <2> HIDE DEF nuevo
  <2>2. paginasPorProcesos' \in
        [Pids -> [enLista : BOOLEAN, usado : BOOLEAN, pedidas : Nat, asignadas : Int]]
    BY <1>5, <1>7, <2>1
  <2>3. cantidadPaginasLibres' \in Int
    BY <1>6 DEF IInv, TypeOK
  <2>4. QED
    BY <1>3, <2>2, <2>3 DEF TypeOK
<1>13. TablaProtegida'
  <2> SUFFICES ASSUME NEW f \in Frames, f < calcularTamanioDeTabla
               PROVE  entradasDeTabla'[f] = [pid |-> -1, pagina |-> f]
    BY DEF TablaProtegida
  <2>1. f \notin P
    BY <1>9, TablaAssumption DEF Frames
  <2>2. QED
    BY <1>3, <2>1 DEF IInv, TablaProtegida
<1>14. PidYPaginaJuntos'
  <2> SUFFICES ASSUME NEW f \in Frames, f >= calcularTamanioDeTabla
               PROVE  entradasDeTabla'[f].pid = -1 <=> entradasDeTabla'[f].pagina = -1
    BY DEF PidYPaginaJuntos
  <2>1. CASE f \in P
    BY <1>10, <1>11, <2>1
  <2>2. CASE f \notin P
    BY <1>3, <2>2 DEF IInv, PidYPaginaJuntos
  <2>3. QED
    BY <2>1, <2>2
<1>15. LibresAcotado'
  <2>1. Cardinality(FramesLibres) \in Nat
    BY FramesFinito, FS_CardinalityType
  <2>2. QED
    BY <1>4, <1>6, <2>1 DEF IInv, LibresAcotado, TypeOK
<1>16. PaginasPedidas'
  <2> SUFFICES ASSUME NEW f \in Frames, NEW q \in Pids,
                      entradasDeTabla'[f].pid = q, paginasPorProcesos'[q].enLista
               PROVE  entradasDeTabla'[f].pagina < paginasPorProcesos'[q].pedidas
    BY DEF PaginasPedidas
  <2>1. CASE f \in P
    <3>1. q = pid /\ entradasDeTabla'[f].pagina < a + k
      BY <1>11, <2>1
    <3>2. entradasDeTabla'[f].pagina \in Int
      BY <1>3
    <3>3. QED
      BY <1>1, <1>8, <3>1, <3>2
  <2>2. CASE f \notin P
    <3>1. entradasDeTabla'[f] = entradasDeTabla[f] /\ f \in FramesDe(q)
      BY <1>3, <2>2 DEF FramesDe
    <3>2. paginasPorProcesos[q].enLista
      BY <1>1, <1>8, <3>1
    <3>3. entradasDeTabla[f].pagina < paginasPorProcesos[q].pedidas
      BY <3>1, <3>2 DEF IInv, PaginasPedidas
    <3>4. entradasDeTabla'[f].pagina \in Int
      BY <1>3
    <3>5. QED
      BY <1>1, <1>8, <3>1, <3>3, <3>4 DEF d
  <2>3. QED
    BY <2>1, <2>2
<1>17. AsignadasCuentaFrames'
  <2> SUFFICES ASSUME NEW q \in Pids, paginasPorProcesos'[q].enLista
               PROVE  paginasPorProcesos'[q].asignadas = Cardinality(FramesDe(q)')
    BY DEF AsignadasCuentaFrames
  <2>1. CASE q = pid
    BY <1>1, <1>4, <1>8, <2>1
  <2>2. CASE q # pid
    BY <1>4, <1>8, <2>2 DEF IInv, AsignadasCuentaFrames
  <2>3. QED
    BY <2>1, <2>2
<1>18. NuevoSinFrames'
  <2> SUFFICES ASSUME NEW q \in Pids, ~paginasPorProcesos'[q].usado
               PROVE  paginasPorProcesos'[q] = SinEntrada /\ FramesDe(q)' = {}
    BY DEF NuevoSinFrames
  <2>1. q # pid
    BY <1>8
  <2>2. QED
    BY <1>4, <1>8, <2>1 DEF IInv, NuevoSinFrames
<1>19. AsignadasHastaPedidas'
  <2> SUFFICES ASSUME NEW q \in Pids, paginasPorProcesos'[q].enLista
               PROVE  paginasPorProcesos'[q].asignadas <= paginasPorProcesos'[q].pedidas
    BY DEF AsignadasHastaPedidas
  <2>1. CASE q = pid
    BY <1>1, <1>8, <2>1
  <2>2. CASE q # pid
    BY <1>8, <2>2 DEF IInv, AsignadasHastaPedidas
  <2>3. QED
    BY <2>1, <2>2
<1>20. QED
  BY <1>12, <1>13, <1>14, <1>15, <1>16, <1>17, <1>18, <1>19

-----------------------------------------------------------------------------
(* The check before the lock leaves more free frames than the reservation  *)
(* asks for; so a search that fails is one that starts at the last frame,  *)
(* and the thread does not come back to forget the lock.                   *)
LEMMA ReservaNoOlvida ==
  ASSUME IInv, NEW pid \in Pids, NEW n \in Nat, NEW k \in 0 .. (n - 1),
         NEW primera \in Nat, HayLugarPara(n),
         NEW tomados \in [0 .. (k - 1) -> Frames],
         EsReserva(tomados, pid, primera),
         FrameParaPagina(tomados, pid, primera, k) \notin Frames
  PROVE  FrameParaPagina(tomados, pid, primera, k) = FUERA
<1> DEFINE P  == Tomados(tomados, k)
           cs == FramesLibres \ P
           h  == calcularPosicion(pid, primera + k)
<1>1. IsFiniteSet(P) /\ Cardinality(P) = k
  <2>1. \A i \in 0 .. (k - 1) : \A j \in 0 .. (i - 1) : tomados[i] # tomados[j]
    BY ReservaDeLibres
  <2>2. QED
    BY <2>1, TomadosCuenta
<1>2. h \in Frames
  BY HashEsFrame, PidsAssumption
<1>3. cs \in SUBSET (Frames \ {0})
  BY LibresSonDeDatos DEF IInv
<1>4. cs # {}
  <2> HIDE DEF P
  <2>1. /\ Cardinality(cs) = Cardinality(FramesLibres) - Cardinality(FramesLibres \cap P)
        /\ IsFiniteSet(cs)
    BY FramesFinito, FS_Difference
  <2>2. Cardinality(FramesLibres \cap P) <= k /\ IsFiniteSet(FramesLibres \cap P)
    BY <1>1, FS_Intersection
  <2>3. n < cantidadPaginasLibres /\ cantidadPaginasLibres <= Cardinality(FramesLibres)
    BY DEF HayLugarPara, IInv, LibresAcotado
  <2>4. /\ Cardinality(FramesLibres) \in Nat
        /\ Cardinality(FramesLibres \cap P) \in Nat
        /\ cantidadPaginasLibres \in Int
    BY <2>2, FramesFinito, FS_CardinalityType DEF IInv, TypeOK
  <2>5. Cardinality(cs) > 0
    BY <2>1, <2>2, <2>3, <2>4
  <2>6. QED
    <3> HIDE DEF cs
    <3>1. cs = {} => Cardinality(cs) = 0
      BY FS_EmptySet
    <3>2. QED
      BY <2>5, <3>1
<1> HIDE DEF P, cs, h
<1>5. buscarFrameProceso(h, cs) \in cs \cup {FUERA}
  BY <1>2, <1>3, <1>4, NoDiceQueNoHay
<1>6. FrameParaPagina(tomados, pid, primera, k) = buscarFrameProceso(h, cs)
  BY DEF FrameParaPagina, h, cs, P
<1>7. QED
  BY <1>3, <1>5, <1>6

(* A reservation of pages for a process, whole or refused, keeps IInv.     *)
LEMMA ReservaPreserva ==
  ASSUME IInv, NEW pid \in Pids, NEW n \in Pedidos,
         servidor = "atendiendo",
         EnLista(pid) \/ ~paginasPorProcesos[pid].usado,
         reservarPaginasParaProceso(pid, n)
  PROVE  IInv'
<1> DEFINE a == paginasPorProcesos[pid].asignadas
<1>1. n \in Nat /\ a \in Nat
  BY CuentaDeReserva, PedidosAssumption
<1>2. CASE ReservaCompleta(pid, n, a)
  <2>1. PICK tomados \in [0 .. (n - 1) -> Frames] :
          /\ EsReserva(tomados, pid, a)
          /\ Ocupar(tomados, pid, a)
          /\ respuesta' = "OPERACION_EXITOSA_FINALIZADA"
          /\ UNCHANGED << mutexTablaInvertida, servidor >>
    BY <1>2 DEF ReservaCompleta
  <2>2. /\ mutexTablaInvertida' \in {"libre", "tomado"}
        /\ servidor' \in Servidores
    BY <2>1 DEF IInv, TypeOK
  <2>3. MutexSuelto'
    BY <2>1 DEF IInv, MutexSuelto
  <2>4. QED
    BY <1>1, <2>1, <2>2, <2>3, OcuparPreserva DEF IInv
<1>3. CASE ReservaCortada(pid, n, a)
  <2> DEFINE
         fallo(k, tomados) == FrameParaPagina(tomados, pid, a, k)
         Cortada(k, tomados) ==
           /\ EsReserva(tomados, pid, a)
           /\ fallo(k, tomados) \notin Frames
           /\ Ocupar(tomados, pid, a)
           /\ mutexTablaInvertida' = "tomado"
           /\ servidor' = ServidorTras(fallo(k, tomados))
           /\ respuesta' = IF NoVuelve(fallo(k, tomados)) THEN respuesta
                                                          ELSE "OPERACION_FALLIDA"
  <2>0. PICK k \in 0 .. (n - 1) :
          \E tomados \in [0 .. (k - 1) -> Frames] : Cortada(k, tomados)
    BY <1>3 DEF ReservaCortada
  <2>1. PICK tomados \in [0 .. (k - 1) -> Frames] : Cortada(k, tomados)
    BY <2>0
  <2>2. HayLugarPara(n)
    BY DEF reservarPaginasParaProceso
  <2>3. fallo(k, tomados) = FUERA
    BY <1>1, <2>1, <2>2, ReservaNoOlvida
  <2> HIDE DEF fallo
  <2>4. servidor' = "fueraDeTabla" /\ respuesta' = respuesta
    BY <2>1, <2>3 DEF ServidorTras, NoVuelve, FUERA, CUELGA
  <2>5. MutexSuelto'
    BY <2>4 DEF MutexSuelto
  <2>6. k \in Nat
    BY <1>1
  <2>7. /\ mutexTablaInvertida' \in {"libre", "tomado"}
        /\ servidor' \in Servidores
        /\ respuesta' \in Respuestas
    BY <2>1, <2>4 DEF IInv, TypeOK
  <2>8. QED
    BY <2>1, <2>5, <2>6, <2>7, OcuparPreserva DEF IInv
<1>4. QED
  BY <1>2, <1>3 DEF reservarPaginasParaProceso

-----------------------------------------------------------------------------
(* inicializarProceso keeps IInv, also when it finds no room.              *)
LEMMA InicializarPreserva ==
  ASSUME IInv, NEW pid \in Pids, NEW n \in Pedidos, inicializarProceso(pid, n)
  PROVE  IInv'
<1>1. servidor = "atendiendo" /\ ~paginasPorProcesos[pid].usado
  BY DEF inicializarProceso
<1>2. CASE reservarPaginasParaProceso(pid, n)
  BY <1>1, <1>2, ReservaPreserva
<1>3. CASE ~HayLugarPara(n)
           /\ paginasPorProcesos' =
                [paginasPorProcesos EXCEPT ![pid].enLista = TRUE, ![pid].usado = TRUE]
           /\ respuesta' = "OPERACION_FALLIDA"
           /\ UNCHANGED << entradasDeTabla, cantidadPaginasLibres,
                           mutexTablaInvertida, servidor >>
  <2>1. paginasPorProcesos[pid] = SinEntrada /\ FramesDe(pid) = {}
    BY <1>1 DEF IInv, NuevoSinFrames
  <2>2. /\ paginasPorProcesos'[pid] = [SinEntrada EXCEPT !.enLista = TRUE, !.usado = TRUE]
        /\ \A q \in Pids \ {pid} : paginasPorProcesos'[q] = paginasPorProcesos[q]
    BY <1>3, <2>1 DEF IInv, TypeOK
  <2>3. /\ paginasPorProcesos'[pid].enLista
        /\ paginasPorProcesos'[pid].usado
        /\ paginasPorProcesos'[pid].pedidas = 0
        /\ paginasPorProcesos'[pid].asignadas = 0
    BY <2>2 DEF SinEntrada
  <2>4. FramesLibres' = FramesLibres /\ \A q \in Pids : FramesDe(q)' = FramesDe(q)
    BY <1>3 DEF FramesLibres, FramesDe
  <2>5. TypeOK'
    BY <1>3 DEF IInv, TypeOK
  <2>6. TablaProtegida' /\ PidYPaginaJuntos' /\ LibresAcotado' /\ MutexSuelto'
    BY <1>3, <2>4 DEF IInv, TablaProtegida, PidYPaginaJuntos, LibresAcotado, MutexSuelto
  <2>7. PaginasPedidas'
    <3> SUFFICES ASSUME NEW f \in Frames, NEW q \in Pids,
                        entradasDeTabla'[f].pid = q, paginasPorProcesos'[q].enLista
                 PROVE  entradasDeTabla'[f].pagina < paginasPorProcesos'[q].pedidas
      BY DEF PaginasPedidas
    <3>1. f \in FramesDe(q)
      BY <1>3 DEF FramesDe
    <3>2. q # pid
      BY <2>1, <3>1
    <3>3. entradasDeTabla' = entradasDeTabla
      BY <1>3
    <3>4. paginasPorProcesos'[q] = paginasPorProcesos[q]
      BY <2>2, <3>2
    <3>5. QED
      BY <3>3, <3>4 DEF IInv, PaginasPedidas
  <2>8. AsignadasCuentaFrames'
    <3> SUFFICES ASSUME NEW q \in Pids, paginasPorProcesos'[q].enLista
                 PROVE  paginasPorProcesos'[q].asignadas = Cardinality(FramesDe(q)')
      BY DEF AsignadasCuentaFrames
    <3>1. CASE q = pid
      <4>1. FramesDe(q)' = {}
        BY <2>1, <2>4, <3>1
      <4>2. QED
        BY <2>3, <3>1, <4>1, FS_EmptySet
    <3>2. CASE q # pid
      <4>1. paginasPorProcesos'[q] = paginasPorProcesos[q]
        BY <2>2, <3>2
      <4>2. FramesDe(q)' = FramesDe(q)
        BY <2>4
      <4>3. QED
        BY <4>1, <4>2 DEF IInv, AsignadasCuentaFrames
    <3>3. QED
      BY <3>1, <3>2
  <2>9. NuevoSinFrames'
    BY <2>2, <2>3, <2>4 DEF IInv, NuevoSinFrames
  <2>10. AsignadasHastaPedidas'
    <3> SUFFICES ASSUME NEW q \in Pids, paginasPorProcesos'[q].enLista
                 PROVE  paginasPorProcesos'[q].asignadas <= paginasPorProcesos'[q].pedidas
      BY DEF AsignadasHastaPedidas
    <3>1. CASE q = pid
      BY <2>3, <3>1
    <3>2. CASE q # pid
      BY <2>2, <3>2 DEF IInv, AsignadasHastaPedidas
    <3>3. QED
      BY <3>1, <3>2
  <2>11. QED
    BY <2>5, <2>6, <2>7, <2>8, <2>9, <2>10 DEF IInv
<1>4. QED
  BY <1>2, <1>3 DEF inicializarProceso

(* A request that leaves the table as it was keeps IInv.                   *)
LEMMA SinCambioPreserva ==
  ASSUME IInv, UNCHANGED << entradasDeTabla, paginasPorProcesos, cantidadPaginasLibres,
                            mutexTablaInvertida >>,
         servidor' \in Servidores,
         servidor' = "atendiendo" => servidor = "atendiendo",
         respuesta' \in Respuestas
  PROVE  IInv'
<1>1. FramesLibres' = FramesLibres /\ \A q : FramesDe(q)' = FramesDe(q)
  BY DEF FramesLibres, FramesDe
<1>2. TypeOK'
  BY DEF IInv, TypeOK
<1>3. TablaProtegida' /\ PidYPaginaJuntos' /\ LibresAcotado' /\ MutexSuelto'
  BY <1>1 DEF IInv, TablaProtegida, PidYPaginaJuntos, LibresAcotado, MutexSuelto
<1>4. PaginasPedidas' /\ AsignadasCuentaFrames' /\ NuevoSinFrames' /\ AsignadasHastaPedidas'
  BY <1>1 DEF IInv, PaginasPedidas, AsignadasCuentaFrames, NuevoSinFrames,
              AsignadasHastaPedidas
<1>5. QED
  BY <1>2, <1>3, <1>4 DEF IInv

(* asignarPaginasAProceso keeps IInv.                                      *)
LEMMA AsignarPreserva ==
  ASSUME IInv, NEW pid \in Pids, NEW n \in Pedidos, asignarPaginasAProceso(pid, n)
  PROVE  IInv'
<1>1. servidor = "atendiendo"
  BY DEF asignarPaginasAProceso
<1>2. CASE EnLista(pid) /\ reservarPaginasParaProceso(pid, n)
  BY <1>1, <1>2, ReservaPreserva
<1>3. CASE ~(EnLista(pid) /\ reservarPaginasParaProceso(pid, n))
  <2>1. /\ respuesta' \in {respuesta, "OPERACION_FALLIDA"}
        /\ servidor' \in {servidor, "abortado"}
        /\ UNCHANGED << entradasDeTabla, paginasPorProcesos, cantidadPaginasLibres,
                        mutexTablaInvertida >>
    BY <1>3 DEF asignarPaginasAProceso
  <2>2. QED
    BY <1>1, <2>1, SinCambioPreserva DEF IInv, TypeOK
<1>4. QED
  BY <1>2, <1>3

-----------------------------------------------------------------------------
(* A frame that the search for a page answers with holds that page.        *)
LEMMA BuscaLoSuyo ==
  ASSUME NEW pid \in Pids, NEW pagina \in Nat, BuscarPagina(pid, pagina) \in Frames
  PROVE  entradasDeTabla[BuscarPagina(pid, pagina)] = [pid |-> pid, pagina |-> pagina]
<1> DEFINE h  == calcularPosicion(pid, pagina)
           cs == FramesDePagina(pid, pagina)
<1>1. h \in Frames
  BY HashEsFrame, PidsAssumption
<1>2. cs \in SUBSET Frames
  BY DEF FramesDePagina
<1> HIDE DEF h, cs
<1>3. BuscarPagina(pid, pagina) = buscarFrameProceso(h, cs)
  BY DEF BuscarPagina, h, cs
<1>4. BuscarPagina(pid, pagina) \notin {NO_ENCONTRADO, CUELGA, FUERA}
  BY DEF Frames, NO_ENCONTRADO, CUELGA, FUERA
<1>5. BuscarPagina(pid, pagina) \in cs
  BY <1>1, <1>2, <1>3, <1>4, BusquedaAcierta
<1>6. QED
  BY <1>5 DEF cs, FramesDePagina

(* Pages of a process given back: the frames F of pid become free and      *)
(* nothing else in the table changes.                                      *)
LEMMA SueltaPreserva ==
  ASSUME IInv, NEW pid \in Pids, NEW F \in SUBSET FramesDe(pid),
         entradasDeTabla' =
           [f \in Frames |-> IF f \in F THEN Libre ELSE entradasDeTabla[f]],
         cantidadPaginasLibres' = cantidadPaginasLibres
  PROVE  /\ entradasDeTabla' \in [Frames -> [pid : Pids \cup {-1}, pagina : Nat \cup {-1}]]
         /\ TablaProtegida' /\ PidYPaginaJuntos' /\ LibresAcotado'
         /\ FramesDe(pid)' = FramesDe(pid) \ F
         /\ \A q \in Pids \ {pid} : FramesDe(q)' = FramesDe(q)
         /\ \A f \in Frames : \A q \in Pids :
              entradasDeTabla'[f].pid = q => entradasDeTabla'[f] = entradasDeTabla[f]
<1>1. -1 \notin Pids
  BY PidsAssumption
<1>2. Libre \in [pid : Pids \cup {-1}, pagina : Nat \cup {-1}]
      /\ Libre.pid = -1 /\ Libre.pagina = -1
  BY DEF Libre
<1>3. F \subseteq Frames /\ \A f \in F : entradasDeTabla[f].pid = pid
  BY DEF FramesDe
<1>4. /\ \A f \in F : entradasDeTabla'[f] = Libre
      /\ \A f \in Frames \ F : entradasDeTabla'[f] = entradasDeTabla[f]
  BY <1>3
<1>5. entradasDeTabla' \in [Frames -> [pid : Pids \cup {-1}, pagina : Nat \cup {-1}]]
  <2> DEFINE E == [pid : Pids \cup {-1}, pagina : Nat \cup {-1}]
  <2>1. entradasDeTabla \in [Frames -> E]
    BY DEF IInv, TypeOK
  <2>2. Libre \in E
    BY <1>2
  <2> HIDE DEF E
  <2>3. entradasDeTabla' \in [Frames -> E]
    BY <2>1, <2>2
  <2>4. QED
    BY <2>3 DEF E
<1>6. TablaProtegida'
  <2> SUFFICES ASSUME NEW f \in Frames, f < calcularTamanioDeTabla
               PROVE  entradasDeTabla'[f] = [pid |-> -1, pagina |-> f]
    BY DEF TablaProtegida
  <2>1. entradasDeTabla[f] = [pid |-> -1, pagina |-> f]
    BY DEF IInv, TablaProtegida
  <2>2. f \notin F
    <3>1. entradasDeTabla[f].pid = -1
      BY <2>1
    <3>2. QED
      BY <1>1, <1>3, <3>1
  <2>3. QED
    BY <1>4, <2>1, <2>2
<1>7. PidYPaginaJuntos'
  BY <1>2, <1>4 DEF IInv, PidYPaginaJuntos
<1>8. LibresAcotado'
  <2>1. FramesLibres \in SUBSET FramesLibres'
    BY <1>2, <1>4 DEF FramesLibres
  <2>2. Cardinality(FramesLibres) <= Cardinality(FramesLibres')
    BY <2>1, FramesFinito, FS_Subset
  <2>3. Cardinality(FramesLibres) \in Nat /\ Cardinality(FramesLibres') \in Nat
    BY FramesFinito, FS_CardinalityType
  <2>4. QED
    BY <2>2, <2>3 DEF IInv, LibresAcotado, TypeOK
<1>9. FramesDe(pid)' = FramesDe(pid) \ F
  BY <1>1, <1>2, <1>3, <1>4 DEF FramesDe
<1>10. \A q \in Pids \ {pid} : FramesDe(q)' = FramesDe(q)
  BY <1>1, <1>2, <1>3, <1>4 DEF FramesDe
<1>11. \A f \in Frames : \A q \in Pids :
         entradasDeTabla'[f].pid = q => entradasDeTabla'[f] = entradasDeTabla[f]
  BY <1>1, <1>2, <1>4
<1>12. QED
  BY <1>5, <1>6, <1>7, <1>8, <1>9, <1>10, <1>11

(* What liberarPagina does when it frees a frame.                          *)
LEMMA LiberarEfecto ==
  ASSUME IInv, NEW pid \in Pids, NEW pagina \in PaginasDelHeap(pid),
         liberarPagina(pid, pagina), EnLista(pid),
         BuscarPagina(pid, pagina) \in Frames,
         puedeSerLiberada(BuscarPagina(pid, pagina))
  PROVE  /\ BuscarPagina(pid, pagina) \in FramesDe(pid)
         /\ entradasDeTabla' =
              [f \in Frames |-> IF f \in {BuscarPagina(pid, pagina)}
                                THEN Libre ELSE entradasDeTabla[f]]
         /\ paginasPorProcesos' =
              [paginasPorProcesos EXCEPT ![pid] = liberarPaginaDeProceso(@)]
         /\ respuesta' = "OPERACION_EXITOSA_FINALIZADA"
         /\ UNCHANGED << cantidadPaginasLibres, mutexTablaInvertida, servidor >>
<1> DEFINE g == BuscarPagina(pid, pagina)
<1>1. pagina \in Nat
  BY DEF PaginasDelHeap, IInv, TypeOK
<1>2. entradasDeTabla[g] = [pid |-> pid, pagina |-> pagina]
  BY <1>1, BuscaLoSuyo
<1>3. g \in FramesDe(pid)
  <2>1. entradasDeTabla[g].pid = pid
    BY <1>2
  <2>2. QED
    BY <2>1 DEF FramesDe
<1>4. /\ entradasDeTabla' = [entradasDeTabla EXCEPT ![g] = Liberada(entradasDeTabla[g])]
      /\ paginasPorProcesos' =
           [paginasPorProcesos EXCEPT ![pid] = liberarPaginaDeProceso(paginasPorProcesos[pid])]
      /\ respuesta' = "OPERACION_EXITOSA_FINALIZADA"
      /\ UNCHANGED << cantidadPaginasLibres, mutexTablaInvertida, servidor >>
  BY DEF liberarPagina
<1>5. entradasDeTabla \in [Frames -> [pid : Pids \cup {-1}, pagina : Nat \cup {-1}]]
  BY DEF IInv, TypeOK
<1>6. Liberada(entradasDeTabla[g]) = Libre
  BY DEF Liberada
<1>7. entradasDeTabla' =
        [f \in Frames |-> IF f \in {g} THEN Libre ELSE entradasDeTabla[f]]
  BY <1>4, <1>5, <1>6
<1>8. QED
  BY <1>3, <1>4, <1>7

(* liberarPagina keeps IInv: the frame it frees was of that process.       *)
LEMMA LiberarPreserva ==
  ASSUME IInv, NEW pid \in Pids, NEW pagina \in PaginasDelHeap(pid),
         liberarPagina(pid, pagina)
  PROVE  IInv'
<1> DEFINE g == BuscarPagina(pid, pagina)
<1>1. CASE g \in Frames /\ puedeSerLiberada(g) /\ EnLista(pid)
  <2> DEFINE c == paginasPorProcesos[pid]
  <2>1. /\ g \in FramesDe(pid)
        /\ entradasDeTabla' =
             [f \in Frames |-> IF f \in {g} THEN Libre ELSE entradasDeTabla[f]]
        /\ paginasPorProcesos' =
             [paginasPorProcesos EXCEPT ![pid] = liberarPaginaDeProceso(c)]
        /\ respuesta' = "OPERACION_EXITOSA_FINALIZADA"
        /\ UNCHANGED << cantidadPaginasLibres, mutexTablaInvertida, servidor >>
    BY <1>1, LiberarEfecto
  <2> HIDE DEF g
  <2>2. {g} \in SUBSET FramesDe(pid)
    BY <2>1
  <2>3. /\ entradasDeTabla' \in [Frames -> [pid : Pids \cup {-1}, pagina : Nat \cup {-1}]]
        /\ TablaProtegida' /\ PidYPaginaJuntos' /\ LibresAcotado'
        /\ FramesDe(pid)' = FramesDe(pid) \ {g}
        /\ \A q \in Pids \ {pid} : FramesDe(q)' = FramesDe(q)
        /\ \A f \in Frames : \A q \in Pids :
             entradasDeTabla'[f].pid = q => entradasDeTabla'[f] = entradasDeTabla[f]
    BY <2>1, <2>2, SueltaPreserva
  <2>4. c \in [enLista : BOOLEAN, usado : BOOLEAN, pedidas : Nat, asignadas : Int]
    BY DEF IInv, TypeOK
  <2> DEFINE n == liberarPaginaDeProceso(c)
  <2>5. /\ n \in [enLista : BOOLEAN, usado : BOOLEAN, pedidas : Nat, asignadas : Int]
        /\ n.enLista = c.enLista /\ n.usado = c.usado /\ n.pedidas = c.pedidas
        /\ n.asignadas = c.asignadas - 1
    BY <2>4 DEF liberarPaginaDeProceso
  <2> HIDE DEF n
  <2>6. /\ paginasPorProcesos' \in
             [Pids -> [enLista : BOOLEAN, usado : BOOLEAN, pedidas : Nat, asignadas : Int]]
        /\ paginasPorProcesos'[pid] = n
        /\ \A q \in Pids \ {pid} : paginasPorProcesos'[q] = paginasPorProcesos[q]
    BY <2>1, <2>5 DEF n, IInv, TypeOK
  <2>7. TypeOK'
    BY <2>1, <2>3, <2>6 DEF IInv, TypeOK
  <2>8. MutexSuelto'
    BY <2>1 DEF IInv, MutexSuelto
  <2>9. PaginasPedidas'
    <3> SUFFICES ASSUME NEW f \in Frames, NEW q \in Pids,
                        entradasDeTabla'[f].pid = q, paginasPorProcesos'[q].enLista
                 PROVE  entradasDeTabla'[f].pagina < paginasPorProcesos'[q].pedidas
      BY DEF PaginasPedidas
    <3>1. entradasDeTabla'[f] = entradasDeTabla[f]
      BY <2>3
    <3>2. /\ paginasPorProcesos'[q].enLista = paginasPorProcesos[q].enLista
          /\ paginasPorProcesos'[q].pedidas = paginasPorProcesos[q].pedidas
      BY <2>5, <2>6
    <3>3. QED
      BY <3>1, <3>2 DEF IInv, PaginasPedidas
  <2>10. AsignadasCuentaFrames'
    <3> SUFFICES ASSUME NEW q \in Pids, paginasPorProcesos'[q].enLista
                 PROVE  paginasPorProcesos'[q].asignadas = Cardinality(FramesDe(q)')
      BY DEF AsignadasCuentaFrames
    <3>1. CASE q = pid
      <4>1. Cardinality(FramesDe(pid) \ {g}) = Cardinality(FramesDe(pid)) - 1
        BY <2>1, FramesFinito, FS_RemoveElement
      <4>2. c.asignadas = Cardinality(FramesDe(pid))
        BY <2>5, <2>6, <3>1 DEF IInv, AsignadasCuentaFrames
      <4>3. QED
        BY <2>3, <2>5, <2>6, <3>1, <4>1, <4>2
    <3>2. CASE q # pid
      BY <2>3, <2>6, <3>2 DEF IInv, AsignadasCuentaFrames
    <3>3. QED
      BY <3>1, <3>2
  <2>11. NuevoSinFrames'
    <3> SUFFICES ASSUME NEW q \in Pids, ~paginasPorProcesos'[q].usado
                 PROVE  paginasPorProcesos'[q] = SinEntrada /\ FramesDe(q)' = {}
      BY DEF NuevoSinFrames
    <3>1. q # pid
      BY <2>1, <2>5, <2>6 DEF IInv, NuevoSinFrames
    <3>2. QED
      BY <2>3, <2>6, <3>1 DEF IInv, NuevoSinFrames
  <2>12. AsignadasHastaPedidas'
    <3> SUFFICES ASSUME NEW q \in Pids, paginasPorProcesos'[q].enLista
                 PROVE  paginasPorProcesos'[q].asignadas <= paginasPorProcesos'[q].pedidas
      BY DEF AsignadasHastaPedidas
    <3>1. CASE q = pid
      <4>1. c.enLista => c.asignadas <= c.pedidas
        BY DEF IInv, AsignadasHastaPedidas
      <4>2. QED
        BY <2>4, <2>5, <2>6, <3>1, <4>1
    <3>2. CASE q # pid
      BY <2>6, <3>2 DEF IInv, AsignadasHastaPedidas
    <3>3. QED
      BY <3>1, <3>2
  <2>13. QED
    BY <2>3, <2>7, <2>8, <2>9, <2>10, <2>11, <2>12 DEF IInv
<1>2. CASE ~(g \in Frames /\ puedeSerLiberada(g) /\ EnLista(pid))
  <2>1. /\ servidor = "atendiendo"
        /\ servidor' \in {ServidorTras(g), "abortado"}
        /\ respuesta' \in {respuesta, "OPERACION_FALLIDA"}
        /\ UNCHANGED << entradasDeTabla, paginasPorProcesos >>
        /\ UNCHANGED << cantidadPaginasLibres, mutexTablaInvertida >>
    BY <1>2 DEF liberarPagina
  <2>2. servidor' \in Servidores
    BY <2>1 DEF ServidorTras
  <2>3. respuesta' \in Respuestas
    BY <2>1 DEF IInv, TypeOK
  <2>4. QED
    BY <2>1, <2>2, <2>3, SinCambioPreserva
<1>3. QED
  BY <1>1, <1>2

(* What finalizarProceso does to the table and to the rest, when the pid   *)
(* is listed.                                                              *)
LEMMA FinalizarEfecto ==
  ASSUME IInv, NEW pid \in Pids, finalizarProceso(pid), EnLista(pid)
  PROVE  /\ FramesBorrados(pid) \in SUBSET FramesDe(pid)
         /\ entradasDeTabla' =
              [f \in Frames |-> IF f \in FramesBorrados(pid)
                                THEN Libre ELSE entradasDeTabla[f]]
         /\ paginasPorProcesos' = [paginasPorProcesos EXCEPT ![pid].enLista = FALSE]
         /\ paginasPorProcesos[pid].enLista
         /\ paginasPorProcesos[pid].usado
<1>1. FramesBorrados(pid) \in SUBSET FramesDe(pid)
  <2> SUFFICES ASSUME NEW f \in FramesBorrados(pid)
               PROVE  f \in FramesDe(pid)
    OBVIOUS
  <2>1. PICK p \in PaginasBorradas(pid) : f = BuscarPagina(pid, p) /\ f \in Frames
    BY DEF FramesBorrados
  <2>2. p \in Nat
    BY DEF PaginasBorradas, PaginasBuscadas, IInv, TypeOK
  <2>3. entradasDeTabla[f] = [pid |-> pid, pagina |-> p]
    BY <2>1, <2>2, BuscaLoSuyo
  <2>4. entradasDeTabla[f].pid = pid
    BY <2>3
  <2>5. QED
    BY <2>1, <2>4 DEF FramesDe
<1>2. \A f \in Frames : Liberada(entradasDeTabla[f]) = Libre
  BY DEF Liberada
<1>3. entradasDeTabla' =
        [f \in Frames |-> IF f \in FramesBorrados(pid)
                          THEN Liberada(entradasDeTabla[f]) ELSE entradasDeTabla[f]]
  BY DEF finalizarProceso, borrarEntradasDeProceso, EnLista
<1>4. paginasPorProcesos' = [paginasPorProcesos EXCEPT ![pid].enLista = FALSE]
      /\ paginasPorProcesos[pid].enLista
  BY DEF finalizarProceso, borrarEntradasDeProceso, EnLista
<1>5. paginasPorProcesos[pid].usado
  <2>1. SinEntrada.enLista = FALSE
    BY DEF SinEntrada
  <2>2. QED
    BY <1>4, <2>1 DEF IInv, NuevoSinFrames
<1>6. QED
  BY <1>1, <1>2, <1>3, <1>4, <1>5

(* The end of a listed process keeps IInv, also when it leaves repeated    *)
(* pages behind.                                                           *)
LEMMA FinalizarListadoPreserva ==
  ASSUME IInv, NEW pid \in Pids, finalizarProceso(pid), EnLista(pid)
  PROVE  IInv'
<1> DEFINE F == FramesBorrados(pid)
<1>1. /\ F \in SUBSET FramesDe(pid)
      /\ entradasDeTabla' = [f \in Frames |-> IF f \in F THEN Libre ELSE entradasDeTabla[f]]
      /\ paginasPorProcesos' = [paginasPorProcesos EXCEPT ![pid].enLista = FALSE]
      /\ paginasPorProcesos[pid].usado
  BY FinalizarEfecto
<1>2. servidor = "atendiendo" /\ cantidadPaginasLibres' = cantidadPaginasLibres
  BY DEF finalizarProceso
<1> HIDE DEF F
<1>3. /\ entradasDeTabla' \in [Frames -> [pid : Pids \cup {-1}, pagina : Nat \cup {-1}]]
      /\ TablaProtegida' /\ PidYPaginaJuntos' /\ LibresAcotado'
      /\ \A q \in Pids \ {pid} : FramesDe(q)' = FramesDe(q)
      /\ \A f \in Frames : \A q \in Pids :
           entradasDeTabla'[f].pid = q => entradasDeTabla'[f] = entradasDeTabla[f]
  BY <1>1, <1>2, SueltaPreserva
<1>4. /\ mutexTablaInvertida' \in {"libre", "tomado"}
      /\ servidor' \in Servidores
      /\ respuesta' \in Respuestas
      /\ MutexSuelto'
  <2>1. CASE /\ respuesta' = "OPERACION_EXITOSA_FINALIZADA"
             /\ UNCHANGED << mutexTablaInvertida, servidor >>
    BY <2>1 DEF IInv, TypeOK, MutexSuelto
  <2>2. CASE ~(/\ respuesta' = "OPERACION_EXITOSA_FINALIZADA"
               /\ UNCHANGED << mutexTablaInvertida, servidor >>)
    <3>1. /\ mutexTablaInvertida' = "tomado"
          /\ \E p \in BusquedasSinFin(pid) : servidor' = ServidorTras(BuscarPagina(pid, p))
          /\ UNCHANGED respuesta
      BY <2>2 DEF finalizarProceso
    <3>2. PICK p \in BusquedasSinFin(pid) : servidor' = ServidorTras(BuscarPagina(pid, p))
      BY <3>1
    <3>3. BuscarPagina(pid, p) \in {CUELGA, FUERA}
      BY DEF BusquedasSinFin, NoVuelve
    <3>4. servidor' \in {"cuelga", "fueraDeTabla"}
      BY <3>2, <3>3 DEF ServidorTras, CUELGA, FUERA
    <3>5. QED
      BY <3>1, <3>4 DEF IInv, TypeOK, MutexSuelto
  <2>3. QED
    BY <2>1, <2>2
<1>5. /\ paginasPorProcesos' \in
           [Pids -> [enLista : BOOLEAN, usado : BOOLEAN, pedidas : Nat, asignadas : Int]]
      /\ paginasPorProcesos'[pid].enLista = FALSE
      /\ paginasPorProcesos'[pid].usado
      /\ \A q \in Pids \ {pid} : paginasPorProcesos'[q] = paginasPorProcesos[q]
  BY <1>1 DEF IInv, TypeOK
<1>6. TypeOK'
  BY <1>2, <1>3, <1>4, <1>5 DEF IInv, TypeOK
<1>7. PaginasPedidas'
  <2> SUFFICES ASSUME NEW f \in Frames, NEW q \in Pids,
                      entradasDeTabla'[f].pid = q, paginasPorProcesos'[q].enLista
               PROVE  entradasDeTabla'[f].pagina < paginasPorProcesos'[q].pedidas
    BY DEF PaginasPedidas
  <2>1. q # pid /\ entradasDeTabla'[f] = entradasDeTabla[f]
    BY <1>3, <1>5
  <2>2. QED
    BY <1>5, <2>1 DEF IInv, PaginasPedidas
<1>8. AsignadasCuentaFrames'
  <2> SUFFICES ASSUME NEW q \in Pids, paginasPorProcesos'[q].enLista
               PROVE  paginasPorProcesos'[q].asignadas = Cardinality(FramesDe(q)')
    BY DEF AsignadasCuentaFrames
  <2>1. q # pid
    BY <1>5
  <2>2. QED
    BY <1>3, <1>5, <2>1 DEF IInv, AsignadasCuentaFrames
<1>9. NuevoSinFrames'
  <2> SUFFICES ASSUME NEW q \in Pids, ~paginasPorProcesos'[q].usado
               PROVE  paginasPorProcesos'[q] = SinEntrada /\ FramesDe(q)' = {}
    BY DEF NuevoSinFrames
  <2>1. q # pid
    BY <1>5
  <2>2. QED
    BY <1>3, <1>5, <2>1 DEF IInv, NuevoSinFrames
<1>10. AsignadasHastaPedidas'
  <2> SUFFICES ASSUME NEW q \in Pids, paginasPorProcesos'[q].enLista
               PROVE  paginasPorProcesos'[q].asignadas <= paginasPorProcesos'[q].pedidas
    BY DEF AsignadasHastaPedidas
  <2>1. q # pid
    BY <1>5
  <2>2. QED
    BY <1>5, <2>1 DEF IInv, AsignadasHastaPedidas
<1>11. QED
  BY <1>3, <1>4, <1>6, <1>7, <1>8, <1>9, <1>10 DEF IInv

(* finalizarProceso keeps IInv: of a pid not listed only the answer is new. *)
LEMMA FinalizarPreserva ==
  ASSUME IInv, NEW pid \in Pids, finalizarProceso(pid)
  PROVE  IInv'
<1>1. CASE EnLista(pid)
  BY <1>1, FinalizarListadoPreserva
<1>2. CASE ~EnLista(pid)
  <2>1. /\ servidor = "atendiendo"
        /\ respuesta' = "OPERACION_EXITOSA_FINALIZADA"
        /\ UNCHANGED << entradasDeTabla, paginasPorProcesos, cantidadPaginasLibres,
                        mutexTablaInvertida, servidor >>
    BY <1>2 DEF finalizarProceso
  <2>2. QED
    BY <2>1, SinCambioPreserva DEF IInv, TypeOK
<1>3. QED
  BY <1>1, <1>2

-----------------------------------------------------------------------------
(* crearEstructuraAdministrativa leaves every data frame free.             *)
LEMMA InicioCumple == Init => IInv
<1> SUFFICES ASSUME Init PROVE IInv
  OBVIOUS
<1> DEFINE c == calcularTamanioDeTabla
<1>1. c \in 1 .. (MARCOS - 1) /\ MARCOS \in Nat /\ -1 \notin Pids
  BY TablaAssumption, MarcosAssumption, PidsAssumption
<1> HIDE DEF c
<1>2. entradasDeTabla =
        [f \in Frames |-> IF f < c THEN [pid |-> -1, pagina |-> f] ELSE Libre]
  BY DEF Init, c
<1>3. /\ \A f \in Frames : f < c => entradasDeTabla[f] = [pid |-> -1, pagina |-> f]
      /\ \A f \in Frames : f >= c => entradasDeTabla[f] = Libre
  BY <1>1, <1>2 DEF Frames
<1>4. \A f \in Frames : entradasDeTabla[f].pid = -1
  <2> SUFFICES ASSUME NEW f \in Frames
               PROVE  entradasDeTabla[f].pid = -1
    OBVIOUS
  <2>1. [pid |-> -1, pagina |-> f].pid = -1 /\ Libre.pid = -1
    BY DEF Libre
  <2>2. QED
    BY <1>2, <2>1
<1>5. \A q \in Pids : FramesDe(q) = {}
  BY <1>1, <1>4 DEF FramesDe
<1>6. FramesLibres = c .. (MARCOS - 1)
  <2>1. \A f \in Frames : f >= c => entradasDeTabla[f].pagina = -1
    BY <1>3 DEF Libre
  <2>2. \A f \in Frames : f < c => entradasDeTabla[f].pagina = f
    <3> SUFFICES ASSUME NEW f \in Frames, f < c
                 PROVE  entradasDeTabla[f].pagina = f
      OBVIOUS
    <3>1. entradasDeTabla[f] = [pid |-> -1, pagina |-> f]
      BY <1>3
    <3>2. QED
      BY <3>1
  <2>3. QED
    BY <1>1, <2>1, <2>2 DEF FramesLibres, Frames
<1>7. Cardinality(FramesLibres) = MARCOS - c
  <2>1. Cardinality(c .. (MARCOS - 1)) = MARCOS - 1 - c + 1
    BY <1>1, FS_Interval
  <2>2. QED
    BY <1>1, <1>6, <2>1
<1>8. cantidadPaginasLibres = MARCOS - c
  BY DEF Init, PaginasDeDatos, c
<1>9. TypeOK
  <2> DEFINE E == [pid : Pids \cup {-1}, pagina : Nat \cup {-1}]
  <2>1. \A f \in Frames : [pid |-> -1, pagina |-> f] \in E
    BY DEF Frames
  <2>2. Libre \in E
    BY DEF Libre
  <2> HIDE DEF E
  <2>3. entradasDeTabla \in [Frames -> E]
    BY <1>2, <2>1, <2>2
  <2>4. paginasPorProcesos \in
          [Pids -> [enLista : BOOLEAN, usado : BOOLEAN, pedidas : Nat, asignadas : Int]]
    BY DEF Init, SinEntrada
  <2>5. cantidadPaginasLibres \in Int
    BY <1>1, <1>8
  <2>6. QED
    BY <2>3, <2>4, <2>5 DEF E, Init, TypeOK
<1>10. TablaProtegida
  BY <1>3 DEF TablaProtegida, c
<1>11. PidYPaginaJuntos
  BY <1>3 DEF PidYPaginaJuntos, c, Libre
<1>12. LibresAcotado /\ MutexSuelto
  BY <1>1, <1>7, <1>8 DEF LibresAcotado, MutexSuelto, Init
<1>13. \A q \in Pids : paginasPorProcesos[q] = SinEntrada
  BY DEF Init
<1>14. PaginasPedidas
  BY <1>1, <1>4 DEF PaginasPedidas
<1>15. AsignadasCuentaFrames /\ NuevoSinFrames /\ AsignadasHastaPedidas
  BY <1>5, <1>13
     DEF AsignadasCuentaFrames, NuevoSinFrames, AsignadasHastaPedidas, SinEntrada
<1>16. QED
  BY <1>9, <1>10, <1>11, <1>12, <1>14, <1>15 DEF IInv

(* Every request keeps the invariant.                                      *)
LEMMA PasoCumple == IInv /\ [Next]_varsTabla => IInv'
<1> SUFFICES ASSUME IInv, [Next]_varsTabla
             PROVE  IInv'
  OBVIOUS
<1>1. ASSUME NEW pid \in Pids, NEW n \in Pedidos, inicializarProceso(pid, n)
      PROVE  IInv'
  BY <1>1, InicializarPreserva
<1>2. ASSUME NEW pid \in Pids, NEW n \in Pedidos, asignarPaginasAProceso(pid, n)
      PROVE  IInv'
  BY <1>2, AsignarPreserva
<1>3. ASSUME NEW pid \in Pids, NEW pagina \in PaginasDelHeap(pid),
             liberarPagina(pid, pagina)
      PROVE  IInv'
  BY <1>3, LiberarPreserva
<1>4. ASSUME NEW pid \in Pids, finalizarProceso(pid)
      PROVE  IInv'
  BY <1>4, FinalizarPreserva
<1>5. CASE UNCHANGED varsTabla
  <2>1. UNCHANGED << entradasDeTabla, paginasPorProcesos, cantidadPaginasLibres,
                     mutexTablaInvertida >> /\ UNCHANGED << servidor, respuesta >>
    BY <1>5 DEF varsTabla
  <2>2. QED
    BY <2>1, SinCambioPreserva DEF IInv, TypeOK
<1>6. QED
  BY <1>1, <1>2, <1>3, <1>4, <1>5 DEF Next

-----------------------------------------------------------------------------
(* Every request of the kernel keeps the inductive invariant, for every    *)
(* number and size of frames (initialise, assign, give back, finish).      *)
THEOREM TablaInvariante == Spec => []IInv
<1>1. Init => IInv
  BY InicioCumple
<1>2. IInv /\ [Next]_varsTabla => IInv'
  BY PasoCumple
<1>3. QED
  BY <1>1, <1>2, PTL DEF Spec

(* Every field of the table, the counters and the lock keeps its type.     *)
THEOREM TiposDeLaTabla == Spec => []TypeOK
<1>1. IInv => TypeOK
  BY DEF IInv
<1>2. QED
  BY <1>1, TablaInvariante, PTL

(* No search hands a process one of the frames the table lies in.          *)
THEOREM TablaNuncaSePisa == Spec => []TablaProtegida
<1>1. IInv => TablaProtegida
  BY DEF IInv
<1>2. QED
  BY <1>1, TablaInvariante, PTL

(* An owner and a page go together in every data frame.                    *)
THEOREM SinDueniosSueltos == Spec => []PidYPaginaJuntos
<1>1. IInv => PidYPaginaJuntos
  BY DEF IInv
<1>2. QED
  BY <1>1, TablaInvariante, PTL

(* The counter the reservations trust promises no frame that is not free.  *)
THEOREM NoPrometeDeMas == Spec => []LibresAcotado
<1>1. IInv => LibresAcotado
  BY DEF IInv
<1>2. QED
  BY <1>1, TablaInvariante, PTL

(* The early return that forgets the lock is never taken: a server that    *)
(* still answers does not hold mutexTablaInvertida.                        *)
THEOREM MutexNuncaOlvidado == Spec => []MutexSuelto
<1>1. IInv => MutexSuelto
  BY DEF IInv
<1>2. QED
  BY <1>1, TablaInvariante, PTL

(* The pages of a listed process are among those its end looks for.        *)
THEOREM PaginasDondeSeBuscan == Spec => []PaginasPedidas
<1>1. IInv => PaginasPedidas
  BY DEF IInv
<1>2. QED
  BY <1>1, TablaInvariante, PTL

(* cantidadDePaginasAsignadas is the number of frames of the process.      *)
THEOREM ContadorExacto == Spec => []AsignadasCuentaFrames
<1>1. IInv => AsignadasCuentaFrames
  BY DEF IInv
<1>2. QED
  BY <1>1, TablaInvariante, PTL

-----------------------------------------------------------------------------
(* No request touches a frame of another process: what it takes was free,  *)
(* what it gives back was its own.                                         *)
LEMMA PasoDelDuenio ==
  ASSUME IInv, Next, NEW f \in Frames, NEW q \in Pids,
         entradasDeTabla[f].pid = q, entradasDeTabla'[f] # entradasDeTabla[f]
  PROVE  entradasDeTabla'[f] = Libre /\ paginasPorProcesos'[q] # paginasPorProcesos[q]
<1>1. ASSUME NEW pid \in Pids, NEW n \in Pedidos,
             EnLista(pid) \/ ~paginasPorProcesos[pid].usado,
             reservarPaginasParaProceso(pid, n)
      PROVE  FALSE
  <2> DEFINE a == paginasPorProcesos[pid].asignadas
  <2>1. a \in Nat /\ n \in Nat
    BY <1>1, CuentaDeReserva, PedidosAssumption
  <2>2. \E k \in Nat : \E tomados \in [0 .. (k - 1) -> Frames] :
          EsReserva(tomados, pid, a) /\ entradasDeTabla' = TablaOcupada(tomados, pid, a)
    <3>1. CASE ReservaCompleta(pid, n, a)
      BY <2>1, <3>1 DEF ReservaCompleta, Ocupar
    <3>2. CASE ReservaCortada(pid, n, a)
      <4>1. PICK k \in 0 .. (n - 1) : \E tomados \in [0 .. (k - 1) -> Frames] :
              EsReserva(tomados, pid, a) /\ entradasDeTabla' = TablaOcupada(tomados, pid, a)
        BY <3>2 DEF ReservaCortada, Ocupar
      <4>2. k \in Nat
        BY <2>1
      <4>3. QED
        BY <4>1, <4>2
    <3>3. QED
      BY <1>1, <3>1, <3>2 DEF reservarPaginasParaProceso
  <2>3. PICK k \in Nat : \E tomados \in [0 .. (k - 1) -> Frames] :
          EsReserva(tomados, pid, a) /\ entradasDeTabla' = TablaOcupada(tomados, pid, a)
    BY <2>2
  <2>4. PICK tomados \in [0 .. (k - 1) -> Frames] :
          EsReserva(tomados, pid, a) /\ entradasDeTabla' = TablaOcupada(tomados, pid, a)
    BY <2>3
  <2> HIDE DEF a
  <2>5. EsReserva(tomados, pid, a) /\ entradasDeTabla' = TablaOcupada(tomados, pid, a)
        /\ a \in Nat /\ k \in Nat /\ pid \in Pids
    BY <2>1, <2>4
  <2>6. f \in FramesLibres /\ f >= calcularTamanioDeTabla
    <3>1. Tomados(tomados, k) \subseteq FramesLibres
      BY <2>5, OcuparFrames
    <3>2. \A g \in Frames \ Tomados(tomados, k) :
            entradasDeTabla'[g] = entradasDeTabla[g]
      BY <2>5, OcuparFrames
    <3>3. QED
      BY <3>1, <3>2, LibresSonDeDatos DEF IInv
  <2>7. entradasDeTabla[f].pid = -1
    BY <2>6 DEF IInv, PidYPaginaJuntos, FramesLibres
  <2>8. QED
    BY <2>7, PidsAssumption
<1>2. ASSUME NEW pid \in Pids, NEW n \in Pedidos, inicializarProceso(pid, n)
      PROVE  FALSE
  <2>1. reservarPaginasParaProceso(pid, n) \/ UNCHANGED entradasDeTabla
    BY <1>2 DEF inicializarProceso
  <2>2. QED
    BY <1>1, <1>2, <2>1 DEF inicializarProceso
<1>3. ASSUME NEW pid \in Pids, NEW n \in Pedidos, asignarPaginasAProceso(pid, n)
      PROVE  FALSE
  <2>1. (EnLista(pid) /\ reservarPaginasParaProceso(pid, n)) \/ UNCHANGED entradasDeTabla
    BY <1>3 DEF asignarPaginasAProceso
  <2>2. QED
    BY <1>1, <2>1
<1>4. ASSUME NEW pid \in Pids, NEW pagina \in PaginasDelHeap(pid),
             liberarPagina(pid, pagina)
      PROVE  entradasDeTabla'[f] = Libre /\ paginasPorProcesos'[q] # paginasPorProcesos[q]
  <2> DEFINE g == BuscarPagina(pid, pagina)
  <2>1. g \in Frames /\ puedeSerLiberada(g) /\ EnLista(pid)
    BY <1>4 DEF liberarPagina
  <2>2. /\ g \in FramesDe(pid)
        /\ entradasDeTabla' =
             [h \in Frames |-> IF h \in {g} THEN Libre ELSE entradasDeTabla[h]]
        /\ paginasPorProcesos' =
             [paginasPorProcesos EXCEPT ![pid] = liberarPaginaDeProceso(@)]
    BY <1>4, <2>1, LiberarEfecto
  <2> HIDE DEF g
  <2>3. f = g /\ entradasDeTabla'[f] = Libre
    BY <2>2
  <2>4. q = pid
    BY <2>2, <2>3 DEF FramesDe
  <2> DEFINE c == paginasPorProcesos[pid]
  <2>5. c.asignadas \in Int /\ c \in [enLista : BOOLEAN, usado : BOOLEAN,
                                     pedidas : Nat, asignadas : Int]
    BY DEF IInv, TypeOK
  <2>6. paginasPorProcesos'[pid] = liberarPaginaDeProceso(c)
    BY <2>2 DEF IInv, TypeOK
  <2> HIDE DEF c
  <2>7. liberarPaginaDeProceso(c).asignadas = c.asignadas - 1
    BY <2>5 DEF liberarPaginaDeProceso
  <2>8. QED
    BY <2>3, <2>4, <2>5, <2>6, <2>7 DEF c
<1>5. ASSUME NEW pid \in Pids, finalizarProceso(pid)
      PROVE  entradasDeTabla'[f] = Libre /\ paginasPorProcesos'[q] # paginasPorProcesos[q]
  <2>1. /\ FramesBorrados(pid) \in SUBSET FramesDe(pid)
        /\ entradasDeTabla' =
             [h \in Frames |-> IF h \in FramesBorrados(pid) THEN Libre
                                                            ELSE entradasDeTabla[h]]
        /\ paginasPorProcesos' = [paginasPorProcesos EXCEPT ![pid].enLista = FALSE]
        /\ paginasPorProcesos[pid].enLista
    <3>1. EnLista(pid)
      BY <1>5 DEF finalizarProceso
    <3>2. QED
      BY <1>5, <3>1, FinalizarEfecto
  <2>2. f \in FramesBorrados(pid) /\ entradasDeTabla'[f] = Libre
    BY <2>1
  <2>3. q = pid
    BY <2>1, <2>2 DEF FramesDe
  <2>4. paginasPorProcesos'[pid].enLista = FALSE
    BY <2>1 DEF IInv, TypeOK
  <2>5. QED
    BY <2>1, <2>2, <2>3, <2>4
<1>6. QED
  BY <1>2, <1>3, <1>4, <1>5 DEF Next

(* A frame in use changes only by becoming free, in a request for its      *)
(* owner: no request for one process takes a frame from another one.       *)
THEOREM NadieTocaLoAjeno == Spec => SoloElDuenioSuelta
<1>1. IInv /\ [Next]_varsTabla =>
        [\A f \in Frames : \A pid \in Pids :
           entradasDeTabla[f].pid = pid /\ entradasDeTabla'[f] # entradasDeTabla[f] =>
             /\ entradasDeTabla'[f] = Libre
             /\ paginasPorProcesos'[pid] # paginasPorProcesos[pid]]_varsTabla
  BY PasoDelDuenio
<1>2. QED
  BY <1>1, TablaInvariante, PTL DEF Spec, SoloElDuenioSuelta

(* A page that a listed process holds in one frame only is found by        *)
(* borrarEntradasDeProceso, unless the search does not come back.          *)
LEMMA PaginaUnicaSeBusca ==
  ASSUME IInv, NEW pid \in Pids, paginasPorProcesos[pid].enLista,
         UnFramePorPagina(pid), NEW f \in FramesDe(pid)
  PROVE  LET p == entradasDeTabla[f].pagina IN
         /\ p \in PaginasBuscadas(pid)
         /\ BuscarPagina(pid, p) \in {f, FUERA}
<1> DEFINE p == entradasDeTabla[f].pagina
           cs == FramesDePagina(pid, p)
           h == calcularPosicion(pid, p)
<1>1. f \in Frames /\ entradasDeTabla[f].pid = pid /\ pid \in Nat
  BY PidsAssumption DEF FramesDe
<1>2. entradasDeTabla[f] \in [pid : Pids \cup {-1}, pagina : Nat \cup {-1}]
  BY <1>1 DEF IInv, TypeOK
<1>3. f >= calcularTamanioDeTabla /\ f # 0
  <2>1. f \in Nat /\ calcularTamanioDeTabla \in Int /\ calcularTamanioDeTabla >= 1
    BY <1>1, TablaAssumption, MarcosAssumption DEF Frames
  <2>2. ASSUME f < calcularTamanioDeTabla
        PROVE  FALSE
    <3>1. entradasDeTabla[f] = [pid |-> -1, pagina |-> f]
      BY <1>1, <2>2 DEF IInv, TablaProtegida
    <3>2. QED
      BY <1>1, <3>1
  <2>3. QED
    BY <2>1, <2>2
<1>4. p \in Nat
  <2>1. p # -1
    BY <1>1, <1>3 DEF IInv, PidYPaginaJuntos
  <2>2. QED
    BY <1>2, <2>1
<1>5. p \in PaginasBuscadas(pid)
  <2>1. p < paginasPorProcesos[pid].pedidas
    BY <1>1 DEF IInv, PaginasPedidas
  <2>2. paginasPorProcesos[pid].pedidas \in Nat
    BY DEF IInv, TypeOK
  <2>3. QED
    BY <1>4, <2>1, <2>2 DEF PaginasBuscadas
<1>6. cs = {f}
  <2>1. f \in cs
    BY <1>1, <1>2 DEF FramesDePagina
  <2>2. ASSUME NEW g \in cs
        PROVE  g = f
    <3>1. g \in Frames /\ entradasDeTabla[g] = [pid |-> pid, pagina |-> p]
      BY DEF FramesDePagina
    <3>2. g \in FramesDe(pid) /\ entradasDeTabla[g].pagina = p
      BY <3>1 DEF FramesDe
    <3>3. QED
      BY <3>2 DEF UnFramePorPagina
  <2>3. QED
    BY <2>1, <2>2
<1>7. h \in Frames
  BY <1>1, <1>4, HashEsFrame
<1>8. cs \in SUBSET (Frames \ {0}) /\ cs # {}
  BY <1>1, <1>3, <1>6
<1> HIDE DEF p, cs, h
<1>9. buscarFrameProceso(h, cs) \in cs \cup {FUERA}
  BY <1>7, <1>8, NoDiceQueNoHay
<1>10. BuscarPagina(pid, p) = buscarFrameProceso(h, cs)
  BY DEF BuscarPagina, h, cs
<1>11. p \in PaginasBuscadas(pid) /\ BuscarPagina(pid, p) \in {f, FUERA}
  BY <1>5, <1>6, <1>9, <1>10
<1>12. QED
  BY <1>11 DEF p

(* Only the end of a process takes it off the list, and when all of its    *)
(* searches come back every frame of it is given up.                       *)
LEMMA FinSinRestos ==
  ASSUME IInv, Next, NEW pid \in Pids,
         paginasPorProcesos[pid].enLista, ~paginasPorProcesos'[pid].enLista,
         UnFramePorPagina(pid), servidor' = "atendiendo"
  PROVE  FramesDe(pid)' = {}
<1>0. paginasPorProcesos \in
        [Pids -> [enLista : BOOLEAN, usado : BOOLEAN, pedidas : Nat, asignadas : Int]]
  BY DEF IInv, TypeOK
<1>1. finalizarProceso(pid) /\ EnLista(pid)
  <2>1. ASSUME NEW q \in Pids, NEW n \in Pedidos,
               inicializarProceso(q, n) \/ asignarPaginasAProceso(q, n)
        PROVE  FALSE
    <3>1. ASSUME reservarPaginasParaProceso(q, n)
          PROVE  FALSE
      <4>1. PICK k : paginasPorProcesos' =
              [paginasPorProcesos EXCEPT
                 ![q] = [enLista |-> TRUE, usado |-> TRUE,
                         pedidas |-> @.pedidas + k, asignadas |-> @.asignadas + k]]
        BY <3>1 DEF reservarPaginasParaProceso, ReservaCompleta, ReservaCortada, Ocupar
      <4>2. QED
        BY <1>0, <4>1
    <3>2. QED
      BY <1>0, <2>1, <3>1 DEF inicializarProceso, asignarPaginasAProceso
  <2>2. ASSUME NEW q \in Pids, NEW pagina \in PaginasDelHeap(q), liberarPagina(q, pagina)
        PROVE  FALSE
    BY <1>0, <2>2 DEF liberarPagina, liberarPaginaDeProceso
  <2>3. ASSUME NEW q \in Pids, finalizarProceso(q)
        PROVE  q = pid
    BY <1>0, <2>3 DEF finalizarProceso, borrarEntradasDeProceso
  <2>4. QED
    BY <2>1, <2>2, <2>3 DEF Next, EnLista
<1>2. BusquedasSinFin(pid) = {}
  <2>1. ASSUME NEW p \in BusquedasSinFin(pid), servidor' = ServidorTras(BuscarPagina(pid, p))
        PROVE  FALSE
    BY <2>1 DEF BusquedasSinFin, NoVuelve, ServidorTras
  <2>2. QED
    BY <1>1, <2>1 DEF finalizarProceso
<1>3. entradasDeTabla' =
        [f \in Frames |-> IF f \in FramesBorrados(pid) THEN Libre ELSE entradasDeTabla[f]]
  BY <1>1 DEF finalizarProceso, borrarEntradasDeProceso, Liberada, EnLista
<1>4. ASSUME NEW f \in FramesDe(pid)
      PROVE  f \in FramesBorrados(pid)
  <2> DEFINE p == entradasDeTabla[f].pagina
  <2>1. p \in PaginasBuscadas(pid) /\ BuscarPagina(pid, p) \in {f, FUERA}
    BY PaginaUnicaSeBusca
  <2>2. BuscarPagina(pid, p) = f
    BY <1>2, <2>1 DEF BusquedasSinFin, NoVuelve
  <2>3. p \in PaginasBorradas(pid)
    BY <1>2, <2>1 DEF PaginasBorradas
  <2>4. QED
    BY <2>2, <2>3 DEF FramesBorrados, FramesDe
<1>5. ASSUME NEW f \in Frames, entradasDeTabla'[f].pid = pid
      PROVE  FALSE
  <2>1. CASE f \in FramesBorrados(pid)
    BY <1>3, <1>5, <2>1, PidsAssumption DEF Libre
  <2>2. CASE f \notin FramesBorrados(pid)
    BY <1>3, <1>4, <1>5, <2>2 DEF FramesDe
  <2>3. QED
    BY <2>1, <2>2
<1>6. QED
  BY <1>5 DEF FramesDe

(* A process whose pages are each in one frame leaves none behind when it  *)
(* ends and Memoria goes on serving.                                       *)
THEOREM FinalizarNoDejaNada == Spec => FinalizarBorraTodo
<1>1. IInv /\ [Next]_varsTabla =>
        [\A pid \in Pids :
           /\ paginasPorProcesos[pid].enLista /\ ~paginasPorProcesos'[pid].enLista
           /\ UnFramePorPagina(pid)
           /\ servidor' = "atendiendo"
           => FramesDe(pid)' = {}]_varsTabla
  BY FinSinRestos
<1>2. QED
  BY <1>1, TablaInvariante, PTL DEF Spec, FinalizarBorraTodo

-----------------------------------------------------------------------------
(* The cache.  The table keeps its invariant in the whole memory and the   *)
(* cache keeps its own.                                                    *)

(* A step of the whole process is a step of the table or leaves it alone.  *)
LEMMA PasoDeMemoriaCumple == IInv /\ [NextMemoria]_varsMemoria => IInv'
<1> SUFFICES ASSUME IInv, [NextMemoria]_varsMemoria
             PROVE  IInv'
  OBVIOUS
<1>1. ASSUME NEW pid \in Pids, NEW n \in Pedidos,
             inicializarProcesoM(pid, n) \/ asignarPaginasAProcesoM(pid, n)
      PROVE  IInv'
  BY <1>1, InicializarPreserva, AsignarPreserva
     DEF inicializarProcesoM, asignarPaginasAProcesoM
<1>2. ASSUME NEW pid \in Pids, NEW pagina \in PaginasDelHeap(pid),
             liberarPaginaM(pid, pagina)
      PROVE  IInv'
  BY <1>2, LiberarPreserva DEF liberarPaginaM
<1>3. ASSUME NEW pid \in Pids, finalizarProcesoM(pid)
      PROVE  IInv'
  BY <1>3, FinalizarPreserva DEF finalizarProcesoM
<1>4. ASSUME NEW pid \in Pids, NEW pagina \in PaginasAccedidas(pid),
             NEW acceso \in Accesos, escribirDatos(pid, pagina, acceso)
      PROVE  IInv'
  <2>1. /\ servidor = "atendiendo"
        /\ UNCHANGED << entradasDeTabla, paginasPorProcesos, cantidadPaginasLibres,
                        mutexTablaInvertida >>
    BY <1>4 DEF escribirDatos
  <2>2. servidor' = servidor \/ servidor' = ServidorTras(BuscarPagina(pid, pagina))
    BY <1>4 DEF escribirDatos
  <2>3. servidor' \in Servidores
    BY <2>1, <2>2 DEF ServidorTras
  <2>4. respuesta' = respuesta \/ respuesta' \in Respuestas
    BY <1>4 DEF escribirDatos
  <2>5. respuesta' \in Respuestas
    BY <2>4 DEF IInv, TypeOK
  <2>6. QED
    BY <2>1, <2>3, <2>5, SinCambioPreserva
<1>5. ASSUME NEW pid \in Pids, NEW pagina \in PaginasAccedidas(pid), leerDatos(pid, pagina)
      PROVE  IInv'
  <2>1. /\ servidor = "atendiendo"
        /\ UNCHANGED << entradasDeTabla, paginasPorProcesos, cantidadPaginasLibres,
                        mutexTablaInvertida >>
    BY <1>5 DEF leerDatos
  <2>2. \/ servidor' = servidor
        \/ servidor' = ServidorTras(BuscarPagina(pid, pagina))
        \/ servidor' \in {"atendiendo", "abortado"}
    BY <1>5 DEF leerDatos
  <2>3. servidor' \in Servidores
    BY <2>1, <2>2 DEF ServidorTras
  <2>4. respuesta' = respuesta \/ respuesta' \in Respuestas
    BY <1>5 DEF leerDatos
  <2>5. respuesta' \in Respuestas
    BY <2>4 DEF IInv, TypeOK
  <2>6. QED
    BY <2>1, <2>3, <2>5, SinCambioPreserva
<1>6. ASSUME flushCache \/ UNCHANGED varsMemoria
      PROVE  IInv'
  <2>1. UNCHANGED << entradasDeTabla, paginasPorProcesos, cantidadPaginasLibres,
                     mutexTablaInvertida >> /\ UNCHANGED << servidor, respuesta >>
    BY <1>6 DEF flushCache, varsTabla, varsMemoria
  <2>2. QED
    BY <2>1, SinCambioPreserva DEF IInv, TypeOK
<1>7. QED
  BY <1>1, <1>2, <1>3, <1>4, <1>5, <1>6 DEF NextMemoria

(* The invariant of the table holds in the whole Memoria process: cached   *)
(* reads, writes and flushes never disturb owners, counters or the lock.   *)
THEOREM MemoriaGuardaLaTabla == SpecMemoria => []IInv
<1>1. InitMemoria => IInv
  BY InicioCumple DEF InitMemoria
<1>2. IInv /\ [NextMemoria]_varsMemoria => IInv'
  BY PasoDeMemoriaCumple
<1>3. QED
  BY <1>1, <1>2, PTL DEF SpecMemoria

-----------------------------------------------------------------------------
(* The operators on lists that the cache is built from.                    *)

Claves == [pid : Pids, numPagina : Nat]

(* Taking out the element at p leaves the others in their order.           *)
LEMMA SacarUna ==
  ASSUME NEW S, NEW s \in Seq(S), NEW p \in 1 .. Len(s)
  PROVE  /\ RemoveAt(s, p) \in Seq(S)
         /\ Len(RemoveAt(s, p)) = Len(s) - 1
         /\ \A i \in 1 .. Len(s) - 1 :
              RemoveAt(s, p)[i] = s[IF i < p THEN i ELSE i + 1]
<1> DEFINE a == SubSeq(s, 1, p - 1)
           b == SubSeq(s, p + 1, Len(s))
<1>1. Len(s) \in Nat /\ \A i \in 1 .. Len(s) : s[i] \in S
  BY LenProperties, ElementOfSeq
<1>2. /\ a \in Seq(S)
      /\ Len(a) = p - 1
      /\ \A i \in 1 .. p - 1 : a[i] = s[i]
  <2>1. 1 \in Int /\ p - 1 \in Int /\ \A i \in 1 .. p - 1 : s[i] \in S
    BY <1>1
  <2>2. /\ a \in Seq(S)
        /\ Len(a) = IF 1 <= p - 1 THEN (p - 1) - 1 + 1 ELSE 0
        /\ \A i \in 1 .. (p - 1) - 1 + 1 : a[i] = s[1 + i - 1]
    BY <2>1, SubSeqProperties
  <2>3. QED
    BY <2>2, <1>1
<1>3. /\ b \in Seq(S)
      /\ Len(b) = Len(s) - p
      /\ \A i \in 1 .. Len(s) - p : b[i] = s[p + i]
  <2>1. p + 1 \in Int /\ Len(s) \in Int /\ \A i \in p + 1 .. Len(s) : s[i] \in S
    BY <1>1
  <2>2. /\ b \in Seq(S)
        /\ Len(b) = IF p + 1 <= Len(s) THEN Len(s) - (p + 1) + 1 ELSE 0
        /\ \A i \in 1 .. Len(s) - (p + 1) + 1 : b[i] = s[p + 1 + i - 1]
    BY <2>1, SubSeqProperties
  <2>3. QED
    BY <2>2, <1>1
<1>4. RemoveAt(s, p) = a \o b
  BY DEF RemoveAt
<1>5. /\ a \o b \in Seq(S)
      /\ Len(a \o b) = Len(a) + Len(b)
      /\ \A i \in 1 .. Len(a) + Len(b) :
           (a \o b)[i] = IF i <= Len(a) THEN a[i] ELSE b[i - Len(a)]
  <2> HIDE DEF a, b
  <2>1. QED
    BY <1>2, <1>3, ConcatProperties
<1>6. QED
  <2> HIDE DEF a, b
  <2>1. ASSUME NEW i \in 1 .. Len(s) - 1
        PROVE  (a \o b)[i] = s[IF i < p THEN i ELSE i + 1]
    <3>1. CASE i < p
      BY <3>1, <1>1, <1>2, <1>3, <1>5
    <3>2. CASE ~(i < p)
      <4>1. /\ i - Len(a) \in 1 .. Len(s) - p
            /\ (a \o b)[i] = b[i - Len(a)]
        BY <3>2, <1>1, <1>2, <1>3, <1>5
      <4>2. b[i - Len(a)] = s[p + (i - Len(a))] /\ p + (i - Len(a)) = i + 1
        BY <4>1, <1>1, <1>2, <1>3
      <4>3. QED
        BY <3>2, <4>1, <4>2
    <3>3. QED
      BY <3>1, <3>2
  <2>2. QED
    BY <2>1, <1>1, <1>2, <1>3, <1>4, <1>5, SMTT(30)

(* RemoveFirst takes out one occurrence of an element that is there.       *)
LEMMA SacarLaPrimera ==
  ASSUME NEW S, NEW s \in Seq(S), NEW e, \E i \in 1 .. Len(s) : s[i] = e
  PROVE  \E p \in 1 .. Len(s) : s[p] = e /\ RemoveFirst(s, e) = RemoveAt(s, p)
<1> DEFINE I == {i \in 1 .. Len(s) : s[i] = e}
<1>1. PICK n \in I : \A m \in I : n <= m
  <2>1. I \in SUBSET Nat /\ I # {}
    BY LenProperties
  <2> HIDE DEF I
  <2>2. QED
    BY <2>1, HayMinimo
<1>2. Min(I) \in I
  BY <1>1 DEF Min
<1>3. I # {}
  OBVIOUS
<1>4. RemoveFirst(s, e) = RemoveAt(s, Min(I))
  BY <1>3 DEF RemoveFirst, SelectInSeq
<1>5. QED
  BY <1>2, <1>4

(* RemoveFirstMatch takes out the first entry of the process, if it has    *)
(* any.                                                                    *)
LEMMA LimpiarSacaUna ==
  ASSUME NEW pid, cacheDeMemoria \in Seq(Claves),
         \E i \in 1 .. Len(cacheDeMemoria) : cacheDeMemoria[i].pid = pid
  PROVE  \E p \in 1 .. Len(cacheDeMemoria) :
           /\ cacheDeMemoria[p].pid = pid
           /\ \A j \in EntradasDeProceso(cacheDeMemoria, pid) : p <= j
           /\ limpiarProcesoDeCache(pid) = RemoveAt(cacheDeMemoria, p)
<1> DEFINE I == {i \in 1 .. Len(cacheDeMemoria) : cacheDeMemoria[i].pid = pid}
<1>1. PICK n \in I : \A m \in I : n <= m
  <2>1. I \in SUBSET Nat /\ I # {}
    BY LenProperties
  <2> HIDE DEF I
  <2>2. QED
    BY <2>1, HayMinimo
<1>2. Min(I) \in I
  BY <1>1 DEF Min
<1>3. I # {}
  OBVIOUS
<1>4. limpiarProcesoDeCache(pid) = RemoveAt(cacheDeMemoria, Min(I))
  BY <1>3 DEF limpiarProcesoDeCache, RemoveFirstMatch, SelectInSeq
<1>5. \A j \in EntradasDeProceso(cacheDeMemoria, pid) : Min(I) <= j
  <2>1. \A j \in I : Min(I) <= j
    BY <1>1 DEF Min
  <2>2. EntradasDeProceso(cacheDeMemoria, pid) = I
    BY LenProperties DEF EntradasDeProceso
  <2>3. QED
    BY <2>1, <2>2
<1>6. QED
  BY <1>2, <1>4, <1>5

-----------------------------------------------------------------------------
(* The limits of the cache.                                                *)

(* What the limits and the keys need to be an invariant on their own: the  *)
(* cache is a list of keys.                                                *)
CacheInv ==
  /\ cacheDeMemoria \in Seq(Claves)
  /\ CacheAcotada
  /\ SinRepetidas

(* The number of entries of a process is a natural.                        *)
LEMMA CuentaNatural ==
  ASSUME NEW s \in Seq(Claves), NEW pid
  PROVE  Cardinality(EntradasDeProceso(s, pid)) \in Nat
<1>1. EntradasDeProceso(s, pid) \in SUBSET (1 .. Len(s)) /\ Len(s) \in Nat
  BY LenProperties DEF EntradasDeProceso
<1>2. IsFiniteSet(1 .. Len(s))
  BY <1>1, FS_Interval
<1>3. QED
  BY <1>1, <1>2, FS_Subset, FS_CardinalityType

(* A list whose elements are elements of another one at different places   *)
(* is no longer, has no more entries of any process, and has no repeated   *)
(* entry when the other has none.                                          *)
LEMMA MenosEntradas ==
  ASSUME NEW s \in Seq(Claves), NEW t \in Seq(Claves), NEW g,
         \A i \in 1 .. Len(t) : g[i] \in 1 .. Len(s) /\ t[i] = s[g[i]],
         \A i, j \in 1 .. Len(t) : g[i] = g[j] => i = j
  PROVE  /\ \A pid : Cardinality(EntradasDeProceso(t, pid))
                       <= Cardinality(EntradasDeProceso(s, pid))
         /\ (\A i, j \in DOMAIN s : s[i] = s[j] => i = j)
            => \A i, j \in DOMAIN t : t[i] = t[j] => i = j
<1>1. DOMAIN s = 1 .. Len(s) /\ DOMAIN t = 1 .. Len(t) /\ Len(s) \in Nat
  BY LenProperties
<1>2. ASSUME NEW pid
      PROVE  Cardinality(EntradasDeProceso(t, pid)) <= Cardinality(EntradasDeProceso(s, pid))
  <2> DEFINE T == EntradasDeProceso(t, pid)
             S == EntradasDeProceso(s, pid)
             f == [i \in T |-> g[i]]
  <2>1. IsFiniteSet(S)
    <3>1. S \in SUBSET (1 .. Len(s))
      BY <1>1 DEF EntradasDeProceso
    <3>2. IsFiniteSet(1 .. Len(s))
      BY <1>1, FS_Interval
    <3>3. QED
      BY <3>1, <3>2, FS_Subset
  <2>2. f \in [T -> S]
    BY <1>1 DEF EntradasDeProceso
  <2>3. \A i, j \in T : f[i] = f[j] => i = j
    BY <1>1 DEF EntradasDeProceso
  <2>4. f \in Injection(T, S)
    BY <2>2, <2>3 DEF Injection, IsInjective
  <2>5. QED
    <3> HIDE DEF T, S, f
    <3>1. Cardinality(T) <= Cardinality(S)
      BY <2>1, <2>4, FS_Injection
    <3>2. QED
      BY <3>1 DEF T, S
<1>3. ASSUME \A i, j \in DOMAIN s : s[i] = s[j] => i = j,
             NEW i \in DOMAIN t, NEW j \in DOMAIN t, t[i] = t[j]
      PROVE  i = j
  BY <1>1, <1>3
<1>4. QED
  BY <1>2, <1>3

(* Taking out one entry keeps the limits.                                  *)
LEMMA SacarCumple ==
  ASSUME NEW s \in Seq(Claves), NEW p \in 1 .. Len(s)
  PROVE  /\ \A pid : Cardinality(EntradasDeProceso(RemoveAt(s, p), pid))
                       <= Cardinality(EntradasDeProceso(s, pid))
         /\ (\A i, j \in DOMAIN s : s[i] = s[j] => i = j)
            => \A i, j \in DOMAIN RemoveAt(s, p) :
                 RemoveAt(s, p)[i] = RemoveAt(s, p)[j] => i = j
<1> DEFINE t == RemoveAt(s, p)
           g == [i \in 1 .. Len(s) |-> IF i < p THEN i ELSE i + 1]
<1>1. /\ t \in Seq(Claves)
      /\ Len(t) = Len(s) - 1
      /\ \A i \in 1 .. Len(s) - 1 : t[i] = s[IF i < p THEN i ELSE i + 1]
  BY SacarUna
<1>2. Len(s) \in Nat
  BY LenProperties
<1> HIDE DEF t
<1>3. \A i \in 1 .. Len(t) : g[i] \in 1 .. Len(s) /\ t[i] = s[g[i]]
  BY <1>1, <1>2
<1>4. \A i, j \in 1 .. Len(t) : g[i] = g[j] => i = j
  BY <1>1, <1>2
<1>5. QED
  <2> HIDE DEF g
  <2>1. /\ \A pid : Cardinality(EntradasDeProceso(t, pid))
                      <= Cardinality(EntradasDeProceso(s, pid))
        /\ (\A i, j \in DOMAIN s : s[i] = s[j] => i = j)
           => \A i, j \in DOMAIN t : t[i] = t[j] => i = j
    BY <1>1, <1>3, <1>4, MenosEntradas
  <2>2. QED
    BY <2>1 DEF t

(* A new entry at the top: only its process has one more.                  *)
LEMMA AgregarCumple ==
  ASSUME NEW k \in Claves, NEW s \in Seq(Claves)
  PROVE  /\ <<k>> \o s \in Seq(Claves)
         /\ Len(<<k>> \o s) = Len(s) + 1
         /\ (<<k>> \o s)[1] = k
         /\ \A i \in 1 .. Len(s) : (<<k>> \o s)[i + 1] = s[i]
         /\ \A pid : Cardinality(EntradasDeProceso(<<k>> \o s, pid))
                      <= Cardinality(EntradasDeProceso(s, pid)) + (IF k.pid = pid THEN 1 ELSE 0)
<1> DEFINE t == <<k>> \o s
<1>1. Len(s) \in Nat /\ DOMAIN s = 1 .. Len(s)
  BY LenProperties
<1>2. /\ t \in Seq(Claves)
      /\ Len(t) = Len(s) + 1
      /\ t[1] = k
      /\ \A i \in 1 .. Len(s) : t[i + 1] = s[i]
      /\ \A i \in 2 .. Len(t) : t[i] = s[i - 1]
  <2>1. /\ <<k>> \in Seq(Claves)
        /\ Len(<<k>>) = 1
        /\ <<k>>[1] = k
    OBVIOUS
  <2>2. /\ t \in Seq(Claves)
        /\ Len(t) = Len(<<k>>) + Len(s)
        /\ \A i \in 1 .. Len(<<k>>) + Len(s) :
             t[i] = IF i <= Len(<<k>>) THEN <<k>>[i] ELSE s[i - Len(<<k>>)]
    BY <2>1, ConcatProperties
  <2> HIDE DEF t
  <2>3. QED
    BY <1>1, <2>1, <2>2
<1>3. DOMAIN t = 1 .. Len(t)
  BY <1>2, LenProperties
<1>4. ASSUME NEW pid
      PROVE  Cardinality(EntradasDeProceso(t, pid))
             <= Cardinality(EntradasDeProceso(s, pid)) + (IF k.pid = pid THEN 1 ELSE 0)
  <2> DEFINE T == EntradasDeProceso(t, pid)
             S == EntradasDeProceso(s, pid)
             R == T \ {1}
             f == [i \in R |-> i - 1]
  <2>1. IsFiniteSet(S) /\ IsFiniteSet(T)
    <3>1. S \in SUBSET (1 .. Len(s)) /\ T \in SUBSET (1 .. Len(t))
      BY <1>1, <1>3 DEF EntradasDeProceso
    <3>2. IsFiniteSet(1 .. Len(s)) /\ IsFiniteSet(1 .. Len(t))
      BY <1>1, <1>2, FS_Interval
    <3>3. QED
      BY <3>1, <3>2, FS_Subset
  <2>2. f \in [R -> S]
    <3> SUFFICES ASSUME NEW i \in R
                 PROVE  i - 1 \in S
      OBVIOUS
    <3>1. i \in 2 .. Len(t) /\ t[i].pid = pid
      BY <1>1, <1>2, <1>3 DEF EntradasDeProceso
    <3>2. t[i] = s[i - 1]
      BY <1>2, <3>1
    <3>3. QED
      BY <1>1, <1>2, <3>1, <3>2 DEF EntradasDeProceso
  <2>3. \A i, j \in R : f[i] = f[j] => i = j
    BY <1>2, <1>3 DEF EntradasDeProceso
  <2>4. f \in Injection(R, S)
    <3> HIDE DEF R, S, f
    <3>1. QED
      BY <2>2, <2>3 DEF Injection, IsInjective
  <2>5. IsFiniteSet(R) /\ Cardinality(R) <= Cardinality(S)
    <3> HIDE DEF R, S, f
    <3>1. QED
      BY <2>1, <2>4, FS_Injection
  <2>6. Cardinality(R) = IF 1 \in T THEN Cardinality(T) - 1 ELSE Cardinality(T)
    BY <2>1, FS_RemoveElement
  <2>7. 1 \in T => k.pid = pid
    BY <1>2 DEF EntradasDeProceso
  <2>8. Cardinality(R) \in Nat /\ Cardinality(S) \in Nat /\ Cardinality(T) \in Nat
    BY <2>1, <2>5, FS_CardinalityType
  <2>9. QED
    <3> HIDE DEF R, S, T
    <3>1. Cardinality(T) <= Cardinality(S) + (IF k.pid = pid THEN 1 ELSE 0)
      BY <2>5, <2>6, <2>7, <2>8
    <3>2. QED
      BY <3>1 DEF S, T
<1>5. QED
  BY <1>2, <1>4

(* A hit moves its entry to the top: the same entries in another order.    *)
LEMMA AlFrenteCumple ==
  ASSUME CacheInv, NEW pid \in Pids, NEW pagina \in Nat, estaCargadoEnCache(pid, pagina),
         cacheDeMemoria' = AlFrente(pid, pagina)
  PROVE  /\ CacheInv'
         /\ \A i \in DOMAIN cacheDeMemoria : cacheDeMemoria[i] \in ToSet(cacheDeMemoria')
<1> DEFINE s == cacheDeMemoria
           k == Clave(pid, pagina)
<1>1. s \in Seq(Claves) /\ Len(s) \in Nat /\ DOMAIN s = 1 .. Len(s) /\ k \in Claves
  BY LenProperties DEF CacheInv, Clave, Claves
<1>2. PICK p \in 1 .. Len(s) : s[p] = k /\ RemoveFirst(s, k) = RemoveAt(s, p)
  <2>1. \E i \in 1 .. Len(s) : s[i] = k
    BY <1>1 DEF estaCargadoEnCache
  <2> HIDE DEF s, k
  <2>2. QED
    BY <1>1, <2>1, SacarLaPrimera
<1> DEFINE r == RemoveAt(s, p)
           t == <<k>> \o r
           g == [i \in 1 .. Len(s) |-> IF i = 1 THEN p ELSE IF i - 1 < p THEN i - 1 ELSE i]
<1>3. cacheDeMemoria' = t
  BY <1>2 DEF AlFrente
<1>4. /\ r \in Seq(Claves)
      /\ Len(r) = Len(s) - 1
      /\ \A i \in 1 .. Len(s) - 1 : r[i] = s[IF i < p THEN i ELSE i + 1]
  <2> HIDE DEF s
  <2>1. QED
    BY <1>1, SacarUna
<1> HIDE DEF r, k, s
<1>5. /\ t \in Seq(Claves)
      /\ Len(t) = Len(r) + 1
      /\ t[1] = k
      /\ \A i \in 1 .. Len(r) : t[i + 1] = r[i]
  BY <1>1, <1>4, AgregarCumple
<1> HIDE DEF t
<1>6. Len(t) = Len(s) /\ DOMAIN t = 1 .. Len(s)
  BY <1>1, <1>4, <1>5, LenProperties
<1>7. \A i \in 1 .. Len(t) : g[i] \in 1 .. Len(s) /\ t[i] = s[g[i]]
  <2> SUFFICES ASSUME NEW i \in 1 .. Len(s)
               PROVE  g[i] \in 1 .. Len(s) /\ t[i] = s[g[i]]
    BY <1>6
  <2>1. CASE i = 1
    BY <2>1, <1>2, <1>5
  <2>2. CASE i # 1
    <3>1. i - 1 \in 1 .. Len(s) - 1 /\ t[(i - 1) + 1] = r[i - 1] /\ (i - 1) + 1 = i
      BY <2>2, <1>1, <1>4, <1>5
    <3>2. r[i - 1] = s[IF i - 1 < p THEN i - 1 ELSE (i - 1) + 1]
      BY <3>1, <1>4
    <3>3. QED
      BY <2>2, <3>1, <3>2, <1>1
  <2>3. QED
    BY <2>1, <2>2
<1>8. \A i, j \in 1 .. Len(t) : g[i] = g[j] => i = j
  BY <1>1, <1>6
<1>9. /\ \A q : Cardinality(EntradasDeProceso(t, q)) <= Cardinality(EntradasDeProceso(s, q))
      /\ (\A i, j \in DOMAIN s : s[i] = s[j] => i = j)
         => \A i, j \in DOMAIN t : t[i] = t[j] => i = j
  <2> HIDE DEF g
  <2>1. QED
    BY <1>1, <1>5, <1>7, <1>8, MenosEntradas
<1>10. CacheInv'
  <2>1. Len(t) <= ENTRADAS_CACHE /\ \A i, j \in DOMAIN t : t[i] = t[j] => i = j
    BY <1>6, <1>9 DEF CacheInv, CacheAcotada, SinRepetidas, s
  <2>2. ASSUME NEW q \in Pids
        PROVE  Cardinality(EntradasDeProceso(t, q)) <= CACHE_X_PROC
    <3>1. Cardinality(EntradasDeProceso(s, q)) <= CACHE_X_PROC
      BY DEF CacheInv, CacheAcotada, s
    <3>2. /\ Cardinality(EntradasDeProceso(s, q)) \in Nat
          /\ Cardinality(EntradasDeProceso(t, q)) \in Nat
      BY <1>1, <1>5, CuentaNatural
    <3>3. QED
      BY <3>1, <3>2, <1>9, CacheAssumption
  <2>3. QED
    BY <1>3, <1>5, <2>1, <2>2 DEF CacheInv, CacheAcotada, SinRepetidas
<1>11. ASSUME NEW i \in DOMAIN s
       PROVE  s[i] \in ToSet(t)
  <2>1. \E j \in 1 .. Len(s) : g[j] = i
    <3>1. CASE i = p
      BY <3>1, <1>1
    <3>2. CASE i < p
      <4>1. i + 1 \in 1 .. Len(s) /\ g[i + 1] = i
        BY <3>2, <1>1
      <4>2. QED
        BY <4>1
    <3>3. CASE p < i
      <4>1. i \in 1 .. Len(s) /\ g[i] = i
        BY <3>3, <1>1
      <4>2. QED
        BY <4>1
    <3>4. QED
      BY <3>1, <3>2, <3>3, <1>1
  <2>2. QED
    <3> HIDE DEF g
    <3>1. QED
      BY <2>1, <1>6, <1>7 DEF ToSet
<1>12. QED
  BY <1>3, <1>10, <1>11 DEF s

(* A page that was not in the cache is loaded: the limits are checked, and *)
(* the entry that makes room is the last of a full cache.                  *)
LEMMA AgregarACacheCumple ==
  ASSUME CacheInv, NEW pid \in Pids, NEW pagina \in Nat, ~estaCargadoEnCache(pid, pagina),
         cacheDeMemoria' = agregarACache(pid, pagina)
  PROVE  /\ CacheInv'
         /\ \A i \in DOMAIN cacheDeMemoria :
              cacheDeMemoria[i] \notin ToSet(cacheDeMemoria')
              => /\ i = ENTRADAS_CACHE
                 /\ Len(cacheDeMemoria') = ENTRADAS_CACHE
                 /\ cacheDeMemoria'[1] \notin ToSet(cacheDeMemoria)
<1> DEFINE s == cacheDeMemoria
           k == Clave(pid, pagina)
           r == IF estaLlenaLaCache THEN sacarLRU(cacheDeMemoria) ELSE cacheDeMemoria
           t == <<k>> \o r
<1>1. s \in Seq(Claves) /\ Len(s) \in Nat /\ DOMAIN s = 1 .. Len(s) /\ k \in Claves
  BY LenProperties DEF CacheInv, Clave, Claves
<1>2. CASE ~noSuperoLaCantidadMaxDeEntradas(pid)
  <2>1. cacheDeMemoria' = cacheDeMemoria
    BY <1>2 DEF agregarACache
  <2>2. CacheInv'
    BY <2>1 DEF CacheInv, CacheAcotada, SinRepetidas
  <2>3. \A i \in DOMAIN s : s[i] \in ToSet(s)
    BY DEF ToSet
  <2>4. QED
    BY <2>1, <2>2, <2>3
<1>3. CASE noSuperoLaCantidadMaxDeEntradas(pid)
  <2>1. cacheDeMemoria' = t
    BY <1>3 DEF agregarACache
  <2>2. /\ Len(s) <= ENTRADAS_CACHE
        /\ \A q \in Pids : Cardinality(EntradasDeProceso(s, q)) <= CACHE_X_PROC
        /\ \A i, j \in DOMAIN s : s[i] = s[j] => i = j
        /\ Cardinality(EntradasDeProceso(s, pid)) < CACHE_X_PROC
    BY <1>3 DEF CacheInv, CacheAcotada, SinRepetidas, noSuperoLaCantidadMaxDeEntradas
  <2>3. /\ r \in Seq(Claves)
        /\ Len(r) + 1 <= ENTRADAS_CACHE
        /\ \A q : Cardinality(EntradasDeProceso(r, q)) <= Cardinality(EntradasDeProceso(s, q))
        /\ \A i, j \in DOMAIN r : r[i] = r[j] => i = j
        /\ \A i \in 1 .. Len(r) : r[i] = s[i] /\ i \in DOMAIN s
        /\ \A i \in DOMAIN s : 
             i \in 1 .. Len(r) \/ (i = ENTRADAS_CACHE /\ Len(r) + 1 = ENTRADAS_CACHE)
    <3>1. CASE estaLlenaLaCache
      <4>1. /\ Len(s) = ENTRADAS_CACHE
            /\ r = RemoveAt(s, ENTRADAS_CACHE)
            /\ ENTRADAS_CACHE \in 1 .. Len(s)
        <5>1. Len(s) >= ENTRADAS_CACHE
          BY <3>1 DEF estaLlenaLaCache
        <5>2. r = RemoveAt(s, ENTRADAS_CACHE)
          BY <3>1 DEF sacarLRU
        <5> HIDE DEF r, s
        <5>3. Len(s) <= ENTRADAS_CACHE /\ Len(s) \in Nat
          BY <2>2, <1>1
        <5>4. Len(s) = ENTRADAS_CACHE /\ ENTRADAS_CACHE \in 1 .. Len(s)
          BY <5>1, <5>3, CacheAssumption
        <5>5. QED
          BY <5>2, <5>4
      <4> HIDE DEF r, s
      <4>2. /\ r \in Seq(Claves)
            /\ Len(r) = Len(s) - 1
            /\ \A i \in 1 .. Len(s) - 1 : r[i] = s[IF i < ENTRADAS_CACHE THEN i ELSE i + 1]
        BY <4>1, <1>1, SacarUna
      <4>3. /\ \A q : Cardinality(EntradasDeProceso(r, q))
                       <= Cardinality(EntradasDeProceso(s, q))
            /\ \A i, j \in DOMAIN r : r[i] = r[j] => i = j
        BY <4>1, <1>1, <2>2, SacarCumple
      <4>4. QED
        BY <4>1, <4>2, <4>3, <1>1, CacheAssumption
    <3>2. CASE ~estaLlenaLaCache
      <4>1. r = s /\ Len(s) + 1 <= ENTRADAS_CACHE
        <5>1. r = s /\ ~(Len(s) >= ENTRADAS_CACHE)
          BY <3>2 DEF estaLlenaLaCache
        <5> HIDE DEF r, s
        <5>2. QED
          BY <5>1, <1>1, CacheAssumption
      <4> HIDE DEF r, s
      <4>2. \A q : Cardinality(EntradasDeProceso(s, q)) \in Nat
        BY <1>1, CuentaNatural
      <4>3. \A q : Cardinality(EntradasDeProceso(s, q)) <= Cardinality(EntradasDeProceso(s, q))
        BY <4>2
      <4>4. QED
        BY <4>1, <4>3, <1>1, <2>2
    <3>3. QED
      BY <3>1, <3>2
  <2>4. \A i \in DOMAIN s : s[i] # k
    BY DEF estaCargadoEnCache
  <2> HIDE DEF r, s, k
  <2>5. /\ t \in Seq(Claves)
        /\ Len(t) = Len(r) + 1
        /\ t[1] = k
        /\ \A i \in 1 .. Len(r) : t[i + 1] = r[i]
        /\ \A q : Cardinality(EntradasDeProceso(t, q))
                  <= Cardinality(EntradasDeProceso(r, q)) + (IF k.pid = q THEN 1 ELSE 0)
    BY <1>1, <2>3, AgregarCumple
  <2> HIDE DEF t
  <2>6. Len(r) \in Nat /\ DOMAIN r = 1 .. Len(r) /\ DOMAIN t = 1 .. Len(r) + 1
    BY <2>3, <2>5, LenProperties
  <2>7. ASSUME NEW q \in Pids
        PROVE  Cardinality(EntradasDeProceso(t, q)) <= CACHE_X_PROC
    <3>1. /\ Cardinality(EntradasDeProceso(s, q)) \in Nat
          /\ Cardinality(EntradasDeProceso(r, q)) \in Nat
          /\ Cardinality(EntradasDeProceso(t, q)) \in Nat
      BY <1>1, <2>3, <2>5, CuentaNatural
    <3>2. k.pid = q => Cardinality(EntradasDeProceso(s, q)) < CACHE_X_PROC
      BY <2>2 DEF k, Clave
    <3>3. /\ Cardinality(EntradasDeProceso(t, q))
             <= Cardinality(EntradasDeProceso(r, q)) + (IF k.pid = q THEN 1 ELSE 0)
          /\ Cardinality(EntradasDeProceso(r, q)) <= Cardinality(EntradasDeProceso(s, q))
          /\ Cardinality(EntradasDeProceso(s, q)) <= CACHE_X_PROC
      BY <2>2, <2>3, <2>5
    <3>4. QED
      BY <3>1, <3>2, <3>3, CacheAssumption
  <2>8. ASSUME NEW i \in DOMAIN t, NEW j \in DOMAIN t, t[i] = t[j]
        PROVE  i = j
    <3>1. \A m \in DOMAIN t : m # 1 => m - 1 \in DOMAIN r /\ t[m] = r[m - 1] /\ r[m - 1] # k
      <4> SUFFICES ASSUME NEW m \in DOMAIN t, m # 1
                   PROVE  m - 1 \in DOMAIN r /\ t[m] = r[m - 1] /\ r[m - 1] # k
        OBVIOUS
      <4>1. m - 1 \in 1 .. Len(r) /\ (m - 1) + 1 = m
        BY <2>6
      <4>2. t[(m - 1) + 1] = r[m - 1] /\ r[m - 1] = s[m - 1] /\ m - 1 \in DOMAIN s
        BY <4>1, <2>3, <2>5
      <4>3. QED
        BY <4>1, <4>2, <2>4, <2>6
    <3>2. CASE i = 1 \/ j = 1
      BY <3>1, <3>2, <2>5, <2>8
    <3>3. CASE i # 1 /\ j # 1
      <4>1. i - 1 \in DOMAIN r /\ j - 1 \in DOMAIN r /\ r[i - 1] = r[j - 1]
        BY <3>1, <3>3, <2>8
      <4>2. i - 1 = j - 1
        BY <4>1, <2>3
      <4>3. QED
        BY <4>2, <2>6
    <3>4. QED
      BY <3>2, <3>3
  <2>9. CacheInv'
    <3>1. Len(t) <= ENTRADAS_CACHE
      BY <2>3, <2>5
    <3>2. QED
      BY <3>1, <2>1, <2>5, <2>7, <2>8 DEF CacheInv, CacheAcotada, SinRepetidas
  <2>10. ASSUME NEW i \in DOMAIN s, s[i] \notin ToSet(t)
         PROVE  i = ENTRADAS_CACHE /\ Len(t) = ENTRADAS_CACHE /\ t[1] \notin ToSet(s)
    <3>1. i \notin 1 .. Len(r)
      <4> SUFFICES ASSUME i \in 1 .. Len(r)
                   PROVE  FALSE
        OBVIOUS
      <4>1. t[i + 1] = s[i] /\ i + 1 \in DOMAIN t
        BY <2>3, <2>5, <2>6
      <4>2. QED
        BY <4>1, <2>10 DEF ToSet
    <3>2. t[1] \notin ToSet(s)
      BY <2>4, <2>5 DEF ToSet
    <3>3. QED
      BY <3>1, <3>2, <2>3, <2>5
  <2>11. QED
    BY <2>1, <2>9, <2>10 DEF s
<1>4. QED
  BY <1>2, <1>3

(* FINALIZAR_PROGRAMA takes out one entry of the process, or none.         *)
LEMMA LimpiarCumple ==
  ASSUME CacheInv, NEW pid \in Pids, cacheDeMemoria' = limpiarProcesoDeCache(pid)
  PROVE  CacheInv'
<1> DEFINE s == cacheDeMemoria
           t == limpiarProcesoDeCache(pid)
<1>1. /\ s \in Seq(Claves) /\ Len(s) \in Nat /\ DOMAIN s = 1 .. Len(s)
      /\ Len(s) <= ENTRADAS_CACHE
      /\ \A q \in Pids : Cardinality(EntradasDeProceso(s, q)) <= CACHE_X_PROC
      /\ \A i, j \in DOMAIN s : s[i] = s[j] => i = j
  BY LenProperties DEF CacheInv, CacheAcotada, SinRepetidas
<1>2. CASE \E i \in 1 .. Len(s) : s[i].pid = pid
  <2>1. PICK p \in 1 .. Len(s) : t = RemoveAt(s, p)
    BY <1>1, <1>2, LimpiarSacaUna
  <2> HIDE DEF s, t
  <2>2. t \in Seq(Claves) /\ Len(t) = Len(s) - 1
    BY <1>1, <2>1, SacarUna
  <2>3. /\ \A q : Cardinality(EntradasDeProceso(t, q)) <= Cardinality(EntradasDeProceso(s, q))
        /\ \A i, j \in DOMAIN t : t[i] = t[j] => i = j
    BY <1>1, <2>1, SacarCumple
  <2>4. \A q : /\ Cardinality(EntradasDeProceso(t, q)) \in Nat
               /\ Cardinality(EntradasDeProceso(s, q)) \in Nat
    BY <1>1, <2>2, CuentaNatural
  <2>5. \A q \in Pids : Cardinality(EntradasDeProceso(t, q)) <= CACHE_X_PROC
    BY <1>1, <2>3, <2>4, CacheAssumption
  <2>6. Len(t) <= ENTRADAS_CACHE
    BY <1>1, <2>2, CacheAssumption
  <2>7. cacheDeMemoria' = t
    BY DEF t
  <2>8. QED
    BY <2>2, <2>3, <2>5, <2>6, <2>7 DEF CacheInv, CacheAcotada, SinRepetidas
<1>3. CASE ~\E i \in 1 .. Len(s) : s[i].pid = pid
  <2>1. cacheDeMemoria' = s
    BY <1>3 DEF limpiarProcesoDeCache, RemoveFirstMatch
  <2>2. QED
    BY <2>1 DEF CacheInv, CacheAcotada, SinRepetidas
<1>4. QED
  BY <1>2, <1>3

(* What a step of Memoria does to the cache.                               *)
LEMMA PasoDeLaCache ==
  ASSUME IInv, [NextMemoria]_varsMemoria
  PROVE  \/ UNCHANGED cacheDeMemoria
         \/ cacheDeMemoria' = << >>
         \/ \E pid \in Pids :
              /\ cacheDeMemoria' = limpiarProcesoDeCache(pid)
              /\ ~paginasPorProcesos'[pid].enLista
         \/ \E pid \in Pids : \E pagina \in Nat :
              \/ /\ estaCargadoEnCache(pid, pagina)
                 /\ cacheDeMemoria' = AlFrente(pid, pagina)
              \/ /\ ~estaCargadoEnCache(pid, pagina)
                 /\ cacheDeMemoria' = agregarACache(pid, pagina)
<1>1. ASSUME NEW pid \in Pids, NEW n \in Pedidos,
             inicializarProcesoM(pid, n) \/ asignarPaginasAProcesoM(pid, n)
      PROVE  UNCHANGED cacheDeMemoria
  BY <1>1 DEF inicializarProcesoM, asignarPaginasAProcesoM
<1>2. ASSUME NEW pid \in Pids, NEW pagina \in PaginasDelHeap(pid),
             liberarPaginaM(pid, pagina)
      PROVE  UNCHANGED cacheDeMemoria
  BY <1>2 DEF liberarPaginaM
<1>3. ASSUME NEW pid \in Pids, finalizarProcesoM(pid)
      PROVE  /\ cacheDeMemoria' = limpiarProcesoDeCache(pid)
             /\ ~paginasPorProcesos'[pid].enLista
  <2>1. cacheDeMemoria' = limpiarProcesoDeCache(pid)
    BY <1>3 DEF finalizarProcesoM
  <2>2. paginasPorProcesos \in
          [Pids -> [enLista : BOOLEAN, usado : BOOLEAN, pedidas : Nat, asignadas : Int]]
    BY DEF IInv, TypeOK
  <2>3. CASE EnLista(pid)
    <3>1. paginasPorProcesos' = [paginasPorProcesos EXCEPT ![pid].enLista = FALSE]
      BY <1>3, <2>3 DEF finalizarProcesoM, finalizarProceso, borrarEntradasDeProceso
    <3>2. QED
      BY <2>1, <2>2, <3>1
  <2>4. CASE ~EnLista(pid)
    BY <1>3, <2>1, <2>4 DEF finalizarProcesoM, finalizarProceso, EnLista
  <2>5. QED
    BY <2>3, <2>4
<1>4. ASSUME NEW pid \in Pids, NEW pagina \in PaginasAccedidas(pid)
      PROVE  pagina \in Nat
  <2>1. paginasPorProcesos[pid].pedidas \in Nat
    BY DEF IInv, TypeOK
  <2>2. QED
    BY <2>1 DEF PaginasAccedidas
<1>5. ASSUME NEW pid \in Pids, NEW pagina \in PaginasAccedidas(pid),
             NEW acceso \in Accesos, escribirDatos(pid, pagina, acceso)
      PROVE  \/ UNCHANGED cacheDeMemoria
             \/ /\ estaCargadoEnCache(pid, pagina)
                /\ cacheDeMemoria' = AlFrente(pid, pagina)
             \/ /\ ~estaCargadoEnCache(pid, pagina)
                /\ cacheDeMemoria' = agregarACache(pid, pagina)
  BY <1>5 DEF escribirDatos
<1>6. ASSUME NEW pid \in Pids, NEW pagina \in PaginasAccedidas(pid), leerDatos(pid, pagina)
      PROVE  \/ UNCHANGED cacheDeMemoria
             \/ /\ estaCargadoEnCache(pid, pagina)
                /\ cacheDeMemoria' = AlFrente(pid, pagina)
  BY <1>6 DEF leerDatos
<1>7. ASSUME flushCache \/ UNCHANGED varsMemoria
      PROVE  UNCHANGED cacheDeMemoria \/ cacheDeMemoria' = << >>
  BY <1>7 DEF flushCache, varsMemoria
<1>8. QED
  BY <1>1, <1>2, <1>3, <1>4, <1>5, <1>6, <1>7 DEF NextMemoria

LEMMA VaciaCumple == cacheDeMemoria' = << >> => CacheInv'
<1> SUFFICES ASSUME cacheDeMemoria' = << >>
             PROVE  CacheInv'
  OBVIOUS
<1>1. << >> \in Seq(Claves) /\ Len(<< >>) = 0 /\ DOMAIN << >> = {}
  BY EmptySeq
<1>2. \A pid : EntradasDeProceso(<< >>, pid) = {}
  BY <1>1 DEF EntradasDeProceso
<1>3. \A pid : Cardinality(EntradasDeProceso(<< >>, pid)) = 0
  BY <1>2, FS_EmptySet
<1>4. CacheAcotada'
  BY <1>1, <1>3, CacheAssumption DEF CacheAcotada
<1>5. QED
  BY <1>1, <1>4 DEF CacheInv, SinRepetidas

LEMMA PasoDeLaCacheCumple ==
  IInv /\ CacheInv /\ [NextMemoria]_varsMemoria => CacheInv'
<1> SUFFICES ASSUME IInv, CacheInv, [NextMemoria]_varsMemoria
             PROVE  CacheInv'
  OBVIOUS
<1>1. CASE UNCHANGED cacheDeMemoria
  BY <1>1 DEF CacheInv, CacheAcotada, SinRepetidas
<1>2. CASE cacheDeMemoria' = << >>
  BY <1>2, VaciaCumple
<1>3. ASSUME NEW pid \in Pids, cacheDeMemoria' = limpiarProcesoDeCache(pid)
      PROVE  CacheInv'
  BY <1>3, LimpiarCumple
<1>4. ASSUME NEW pid \in Pids, NEW pagina \in Nat, estaCargadoEnCache(pid, pagina),
             cacheDeMemoria' = AlFrente(pid, pagina)
      PROVE  CacheInv'
  BY <1>4, AlFrenteCumple
<1>5. ASSUME NEW pid \in Pids, NEW pagina \in Nat, ~estaCargadoEnCache(pid, pagina),
             cacheDeMemoria' = agregarACache(pid, pagina)
      PROVE  CacheInv'
  BY <1>5, AgregarACacheCumple
<1>6. QED
  BY <1>1, <1>2, <1>3, <1>4, <1>5, PasoDeLaCache

LEMMA LaCacheSiempreCumple == SpecMemoria => []CacheInv
<1>1. InitMemoria => CacheInv
  <2> SUFFICES ASSUME InitMemoria
               PROVE  CacheInv
    OBVIOUS
  <2>1. cacheDeMemoria = << >>
    BY DEF InitMemoria
  <2>2. << >> \in Seq(Claves) /\ Len(<< >>) = 0 /\ DOMAIN << >> = {}
    BY EmptySeq
  <2>3. \A pid : EntradasDeProceso(<< >>, pid) = {}
    BY <2>2 DEF EntradasDeProceso
  <2>4. \A pid : Cardinality(EntradasDeProceso(<< >>, pid)) = 0
    BY <2>3, FS_EmptySet
  <2>5. CacheAcotada
    BY <2>1, <2>2, <2>4, CacheAssumption DEF CacheAcotada
  <2>6. QED
    BY <2>1, <2>2, <2>5 DEF CacheInv, SinRepetidas
<1>2. IInv /\ CacheInv /\ [NextMemoria]_varsMemoria => CacheInv'
  BY PasoDeLaCacheCumple
<1>3. QED
  BY <1>1, <1>2, MemoriaGuardaLaTabla, PTL DEF SpecMemoria

(* The table, the counters and the cache keep their types.                 *)
THEOREM TipoDeMemoria == SpecMemoria => []TypeOKMemoria
<1>1. IInv /\ CacheInv => TypeOKMemoria
  BY DEF IInv, CacheInv, TypeOKMemoria, Claves
<1>2. QED
  BY <1>1, MemoriaGuardaLaTabla, LaCacheSiempreCumple, PTL

(* The cache never holds more entries than ENTRADAS_CACHE, nor more of one *)
(* process than CACHE_X_PROC, for every value of the two: loads check both *)
(* limits, hits only move an entry, the end of a process takes one out.    *)
THEOREM LaCacheRespetaSusLimites == SpecMemoria => []CacheAcotada
<1>1. CacheInv => CacheAcotada
  BY DEF CacheInv
<1>2. QED
  BY <1>1, LaCacheSiempreCumple, PTL

(* No page is ever in the cache twice: a load comes after a miss, and a    *)
(* hit takes the entry out before it puts it at the top.                   *)
THEOREM CadaPaginaUnaVez == SpecMemoria => []SinRepetidas
<1>1. CacheInv => SinRepetidas
  BY DEF CacheInv
<1>2. QED
  BY <1>1, LaCacheSiempreCumple, PTL

(* What an entry that leaves the cache was.                                *)
Reemplazada(i) ==
  /\ i = ENTRADAS_CACHE
  /\ Len(cacheDeMemoria') = ENTRADAS_CACHE
  /\ cacheDeMemoria'[1] \notin ToSet(cacheDeMemoria)

DeUnTerminado(i) ==
  /\ ~paginasPorProcesos'[cacheDeMemoria[i].pid].enLista
  /\ \A j \in EntradasDeProceso(cacheDeMemoria, cacheDeMemoria[i].pid) : i <= j
  /\ cacheDeMemoria' = RemoveAt(cacheDeMemoria, i)

(* FINALIZAR_PROGRAMA makes the first entry of the process leave, and that *)
(* one only.                                                               *)
LEMMA LimpiarSacaLaPrimera ==
  ASSUME CacheInv, NEW pid \in Pids, cacheDeMemoria' = limpiarProcesoDeCache(pid),
         ~paginasPorProcesos'[pid].enLista,
         NEW i \in DOMAIN cacheDeMemoria,
         cacheDeMemoria[i] \notin ToSet(cacheDeMemoria')
  PROVE  DeUnTerminado(i)
<1> DEFINE s == cacheDeMemoria
<1>1. s \in Seq(Claves) /\ Len(s) \in Nat /\ DOMAIN s = 1 .. Len(s)
  BY LenProperties DEF CacheInv
<1>2. \E j \in 1 .. Len(s) : s[j].pid = pid
  <2> SUFFICES ASSUME ~\E j \in 1 .. Len(s) : s[j].pid = pid
               PROVE  FALSE
    OBVIOUS
  <2>1. cacheDeMemoria' = s
    BY DEF limpiarProcesoDeCache, RemoveFirstMatch
  <2>2. QED
    BY <2>1 DEF ToSet
<1>3. PICK p \in 1 .. Len(s) :
        /\ s[p].pid = pid
        /\ \A j \in EntradasDeProceso(s, pid) : p <= j
        /\ limpiarProcesoDeCache(pid) = RemoveAt(s, p)
  BY <1>1, <1>2, LimpiarSacaUna
<1>4. i = p
  <2> DEFINE t == RemoveAt(s, p)
  <2>1. /\ t \in Seq(Claves) /\ Len(t) = Len(s) - 1
        /\ \A j \in 1 .. Len(s) - 1 : t[j] = s[IF j < p THEN j ELSE j + 1]
    BY <1>1, SacarUna
  <2>2. DOMAIN t = 1 .. Len(s) - 1
    BY <2>1, LenProperties
  <2> HIDE DEF t
  <2>3. \A j \in 1 .. Len(s) - 1 : t[j] # s[i]
    BY <1>3, <2>2 DEF ToSet, t
  <2>4. i < p => i \in 1 .. Len(s) - 1 /\ t[i] = s[i]
    BY <1>1, <2>1
  <2>5. i > p => i - 1 \in 1 .. Len(s) - 1 /\ t[i - 1] = s[i]
    BY <1>1, <2>1
  <2>6. QED
    BY <1>1, <2>3, <2>4, <2>5
<1>5. QED
  BY <1>3, <1>4 DEF DeUnTerminado

(* An entry leaves the cache by a flush, as the last of a full cache that  *)
(* a page not in it takes the place of, or as the most recently used one   *)
(* of a process at its end, also when that end is asked for again.         *)
THEOREM SoloSeReemplazaLaUltima == SpecMemoria => SoloCaeElMenosUsado
<1>1. ASSUME IInv, CacheInv, [NextMemoria]_varsMemoria
      PROVE  \A i \in DOMAIN cacheDeMemoria :
               /\ cacheDeMemoria[i] \notin ToSet(cacheDeMemoria')
               /\ cacheDeMemoria' # << >>
               => Reemplazada(i) \/ DeUnTerminado(i)
  <2> SUFFICES ASSUME NEW i \in DOMAIN cacheDeMemoria,
                      cacheDeMemoria[i] \notin ToSet(cacheDeMemoria'),
                      cacheDeMemoria' # << >>
               PROVE  Reemplazada(i) \/ DeUnTerminado(i)
    OBVIOUS
  <2>1. cacheDeMemoria' # cacheDeMemoria
    BY DEF ToSet
  <2>2. ASSUME NEW pid \in Pids, NEW pagina \in Nat, estaCargadoEnCache(pid, pagina),
               cacheDeMemoria' = AlFrente(pid, pagina)
        PROVE  FALSE
    BY <1>1, <2>2, AlFrenteCumple
  <2>3. ASSUME NEW pid \in Pids, NEW pagina \in Nat, ~estaCargadoEnCache(pid, pagina),
               cacheDeMemoria' = agregarACache(pid, pagina)
        PROVE  Reemplazada(i)
    BY <1>1, <2>3, AgregarACacheCumple DEF Reemplazada
  <2>4. ASSUME NEW pid \in Pids, cacheDeMemoria' = limpiarProcesoDeCache(pid),
               ~paginasPorProcesos'[pid].enLista
        PROVE  DeUnTerminado(i)
    BY <1>1, <2>4, LimpiarSacaLaPrimera
  <2>5. QED
    BY <1>1, <2>1, <2>2, <2>3, <2>4, PasoDeLaCache
<1>2. IInv /\ CacheInv /\ [NextMemoria]_varsMemoria =>
        [\A i \in DOMAIN cacheDeMemoria :
           /\ cacheDeMemoria[i] \notin ToSet(cacheDeMemoria')
           /\ cacheDeMemoria' # << >>
           => \/ /\ i = ENTRADAS_CACHE
                 /\ Len(cacheDeMemoria') = ENTRADAS_CACHE
                 /\ cacheDeMemoria'[1] \notin ToSet(cacheDeMemoria)
              \/ /\ ~paginasPorProcesos'[cacheDeMemoria[i].pid].enLista
                 /\ \A j \in EntradasDeProceso(cacheDeMemoria, cacheDeMemoria[i].pid) : i <= j
                 /\ cacheDeMemoria' = RemoveAt(cacheDeMemoria, i)]_varsMemoria
  BY <1>1 DEF Reemplazada, DeUnTerminado
<1>3. QED
  BY <1>2, MemoriaGuardaLaTabla, LaCacheSiempreCumple, PTL DEF SpecMemoria, SoloCaeElMenosUsado
=============================================================================

-------------------------- MODULE FileSystemProofs --------------------------
(***************************************************************************)
(* The blocks of FileSystem, proved for every mount point that starts      *)
(* well, any number of names and blocks, and any history of requests, ends *)
(* and new starts of the process.                                          *)
(***************************************************************************)
EXTENDS FileSystem, FiniteSetTheorems, WellFoundedInduction, TLAPS

(* A non-empty set of naturals has a least element.                        *)
LEMMA HayMinimo ==
  ASSUME NEW T \in SUBSET Nat, T # {}
  PROVE  \E n \in T : \A m \in T : n <= m
<1> DEFINE Menor == {ss \in Nat \X Nat : ss[1] < ss[2]}
<1>1. IsWellFoundedOn(Menor, Nat)
  BY NatLessThanWellFounded, Zenon DEF OpToRel
<1>2. PICK n \in T : \A m \in T : <<m, n>> \notin Menor
  <2> HIDE DEF Menor
  <2>1. QED
    BY <1>1, WFMin
<1>3. ASSUME NEW m \in T
      PROVE  n <= m
  <2>1. <<m, n>> \notin Menor
    BY <1>2
  <2>2. ~(m < n)
    BY <2>1
  <2>3. QED
    BY <2>2
<1>4. QED
  BY <1>3

SinRepetir(lista) == \A i, j \in DOMAIN lista : lista[i] = lista[j] => i = j

DeArchivo(n) == BloquesDe(archivos[n])

ListasBien ==
  /\ SinRepetir(porLiberar)
  /\ \A n \in Nombres : SinRepetir(archivos[n].bloques)

PerdidosAparte ==
  /\ perdidos \cap PorLiberar = {}
  /\ \A n \in Nombres : DeArchivo(n) \cap perdidos = {}

(* CuentasClaras, block by block.                                          *)
Cuentas ==
  \A b \in Bloques :
    b \in marcados <=> (\E n \in Nombres : b \in DeArchivo(n)) \/ b \in PorLiberar \/ b \in perdidos

SinMapa == bitmap # "entero" => marcados = {}

(* A process that takes requests has the bitmap mapped, or found it empty. *)
MapaAlDia ==
  /\ servidor = "creando" => bitmap = "vacio"
  /\ servidor \in {"aceptando", "sirviendo", "liberando", "gira"} =>
       mapa = (bitmap = "entero") /\ bitmap \in {"vacio", "entero"}

(* A block is accounted for once: besides the two invariants, no block is  *)
(* twice in a list, and a lost one is of nobody.                           *)
Reparto == ListasBien /\ BloquesPropios /\ PerdidosAparte /\ Cuentas /\ SinMapa

IInv == TypeOK /\ Reparto /\ MapaAlDia

-----------------------------------------------------------------------------
LEMMA Numeros == cantidad_bloque \in Nat /\ MaxAbiertos \in Nat /\ 0 \in 0 .. MaxAbiertos
<1>1. cantidad_bloque \in Nat /\ MaxAbiertos \in Nat
  BY MontajesAssumption, Zenon
<1>2. QED
  BY <1>1

LEMMA ListaVacia == << >> \in Seq(Bloques)
OBVIOUS

LEMMA SinBloques ==
  /\ BloquesDe(Nada) = {} /\ BloquesDe(Directorio) = {} /\ BloquesDe(Truncado) = {}
  /\ SinRepetir(<< >>)
  /\ Nada \in Entradas /\ Directorio \in Entradas /\ Truncado \in Entradas
  /\ Nada # Directorio /\ Nada # Truncado
BY DEF BloquesDe, Nada, Directorio, Truncado, SinRepetir, Entradas

LEMMA Elementos ==
  ASSUME NEW S, NEW lista \in Seq(S)
  PROVE  {lista[i] : i \in DOMAIN lista} \subseteq S
<1>1. \A i \in DOMAIN lista : lista[i] \in S
  OBVIOUS
<1>2. QED
  BY <1>1

LEMMA DeEntrada ==
  ASSUME NEW entrada \in Entradas
  PROVE  /\ entrada.bloques \in Seq(Bloques)
         /\ BloquesDe(entrada) \subseteq Bloques
         /\ entrada.tipo # "archivo" => entrada.bloques = << >> /\ BloquesDe(entrada) = {}
<1>1. entrada.bloques \in Seq(Bloques)
      /\ (entrada.tipo # "archivo" => entrada.bloques = << >>)
  <2>1. CASE entrada \in {Nada, Directorio, Truncado}
    <3>1. entrada.bloques = << >>
      BY <2>1 DEF Nada, Directorio, Truncado
    <3>2. QED
      BY <3>1, ListaVacia
  <2>2. CASE entrada \in [tipo : {"archivo"}, bloques : Seq(Bloques)]
    BY <2>2
  <2>3. QED
    BY <2>1, <2>2 DEF Entradas
<1>2. BloquesDe(entrada) \subseteq Bloques
  BY <1>1, Elementos DEF BloquesDe
<1>3. entrada.tipo # "archivo" => BloquesDe(entrada) = {}
  BY <1>1 DEF BloquesDe
<1>4. QED
  BY <1>1, <1>2, <1>3

LEMMA Equivalen ==
  TypeOK => (Cuentas <=> CuentasClaras)
<1> SUFFICES ASSUME TypeOK
             PROVE  Cuentas <=> CuentasClaras
  OBVIOUS
<1>1. \A n \in Nombres : DeArchivo(n) \subseteq Bloques
  BY DeEntrada DEF TypeOK, DeArchivo
<1>2. PorLiberar \subseteq Bloques
  BY Elementos DEF TypeOK, PorLiberar
<1>3. Ocupados \subseteq Bloques
  BY <1>1 DEF Ocupados, DeArchivo
<1>4. \A b : b \in Ocupados <=> \E n \in Nombres : b \in DeArchivo(n)
  BY DEF Ocupados, DeArchivo
<1>5. marcados \subseteq Bloques /\ perdidos \subseteq Bloques
  BY DEF TypeOK
<1>6. QED
  BY <1>2, <1>3, <1>4, <1>5 DEF Cuentas, CuentasClaras

-----------------------------------------------------------------------------
LEMMA InvInicial == Init => IInv
<1> SUFFICES ASSUME Init
             PROVE  IInv
  OBVIOUS
<1>1. PICK m \in Montajes :
        /\ archivos = m.archivos /\ bitmap = m.bitmap
        /\ marcados = m.marcados /\ bines = m.marcados
  BY DEF Init
<1>2. servidor = "apagado" /\ mapa = FALSE /\ abiertos = 0 /\ porLiberar = << >>
      /\ cliente = "afuera" /\ pedido = SinPedido /\ perdidos = {}
  BY DEF Init
<1>3. /\ archivos \in [Nombres -> Entradas] /\ bitmap \in {"falta", "vacio", "entero"}
      /\ \A n \in Nombres :
           LET b == archivos[n].bloques IN
           /\ \A i, j \in DOMAIN b : b[i] = b[j] => i = j
           /\ \A o \in Nombres \ {n} : BloquesDe(archivos[n]) \cap BloquesDe(archivos[o]) = {}
  BY <1>1, MontajesAssumption
<1>4. marcados = UNION {DeArchivo(n) : n \in Nombres}
  BY <1>1, MontajesAssumption DEF DeArchivo
<1>5. \A n \in Nombres : DeArchivo(n) \subseteq Bloques
  BY <1>3, DeEntrada DEF DeArchivo
<1>6. PorLiberar = {} /\ SinRepetir(porLiberar)
  BY <1>2 DEF PorLiberar, SinRepetir
<1>7. TypeOK
  <2>1. marcados \subseteq Bloques
    BY <1>4, <1>5
  <2>2. bines \subseteq Bloques
    BY <1>1, <2>1
  <2>3. abiertos \in 0 .. MaxAbiertos
    BY <1>2, Numeros
  <2>4. pedido.op = "" /\ porLiberar \in Seq(Bloques)
    <3>1. << >> \in Seq(Bloques)
      OBVIOUS
    <3>2. QED
      BY <1>2, <3>1 DEF SinPedido
  <2>5. QED
    BY <1>2, <1>3, <2>1, <2>2, <2>3, <2>4 DEF TypeOK
<1>8. ListasBien
  BY <1>3, <1>6 DEF ListasBien, SinRepetir
<1>9. BloquesPropios
  BY <1>3, <1>4, <1>6 DEF BloquesPropios, DeArchivo
<1>10. PerdidosAparte
  BY <1>2 DEF PerdidosAparte
<1>11. Cuentas
  BY <1>4, <1>6, <1>2 DEF Cuentas
<1>12. SinMapa
  BY <1>1, MontajesAssumption DEF SinMapa
<1>13. MapaAlDia
  BY <1>2 DEF MapaAlDia
<1>14. QED
  BY <1>7, <1>8, <1>9, <1>10, <1>11, <1>12, <1>13 DEF IInv, Reparto

-----------------------------------------------------------------------------
(* Types.                                                                  *)

LEMMA TipoResponder ==
  ASSUME NEW r, Responder(r)
  PROVE  /\ servidor' \in {"sirviendo", "gira", "caido"}
         /\ cliente' \in {"conectado", "cortado"}
         /\ cliente' = "conectado" => servidor' = "sirviendo"
         /\ pedido'.op = ""
<1>1. cliente \in {"espera", "cortado"}
  BY DEF Responder
<1>2. pedido'.op = ""
  BY DEF Responder, SinPedido
<1>3. QED
  BY <1>1, <1>2 DEF Responder

LEMMA TipoTerminar ==
  ASSUME NEW como, Terminar(como)
  PROVE  /\ servidor' = como /\ cliente' = "afuera" /\ pedido'.op = "" /\ porLiberar' = << >>
         /\ bitmap' = bitmap /\ mapa' = mapa /\ marcados' = marcados
         /\ bines' = bines /\ abiertos' = abiertos
BY DEF Terminar, SinPedido

LEMMA TipoArchivos ==
  ASSUME TypeOK, NEW n \in Nombres, NEW e \in {Nada, Directorio, Truncado}
  PROVE  [archivos EXCEPT ![n] = e] \in [Nombres -> Entradas]
BY SinBloques DEF TypeOK

LEMMA TrasTerminar ==
  ASSUME TypeOK, NEW como \in {"apagado", "caido"}, Terminar(como),
         archivos' \in [Nombres -> Entradas], perdidos' \subseteq Bloques
  PROVE  TypeOK'
<1>1. /\ servidor' = como /\ cliente' = "afuera" /\ pedido'.op = "" /\ porLiberar' = << >>
      /\ bitmap' = bitmap /\ mapa' = mapa /\ marcados' = marcados
      /\ bines' = bines /\ abiertos' = abiertos
  BY TipoTerminar
<1>2. porLiberar' \in Seq(Bloques)
  BY <1>1, ListaVacia
<1>3. QED
  BY <1>1, <1>2 DEF TypeOK

LEMMA UnoMas ==
  ASSUME NEW a \in 0 .. MaxAbiertos, a < MaxAbiertos
  PROVE  a + 1 \in 0 .. MaxAbiertos
BY Numeros

LEMMA Cola ==
  ASSUME NEW S, NEW lista \in Seq(S), lista # << >>
  PROVE  Tail(lista) \in Seq(S)
OBVIOUS

LEMMA TiposSiguen == TypeOK /\ [Next]_vars => TypeOK'
<1> SUFFICES ASSUME TypeOK, [Next]_vars
             PROVE  TypeOK'
  OBVIOUS
<1> USE DEF TypeOK
<1>1. CASE crearBitmap \/ limpiarBitarray \/ inicializarMmap
  <2>1. 0 \in 0 .. MaxAbiertos
    BY Numeros
  <2>2. marcados' \subseteq Bloques /\ mapa' \in BOOLEAN
        /\ bitmap' \in {"falta", "vacio", "entero"}
    BY <1>1 DEF crearBitmap, limpiarBitarray, inicializarMmap, Mapeado
  <2>3. porLiberar = << >> /\ pedido.op = "" /\ cliente # "conectado"
    BY <1>1 DEF crearBitmap, limpiarBitarray, inicializarMmap
  <2>4. PICK como \in {"creando", "aceptando"} : Arrancar(como)
    BY <1>1 DEF crearBitmap, limpiarBitarray, inicializarMmap
  <2>5. QED
    BY <2>1, <2>2, <2>3, <2>4 DEF Arrancar, conexion
<1>2. CASE Matar
  <2>1. PorLiberar \subseteq Bloques
    BY Elementos DEF PorLiberar
  <2>2. Terminar("apagado") /\ perdidos' = perdidos \cup PorLiberar /\ archivos' = archivos
    BY <1>2 DEF Matar
  <2>3. QED
    BY <2>1, <2>2, TrasTerminar
<1>3. CASE recibirHandshakeDeKernel
  BY <1>3 DEF recibirHandshakeDeKernel, disco
<1>4. CASE \E op \in Operaciones, n \in Nombres, path \in Paths : Pedir(op, n, path)
  <2>1. PICK op \in Operaciones, n \in Nombres, path \in Paths : Pedir(op, n, path)
    BY <1>4
  <2>2. pedido'.op = op /\ pedido'.nombre = n /\ pedido'.path = path
    BY <2>1 DEF Pedir
  <2>3. servidor # "liberando"
    BY <2>1 DEF Pedir
  <2>4. QED
    BY <2>1, <2>2, <2>3 DEF Pedir, disco
<1>5. CASE Cortar
  BY <1>5 DEF Cortar, disco
<1>6. CASE validarArchivo
  <2>1. PICK r \in {EXISTE_ARCHIVO, NO_EXISTE_ARCHIVO} : Responder(r)
    BY <1>6 DEF validarArchivo
  <2>2. abiertos' \in 0 .. MaxAbiertos
    <3>1. abiertos' = abiertos \/ (abiertos < MaxAbiertos /\ abiertos' = abiertos + 1)
      BY <1>6 DEF validarArchivo, PuedeAbrir
    <3>2. abiertos \in 0 .. MaxAbiertos
      OBVIOUS
    <3>3. QED
      BY <3>1, <3>2, UnoMas
  <2>3. UNCHANGED << disco, mapa, porLiberar >> /\ porLiberar = << >>
    BY <1>6 DEF validarArchivo, Atiende
  <2>4. QED
    BY <2>1, <2>2, <2>3, TipoResponder DEF disco
<1>7. CASE crearArchivo
  <2>1. porLiberar = << >> /\ pedido.op # "" /\ pedido.nombre \in Nombres
    BY <1>7 DEF crearArchivo, Atiende
  <2>2. PICK entrada \in Vistas(pedido.nombre) : \E hechos \in TrasMkdir(pedido.nombre, entrada) :
       \/ /\ archivos' = hechos
          /\ Terminar("caido")
          /\ UNCHANGED perdidos
       \/ /\ archivos' = hechos
          /\ Responder(OPERACION_FALLIDA)
          /\ UNCHANGED << bitmap, mapa, marcados, bines, abiertos, porLiberar, perdidos >>
       \/ asignarBloqueArchivo(pedido.nombre, entrada, hechos)
    BY <1>7 DEF crearArchivo
  <2>3. PICK hechos \in TrasMkdir(pedido.nombre, entrada) :
       \/ /\ archivos' = hechos
          /\ Terminar("caido")
          /\ UNCHANGED perdidos
       \/ /\ archivos' = hechos
          /\ Responder(OPERACION_FALLIDA)
          /\ UNCHANGED << bitmap, mapa, marcados, bines, abiertos, porLiberar, perdidos >>
       \/ asignarBloqueArchivo(pedido.nombre, entrada, hechos)
    BY <2>2
  <2>4. hechos \in [Nombres -> Entradas]
    BY <2>1, TipoArchivos DEF TrasMkdir
  <2>5. CASE /\ archivos' = hechos
             /\ Responder(OPERACION_FALLIDA)
             /\ UNCHANGED << bitmap, mapa, marcados, bines, abiertos, porLiberar, perdidos >>
    <3>1. /\ servidor' \in {"sirviendo", "gira", "caido"}
          /\ cliente' \in {"conectado", "cortado"}
          /\ cliente' = "conectado" => servidor' = "sirviendo"
          /\ pedido'.op = ""
      BY <2>5, TipoResponder
    <3>2. QED
      BY <2>1, <2>4, <2>5, <3>1
  <2>6. CASE asignarBloqueArchivo(pedido.nombre, entrada, hechos)
    <3>1. Terminar("caido")
      BY <2>6 DEF asignarBloqueArchivo
    <3>2. archivos' \in [Nombres -> Entradas]
      <4>1. archivos' = hechos \/ archivos' = [archivos EXCEPT ![pedido.nombre] = Truncado]
        BY <2>6 DEF asignarBloqueArchivo
      <4>2. QED
        BY <4>1, <2>1, <2>4, TipoArchivos
    <3>3. entrada \in Entradas
      BY <2>1, SinBloques DEF Vistas
    <3>4. perdidos' \subseteq Bloques
      BY <2>6, <3>3, DeEntrada DEF asignarBloqueArchivo
    <3>5. QED
      BY <3>1, <3>2, <3>4, TrasTerminar
  <2>7. CASE archivos' = hechos /\ Terminar("caido") /\ UNCHANGED perdidos
    BY <2>4, <2>7, TrasTerminar
  <2>8. QED
    BY <2>3, <2>5, <2>6, <2>7
<1>8. CASE seBorroArchivoDeFS
  <2>1. porLiberar = << >> /\ pedido.op = "borrar" /\ pedido.nombre \in Nombres
        /\ servidor = "sirviendo"
    BY <1>8 DEF seBorroArchivoDeFS, Atiende
  <2>2. PICK entrada \in VistasSinBarra(pedido.nombre, pedido.path) :
       \/ /\ archivos' = [archivos EXCEPT ![pedido.nombre] = Nada]
          /\ servidor' = "liberando"
          /\ porLiberar' = entrada.bloques
          /\ UNCHANGED << bitmap, mapa, marcados, bines, perdidos, abiertos, conexion >>
       \/ /\ Responder(OPERACION_FALLIDA)
          /\ UNCHANGED << disco, mapa, abiertos, porLiberar >>
       \/ /\ Terminar("caido")
          /\ UNCHANGED << archivos, perdidos >>
    BY <1>8 DEF seBorroArchivoDeFS
  <2>3. entrada \in Entradas
    <3>1. Nada \in Entradas /\ archivos[pedido.nombre] \in Entradas
      BY <2>1, SinBloques
    <3>2. entrada = Nada \/ entrada = archivos[pedido.nombre]
      <4> HIDE DEF TypeOK
      <4>1. QED
        BY Zenon DEF Vistas, VistasSinBarra
    <3>3. QED
      BY <3>1, <3>2
  <2>4. CASE /\ archivos' = [archivos EXCEPT ![pedido.nombre] = Nada]
             /\ servidor' = "liberando"
             /\ porLiberar' = entrada.bloques
             /\ UNCHANGED << bitmap, mapa, marcados, bines, perdidos, abiertos, conexion >>
    <3>1. porLiberar' \in Seq(Bloques)
      BY <2>3, <2>4, DeEntrada
    <3>2. archivos' \in [Nombres -> Entradas]
      BY <2>1, <2>4, TipoArchivos
    <3>3. cliente # "conectado"
      BY <2>1
    <3>4. QED
      BY <2>1, <2>4, <3>1, <3>2, <3>3 DEF conexion
  <2>5. CASE Terminar("caido") /\ UNCHANGED << archivos, perdidos >>
    BY <2>5, TrasTerminar
  <2>6. CASE /\ Responder(OPERACION_FALLIDA)
             /\ UNCHANGED << disco, mapa, abiertos, porLiberar >>
    <3>1. /\ servidor' \in {"sirviendo", "gira", "caido"}
          /\ cliente' \in {"conectado", "cortado"}
          /\ cliente' = "conectado" => servidor' = "sirviendo"
          /\ pedido'.op = ""
      BY <2>6, TipoResponder
    <3>2. QED
      BY <2>1, <2>6, <3>1 DEF disco
  <2>7. QED
    BY <2>2, <2>4, <2>5, <2>6
<1>9. CASE liberarBloques
  <2>1. Tail(porLiberar) \in Seq(Bloques)
    <3>1. porLiberar \in Seq(Bloques) /\ porLiberar # << >>
      BY <1>9 DEF liberarBloques
    <3>2. QED
      BY <3>1, Cola
  <2>2. QED
    BY <1>9, <2>1 DEF liberarBloques, Siguientes, Liberados, conexion
<1>10. CASE ArchivoBorrado
  <2>1. /\ servidor' \in {"sirviendo", "gira", "caido"}
        /\ cliente' \in {"conectado", "cortado"}
        /\ cliente' = "conectado" => servidor' = "sirviendo"
        /\ pedido'.op = ""
    BY <1>10, TipoResponder DEF ArchivoBorrado
  <2>2. QED
    BY <1>10, <2>1 DEF ArchivoBorrado, disco
<1>11. CASE CopiarDeMas \/ CortoKernel
  <2>1. Terminar("caido") /\ UNCHANGED << archivos, perdidos >>
    BY <1>11 DEF CopiarDeMas, CortoKernel
  <2>2. QED
    BY <2>1, TrasTerminar
<1>12. CASE Girar
  BY <1>12 DEF Girar, disco, conexion
<1>13. CASE UNCHANGED vars
  BY <1>13 DEF vars, disco, conexion
<1>14. QED
  BY <1>1, <1>2, <1>3, <1>4, <1>5, <1>6, <1>7, <1>8, <1>9, <1>10, <1>11, <1>12, <1>13
     DEF Next, Bucle
-----------------------------------------------------------------------------
(* The blocks.                                                             *)

LEMMA Quieto ==
  ASSUME Reparto, \A n \in Nombres : archivos'[n].bloques = archivos[n].bloques,
         marcados' = marcados, perdidos' = perdidos, porLiberar' = porLiberar,
         bitmap' = bitmap \/ marcados = {}
  PROVE  Reparto'
<1>1. \A n \in Nombres : DeArchivo(n)' = DeArchivo(n)
  BY DEF DeArchivo, BloquesDe
<1>2. PorLiberar' = PorLiberar
  BY DEF PorLiberar
<1>3. ListasBien'
  BY DEF Reparto, ListasBien, SinRepetir
<1>4. BloquesPropios'
  BY <1>1, <1>2 DEF Reparto, BloquesPropios, DeArchivo
<1>5. PerdidosAparte'
  BY <1>1, <1>2 DEF Reparto, PerdidosAparte
<1>6. Cuentas'
  BY <1>1, <1>2 DEF Reparto, Cuentas
<1>7. SinMapa'
  BY DEF Reparto, SinMapa
<1>8. QED
  BY <1>3, <1>4, <1>5, <1>6, <1>7 DEF Reparto

(* The blocks that were being released are lost.                           *)
LEMMA AlMatar ==
  ASSUME Reparto, archivos' = archivos, marcados' = marcados, porLiberar' = << >>,
         perdidos' = perdidos \cup PorLiberar, bitmap' = bitmap
  PROVE  Reparto'
<1>1. \A n \in Nombres : DeArchivo(n)' = DeArchivo(n)
  BY DEF DeArchivo
<1>2. PorLiberar' = {}
  BY DEF PorLiberar
<1>3. ListasBien'
  BY DEF Reparto, ListasBien, SinRepetir
<1>4. BloquesPropios'
  BY <1>1, <1>2 DEF Reparto, BloquesPropios, DeArchivo
<1>5. PerdidosAparte'
  BY <1>1, <1>2 DEF Reparto, PerdidosAparte, BloquesPropios, DeArchivo
<1>6. Cuentas'
  BY <1>1, <1>2 DEF Reparto, Cuentas
<1>7. SinMapa'
  BY DEF Reparto, SinMapa
<1>8. QED
  BY <1>3, <1>4, <1>5, <1>6, <1>7 DEF Reparto

(* A file is emptied, and its blocks lost, or it is removed, and they are  *)
(* about to be released.                                                   *)
LEMMA AlDejarDeSer ==
  ASSUME TypeOK, Reparto, NEW n \in Nombres, NEW e \in {Nada, Truncado},
         archivos' = [archivos EXCEPT ![n] = e], marcados' = marcados, bitmap' = bitmap,
         porLiberar = << >>,
         \/ porLiberar' = << >> /\ perdidos' = perdidos \cup DeArchivo(n)
         \/ porLiberar' = archivos[n].bloques /\ perdidos' = perdidos
  PROVE  Reparto'
<1>1. \A o \in Nombres : o # n => archivos'[o] = archivos[o] /\ DeArchivo(o)' = DeArchivo(o)
  BY DEF DeArchivo, TypeOK
<1>2. archivos'[n] = e /\ DeArchivo(n)' = {}
  BY SinBloques DEF DeArchivo, TypeOK
<1>3. PorLiberar = {}
  BY DEF PorLiberar
<1>4. \/ PorLiberar' = {} /\ perdidos' = perdidos \cup DeArchivo(n)
      \/ PorLiberar' = DeArchivo(n) /\ perdidos' = perdidos
  BY DEF PorLiberar, DeArchivo, BloquesDe
<1>5. ListasBien'
  <2>1. SinRepetir(porLiberar)'
    BY SinBloques DEF Reparto, ListasBien, SinRepetir
  <2>2. SinRepetir(e.bloques)
    BY SinBloques DEF Nada, Truncado
  <2>3. QED
    BY <1>1, <1>2, <2>1, <2>2 DEF Reparto, ListasBien, SinRepetir
<1>6. \A o, p \in Nombres : o # p => DeArchivo(o) \cap DeArchivo(p) = {}
  BY DEF Reparto, BloquesPropios, DeArchivo
<1>7. \A o \in Nombres : DeArchivo(o) \subseteq marcados
  BY DEF Reparto, BloquesPropios, DeArchivo
<1>8. \A o \in Nombres : /\ DeArchivo(o)' \subseteq marcados'
                        /\ DeArchivo(o)' \cap PorLiberar' = {}
                        /\ \A p \in Nombres \ {o} : DeArchivo(o)' \cap DeArchivo(p)' = {}
  BY <1>1, <1>2, <1>4, <1>6, <1>7
<1>9. BloquesPropios'
  BY <1>8 DEF BloquesPropios, DeArchivo
<1>10. PerdidosAparte'
  BY <1>1, <1>2, <1>4, <1>6 DEF Reparto, PerdidosAparte
<1>11. Cuentas'
  BY <1>1, <1>2, <1>3, <1>4 DEF Reparto, Cuentas
<1>12. SinMapa'
  BY DEF Reparto, SinMapa
<1>13. QED
  BY <1>5, <1>9, <1>10, <1>11, <1>12 DEF Reparto

(* A block at the head of a list that has it once is not in its tail.      *)
LEMMA Cabeza ==
  ASSUME NEW lista \in Seq(Bloques), lista # << >>, SinRepetir(lista)
  PROVE  /\ SinRepetir(Tail(lista))
         /\ {Tail(lista)[i] : i \in DOMAIN Tail(lista)}
              = {lista[i] : i \in DOMAIN lista} \ {Head(lista)}
         /\ Head(lista) \in {lista[i] : i \in DOMAIN lista}
<1>1. Len(lista) \in Nat \ {0} /\ DOMAIN lista = 1 .. Len(lista) /\ Head(lista) = lista[1]
  OBVIOUS
<1>2. DOMAIN Tail(lista) = 1 .. (Len(lista) - 1)
      /\ \A i \in 1 .. (Len(lista) - 1) : Tail(lista)[i] = lista[i + 1]
  BY <1>1
<1>3. \A i \in 1 .. (Len(lista) - 1) : i + 1 \in DOMAIN lista /\ i + 1 # 1
  BY <1>1
<1>4. \A j \in DOMAIN lista : j # 1 => j - 1 \in 1 .. (Len(lista) - 1) /\ (j - 1) + 1 = j
  BY <1>1
<1>5. SinRepetir(Tail(lista))
  BY <1>2, <1>3 DEF SinRepetir
<1>6. 1 \in DOMAIN lista
  BY <1>1
<1>7. \A j \in DOMAIN lista : lista[j] = Head(lista) <=> j = 1
  BY <1>1, <1>6 DEF SinRepetir
<1>8. ASSUME NEW b \in {Tail(lista)[i] : i \in DOMAIN Tail(lista)}
      PROVE  b \in {lista[i] : i \in DOMAIN lista} \ {Head(lista)}
  <2>1. PICK i \in 1 .. (Len(lista) - 1) : b = lista[i + 1]
    BY <1>2, <1>8
  <2>2. QED
    BY <2>1, <1>3, <1>7
<1>9. ASSUME NEW b \in {lista[i] : i \in DOMAIN lista} \ {Head(lista)}
      PROVE  b \in {Tail(lista)[i] : i \in DOMAIN Tail(lista)}
  <2>1. PICK j \in DOMAIN lista : b = lista[j] /\ j # 1
    BY <1>7, <1>9
  <2>2. j - 1 \in DOMAIN Tail(lista) /\ Tail(lista)[j - 1] = b
    BY <2>1, <1>2, <1>4
  <2>3. QED
    BY <2>2
<1>10. QED
  BY <1>1, <1>5, <1>6, <1>8, <1>9

LEMMA AlLiberar ==
  ASSUME TypeOK, Reparto, liberarBloques
  PROVE  Reparto'
<1> DEFINE b == Head(porLiberar)
<1>1. /\ porLiberar \in Seq(Bloques) /\ porLiberar # << >>
      /\ archivos' = archivos /\ bitmap' = bitmap /\ perdidos' = perdidos
      /\ marcados' = marcados \ {b} /\ porLiberar' = Tail(porLiberar)
  BY DEF liberarBloques, TypeOK, Siguientes, Liberados
<1>2. SinRepetir(porLiberar)
  BY DEF Reparto, ListasBien
<1>3. SinRepetir(porLiberar)' /\ PorLiberar' = PorLiberar \ {b} /\ b \in PorLiberar
  <2>1. /\ SinRepetir(Tail(porLiberar))
        /\ {Tail(porLiberar)[i] : i \in DOMAIN Tail(porLiberar)}
             = {porLiberar[i] : i \in DOMAIN porLiberar} \ {b}
        /\ b \in {porLiberar[i] : i \in DOMAIN porLiberar}
    BY <1>1, <1>2, Cabeza
  <2>2. SinRepetir(porLiberar)'
    BY <1>1, <2>1 DEF SinRepetir
  <2>3. PorLiberar = {porLiberar[i] : i \in DOMAIN porLiberar}
        /\ PorLiberar' = {porLiberar'[i] : i \in DOMAIN porLiberar'}
    BY DEF PorLiberar
  <2> HIDE DEF b
  <2>4. QED
    BY <1>1, <2>1, <2>2, <2>3
<1> HIDE DEF b
<1>4. \A n \in Nombres : DeArchivo(n)' = DeArchivo(n) /\ b \notin DeArchivo(n)
  BY <1>1, <1>3 DEF DeArchivo, Reparto, BloquesPropios
<1>5. b \notin perdidos
  BY <1>3 DEF Reparto, PerdidosAparte
<1>6. ListasBien'
  BY <1>1, <1>3 DEF Reparto, ListasBien, SinRepetir
<1>7. BloquesPropios'
  BY <1>1, <1>3, <1>4 DEF Reparto, BloquesPropios, DeArchivo
<1>8. PerdidosAparte'
  BY <1>1, <1>3, <1>4 DEF Reparto, PerdidosAparte
<1>9. Cuentas'
  BY <1>1, <1>3, <1>4, <1>5 DEF Reparto, Cuentas
<1>10. SinMapa'
  BY <1>1 DEF Reparto, SinMapa
<1>11. QED
  BY <1>6, <1>7, <1>8, <1>9, <1>10 DEF Reparto

(* What a request does to what lasts: a creation and a removal.            *)
LEMMA AlCrear ==
  ASSUME TypeOK, crearArchivo
  PROVE  /\ pedido.nombre \in Nombres /\ porLiberar = << >> /\ porLiberar' = << >>
         /\ marcados' = marcados /\ bitmap' = bitmap
         /\ \/ archivos' = archivos /\ perdidos' = perdidos
            \/ /\ archivos[pedido.nombre] = Nada
               /\ archivos' = [archivos EXCEPT ![pedido.nombre] = Directorio]
               /\ perdidos' = perdidos
            \/ /\ archivos[pedido.nombre].tipo = "archivo"
               /\ archivos' = [archivos EXCEPT ![pedido.nombre] = Truncado]
               /\ perdidos' = perdidos \cup DeArchivo(pedido.nombre)
<1>1. porLiberar = << >> /\ pedido.nombre \in Nombres
  BY DEF crearArchivo, Atiende, TypeOK
<1>2. PICK entrada \in Vistas(pedido.nombre) : \E hechos \in TrasMkdir(pedido.nombre, entrada) :
       \/ /\ archivos' = hechos
          /\ UNCHANGED << bitmap, marcados, perdidos >> /\ porLiberar' = << >>
       \/ asignarBloqueArchivo(pedido.nombre, entrada, hechos)
  BY <1>1 DEF crearArchivo, Terminar
<1>3. PICK hechos \in TrasMkdir(pedido.nombre, entrada) :
       \/ /\ archivos' = hechos
          /\ UNCHANGED << bitmap, marcados, perdidos >> /\ porLiberar' = << >>
       \/ asignarBloqueArchivo(pedido.nombre, entrada, hechos)
  BY <1>2
<1>4. \/ hechos = archivos
      \/ archivos[pedido.nombre] = Nada
         /\ hechos = [archivos EXCEPT ![pedido.nombre] = Directorio]
  BY DEF TrasMkdir
<1>5. CASE /\ archivos' = hechos
           /\ UNCHANGED << bitmap, marcados, perdidos >> /\ porLiberar' = << >>
  BY <1>1, <1>4, <1>5
<1>6. CASE asignarBloqueArchivo(pedido.nombre, entrada, hechos)
  <2>1. porLiberar' = << >> /\ marcados' = marcados /\ bitmap' = bitmap
    BY <1>6 DEF asignarBloqueArchivo, Terminar
  <2>2. CASE entrada.tipo = "archivo" /\ PuedeAbrir
    <3>1. entrada = archivos[pedido.nombre]
      BY <2>2 DEF Vistas, Nada
    <3>2. archivos' = [archivos EXCEPT ![pedido.nombre] = Truncado]
          /\ perdidos' = perdidos \cup BloquesDe(entrada)
      BY <1>6, <2>2 DEF asignarBloqueArchivo
    <3>3. QED
      BY <1>1, <2>1, <2>2, <3>1, <3>2 DEF DeArchivo
  <2>3. CASE entrada.tipo # "archivo" \/ ~PuedeAbrir
    <3>1. archivos' = hechos /\ perdidos' = perdidos
      BY <1>6, <2>3 DEF asignarBloqueArchivo
    <3>2. QED
      BY <1>1, <1>4, <2>1, <3>1
  <2>4. QED
    BY <2>2, <2>3
<1>7. QED
  BY <1>3, <1>5, <1>6

LEMMA AlBorrar ==
  ASSUME TypeOK, seBorroArchivoDeFS
  PROVE  /\ pedido.nombre \in Nombres /\ porLiberar = << >>
         /\ marcados' = marcados /\ bitmap' = bitmap /\ perdidos' = perdidos
         /\ \/ archivos' = archivos /\ porLiberar' = porLiberar
            \/ /\ archivos[pedido.nombre].tipo = "archivo"
               /\ archivos' = [archivos EXCEPT ![pedido.nombre] = Nada]
               /\ porLiberar' = archivos[pedido.nombre].bloques
<1>1. porLiberar = << >> /\ pedido.nombre \in Nombres
  BY DEF seBorroArchivoDeFS, Atiende, TypeOK
<1>2. PICK entrada \in VistasSinBarra(pedido.nombre, pedido.path) :
       \/ /\ entrada.tipo = "archivo"
          /\ archivos' = [archivos EXCEPT ![pedido.nombre] = Nada]
          /\ porLiberar' = entrada.bloques
          /\ UNCHANGED << bitmap, mapa, marcados, bines, perdidos, abiertos, conexion >>
       \/ UNCHANGED << disco, porLiberar >>
       \/ /\ Terminar("caido")
          /\ UNCHANGED << archivos, perdidos >>
  BY DEF seBorroArchivoDeFS
<1>3. entrada.tipo = "archivo" => entrada = archivos[pedido.nombre]
  <2>1. entrada \in {archivos[pedido.nombre], Nada}
    <3>1. CASE pedido.path = "sin barra"
      BY <3>1 DEF VistasSinBarra
    <3>2. CASE pedido.path # "sin barra"
      BY <3>2 DEF VistasSinBarra, Vistas
    <3>3. QED
      BY <3>1, <3>2
  <2>2. QED
    BY <2>1 DEF Nada
<1>4. CASE /\ entrada.tipo = "archivo"
           /\ archivos' = [archivos EXCEPT ![pedido.nombre] = Nada]
           /\ porLiberar' = entrada.bloques
           /\ UNCHANGED << bitmap, mapa, marcados, bines, perdidos, abiertos, conexion >>
  BY <1>1, <1>3, <1>4
<1>5. CASE Terminar("caido") /\ UNCHANGED << archivos, perdidos >>
  BY <1>1, <1>5 DEF Terminar
<1>6. CASE UNCHANGED << disco, porLiberar >>
  BY <1>1, <1>6 DEF disco
<1>7. QED
  BY <1>2, <1>4, <1>5, <1>6

(* The other steps leave the blocks where they are.                        *)
LosDemas ==
  \/ recibirHandshakeDeKernel
  \/ \E op \in Operaciones, n \in Nombres, path \in Paths : Pedir(op, n, path)
  \/ Cortar \/ validarArchivo \/ ArchivoBorrado \/ CopiarDeMas \/ CortoKernel \/ Girar
  \/ UNCHANGED vars

LEMMA DelResto ==
  ASSUME TypeOK, LosDemas
  PROVE  UNCHANGED << archivos, bitmap, marcados, perdidos, porLiberar >>
<1>1. CASE CopiarDeMas \/ CortoKernel
  BY <1>1 DEF CopiarDeMas, CortoKernel, Terminar, Atiende, TypeOK
<1>2. CASE validarArchivo \/ ArchivoBorrado
  BY <1>2 DEF validarArchivo, ArchivoBorrado, disco
<1>3. CASE \/ recibirHandshakeDeKernel \/ Cortar \/ Girar \/ UNCHANGED vars
           \/ \E op \in Operaciones, n \in Nombres, path \in Paths : Pedir(op, n, path)
  BY <1>3 DEF recibirHandshakeDeKernel, Cortar, Girar, Pedir, vars, disco
<1>4. QED
  BY <1>1, <1>2, <1>3 DEF LosDemas

LEMMA Pasos ==
  [Next]_vars =>
    \/ crearBitmap \/ limpiarBitarray \/ inicializarMmap \/ Matar
    \/ crearArchivo \/ seBorroArchivoDeFS \/ liberarBloques \/ LosDemas
BY DEF Next, Bucle, LosDemas

LEMMA MapaSigue == TypeOK /\ MapaAlDia /\ [Next]_vars => MapaAlDia'
<1> SUFFICES ASSUME TypeOK, MapaAlDia, [Next]_vars
             PROVE  MapaAlDia'
  OBVIOUS
<1> DEFINE Igual == bitmap' = bitmap /\ mapa' = mapa
           Toma == servidor \in {"aceptando", "sirviendo", "liberando", "gira"}
<1>1. CASE crearBitmap \/ limpiarBitarray \/ inicializarMmap
  BY <1>1 DEF crearBitmap, limpiarBitarray, inicializarMmap, Arrancar, MapaAlDia, TypeOK
<1>2. ASSUME NEW como \in {"apagado", "caido"}, Terminar(como)
      PROVE  MapaAlDia'
  BY <1>2 DEF Terminar, MapaAlDia
<1>3. ASSUME Igual, servidor' = servidor
      PROVE  MapaAlDia'
  BY <1>3 DEF MapaAlDia
<1>4. ASSUME Igual, Toma, servidor' # "creando"
      PROVE  MapaAlDia'
  BY <1>4 DEF MapaAlDia
<1>5. CASE Matar \/ CopiarDeMas \/ CortoKernel
  BY <1>2, <1>5 DEF Matar, CopiarDeMas, CortoKernel
<1>6. CASE crearArchivo
  <2>1. Toma
    BY <1>6 DEF crearArchivo, Atiende
  <2>2. Terminar("caido") \/ (Igual /\ servidor' # "creando")
    BY <1>6 DEF crearArchivo, asignarBloqueArchivo, Responder
  <2>3. QED
    BY <1>2, <1>4, <2>1, <2>2
<1>7. CASE seBorroArchivoDeFS
  <2>1. Toma
    BY <1>7 DEF seBorroArchivoDeFS, Atiende
  <2>2. Terminar("caido") \/ (Igual /\ servidor' # "creando")
    BY <1>7 DEF seBorroArchivoDeFS, Responder, disco
  <2>3. QED
    BY <1>2, <1>4, <2>1, <2>2
<1>8. CASE recibirHandshakeDeKernel \/ validarArchivo \/ ArchivoBorrado \/ Girar
  BY <1>8, <1>4 DEF recibirHandshakeDeKernel, validarArchivo, ArchivoBorrado, Girar, Responder,
       Atiende, disco
<1>9. CASE liberarBloques \/ Cortar \/ UNCHANGED vars
           \/ \E op \in Operaciones, n \in Nombres, path \in Paths : Pedir(op, n, path)
  BY <1>9, <1>3 DEF liberarBloques, Cortar, Pedir, vars, disco
<1>10. QED
  BY <1>1, <1>5, <1>6, <1>7, <1>8, <1>9 DEF Next, Bucle

LEMMA RepartoSigue == TypeOK /\ Reparto /\ MapaAlDia /\ [Next]_vars => Reparto'
<1> SUFFICES ASSUME TypeOK, Reparto, MapaAlDia, [Next]_vars
             PROVE  Reparto'
  OBVIOUS
<1>1. CASE crearBitmap \/ limpiarBitarray \/ inicializarMmap
  <2>1. marcados' = marcados /\ (bitmap' = bitmap \/ marcados = {})
    BY <1>1 DEF crearBitmap, limpiarBitarray, inicializarMmap, Mapeado, Reparto, SinMapa, MapaAlDia
  <2>2. archivos' = archivos /\ perdidos' = perdidos /\ porLiberar' = porLiberar
    BY <1>1 DEF crearBitmap, limpiarBitarray, inicializarMmap, Arrancar
  <2>3. QED
    BY <2>1, <2>2, Quieto
<1>2. CASE Matar
  BY <1>2, AlMatar DEF Matar, Terminar
<1>3. CASE crearArchivo
  <2>1. CASE archivos' = archivos /\ perdidos' = perdidos
    BY <1>3, <2>1, AlCrear, Quieto
  <2>2. CASE /\ archivos[pedido.nombre] = Nada
             /\ archivos' = [archivos EXCEPT ![pedido.nombre] = Directorio]
             /\ perdidos' = perdidos
    <3>1. \A n \in Nombres : archivos'[n].bloques = archivos[n].bloques
      <4>1. Nada.bloques = Directorio.bloques
        BY DEF Nada, Directorio
      <4>2. pedido.nombre \in Nombres /\ archivos \in [Nombres -> Entradas]
        BY <1>3, AlCrear DEF TypeOK
      <4>3. QED
        BY <2>2, <4>1, <4>2
    <3>2. QED
      BY <1>3, <2>2, <3>1, AlCrear, Quieto
  <2>3. CASE /\ archivos' = [archivos EXCEPT ![pedido.nombre] = Truncado]
             /\ perdidos' = perdidos \cup DeArchivo(pedido.nombre)
    BY <1>3, <2>3, AlCrear, AlDejarDeSer
  <2>4. QED
    BY <1>3, <2>1, <2>2, <2>3, AlCrear
<1>4. CASE seBorroArchivoDeFS
  <2>1. CASE archivos' = archivos /\ porLiberar' = porLiberar
    BY <1>4, <2>1, AlBorrar, Quieto
  <2>2. CASE /\ archivos' = [archivos EXCEPT ![pedido.nombre] = Nada]
             /\ porLiberar' = archivos[pedido.nombre].bloques
    BY <1>4, <2>2, AlBorrar, AlDejarDeSer
  <2>3. QED
    BY <1>4, <2>1, <2>2, AlBorrar
<1>5. CASE liberarBloques
  BY <1>5, AlLiberar
<1>6. CASE LosDemas
  BY <1>6, DelResto, Quieto
<1>7. QED
  BY <1>1, <1>2, <1>3, <1>4, <1>5, <1>6, Pasos

-----------------------------------------------------------------------------
(* The invariant holds in every behaviour: FileSystem.c:190-319 and 517-592*)
(* never give a block away that a file has.                                *)
THEOREM BloquesInvariante == Spec => []IInv
<1>1. Init => IInv
  BY InvInicial
<1>2. IInv /\ [Next]_vars => IInv'
  BY TiposSiguen, RepartoSigue, MapaSigue DEF IInv
<1>3. QED
  BY <1>1, <1>2, PTL DEF Spec

(* Every variable of the server keeps its type, and an operation is under  *)
(* way only while there is a request for it.                               *)
THEOREM TiposDelFS == Spec => []TypeOK
<1>1. IInv => TypeOK
  BY DEF IInv
<1>2. QED
  BY <1>1, BloquesInvariante, PTL

(* The blocks of a file are marked and of nobody else, whatever ends and   *)
(* starts again between two steps of a removal (FileSystem.c:208-246).     *)
THEOREM CadaBloqueDeUno == Spec => []BloquesPropios
<1>1. IInv => BloquesPropios
  BY DEF IInv, Reparto
<1>2. QED
  BY <1>1, BloquesInvariante, PTL

(* No block stays marked for nobody, but those of an emptied file and of a *)
(* removal that did not end (FileSystem.c:208-224, 270-276).               *)
THEOREM SeSabeDeTodos == Spec => []CuentasClaras
<1>1. IInv => CuentasClaras
  BY Equivalen DEF IInv, Reparto
<1>2. QED
  BY <1>1, BloquesInvariante, PTL

(* No step of the server makes a file or gives one a block: crearArchivo   *)
(* leaves directories and empties files (FileSystem.c:270-319).            *)
THEOREM NadaNace == Spec => NingunArchivoNace
<1>1. ASSUME IInv, [Next]_vars, NEW n \in Nombres, archivos'[n] # archivos[n]
      PROVE  \/ archivos[n] = Nada /\ archivos'[n] = Directorio
             \/ archivos[n].tipo = "archivo" /\ archivos'[n] \in {Truncado, Nada}
  <2>1. TypeOK
    BY <1>1 DEF IInv
  <2>2. archivos \in [Nombres -> Entradas]
    BY <2>1 DEF TypeOK
  <2>3. CASE crearArchivo
    BY <1>1, <2>1, <2>2, <2>3, AlCrear
  <2>4. CASE seBorroArchivoDeFS
    BY <1>1, <2>1, <2>2, <2>4, AlBorrar
  <2>5. CASE LosDemas
    BY <1>1, <2>1, <2>5, DelResto
  <2>6. CASE \/ crearBitmap \/ limpiarBitarray \/ inicializarMmap \/ Matar
             \/ liberarBloques
    BY <1>1, <2>6 DEF crearBitmap, limpiarBitarray, inicializarMmap, Arrancar, Matar, liberarBloques
  <2>7. QED
    BY <1>1, <2>3, <2>4, <2>5, <2>6, Pasos
<1>2. IInv /\ [Next]_vars =>
        [\A n \in Nombres :
           archivos'[n] # archivos[n] =>
             \/ archivos[n] = Nada /\ archivos'[n] = Directorio
             \/ archivos[n].tipo = "archivo" /\ archivos'[n] \in {Truncado, Nada}]_vars
  BY <1>1
<1>3. QED
  BY <1>2, BloquesInvariante, PTL DEF Spec, NingunArchivoNace

LEMMA OctetosEnteros ==
  ASSUME NEW b \in Nat
  PROVE  b \in Bits <=> (b \in Bloques /\ 8 * ((b \div 8) + 1) <= cantidad_bloque)
BY Numeros DEF Bits, Bloques

LEMMA BloqueDado == TypeOK => (obtenerBloque # 0 <=> HayParaDar)
<1> DEFINE libres == Bits \ marcados
<1>1. Bits \subseteq Nat /\ libres \subseteq Nat
  BY Numeros DEF Bits
<1>2. libres # {} => obtenerBloque \in libres /\ \A d \in libres : obtenerBloque <= d
  <2>1. libres # {} => \E n \in libres : \A d \in libres : n <= d
    BY <1>1, HayMinimo
  <2>2. QED
    BY <2>1 DEF obtenerBloque, Primero
<1>3. libres = {} => obtenerBloque = 0
  BY DEF obtenerBloque, Primero
<1>4. obtenerBloque # 0 <=> libres # {} /\ 0 \notin libres
  BY <1>1, <1>2, <1>3
<1>5. \A b \in Nat : b \in libres <=>
        (b \in Bloques /\ 8 * ((b \div 8) + 1) <= cantidad_bloque /\ b \notin marcados)
  BY OctetosEnteros
<1>6. Bloques \subseteq Nat
  BY Numeros DEF Bloques
<1>7. libres # {} <=> \E b \in Bloques : b \notin marcados /\ 8 * ((b \div 8) + 1) <= cantidad_bloque
  BY <1>1, <1>5, <1>6
<1>8. libres # {} => 0 \in Bits
  BY <1>1, Numeros DEF Bits
<1>9. libres # {} => (0 \notin libres <=> 0 \in marcados)
  BY <1>8
<1> HIDE DEF libres
<1>10. QED
  BY <1>4, <1>7, <1>9 DEF HayParaDar

LEMMA HayBits == Bits # {} <=> cantidad_bloque >= 8
<1>1. cantidad_bloque >= 8 => 0 \in Bits
  BY Numeros DEF Bits
<1>2. cantidad_bloque < 8 => Bits = {}
  BY Numeros DEF Bits
<1>3. QED
  BY <1>1, <1>2, Numeros

(* What follows a creation that reaches the bitmap: it ends the process    *)
(* when there is no map to read, or a block to give.                       *)
LEMMA CuandoTermina ==
  ASSUME IInv, servidor = "sirviendo"
  PROVE  BitmapSinBits \/ HayParaDar <=> SinMapaQueLeer \/ obtenerBloque # 0
<1>1. mapa = (bitmap = "entero") /\ bitmap \in {"vacio", "entero"}
  BY DEF IInv, MapaAlDia
<1>2. SinMapaQueLeer <=> BitmapSinBits
  BY <1>1, HayBits DEF SinMapaQueLeer, BitmapSinBits
<1>3. obtenerBloque # 0 <=> HayParaDar
  BY BloqueDado DEF IInv
<1>4. QED
  BY <1>2, <1>3

(* The answers of crearArchivo (FileSystem.c:249-257, 294-319) to a path   *)
(* that fits: the block 0 that is free and the 0 of a full bitmap read the *)
(* same, the end of the bitmap is not looked at, and a bitmap that was     *)
(* created and not written (77-85) leaves every later process without map. *)
THEOREM CrearFallaOTermina == Spec => CrearSoloSinBloques
<1> DEFINE Caso == Atiende("crear") /\ pedido.path # "largo" /\ cliente = "espera"
                   /\ pedido'.op = "" /\ servidor' # "apagado"
           Queda == IF BitmapSinBits \/ HayParaDar THEN servidor' = "caido"
                    ELSE servidor' = "sirviendo" /\ pedido'.respuesta = OPERACION_FALLIDA
<1>1. ASSUME IInv, Next, Caso
      PROVE  Queda
  <2>1. BitmapSinBits \/ HayParaDar <=> SinMapaQueLeer \/ obtenerBloque # 0
    BY <1>1, CuandoTermina DEF Atiende
  <2>2. servidor = "sirviendo" /\ pedido.op = "crear" /\ pedido.path # "largo"
    BY <1>1 DEF Atiende
  <2>3. crearArchivo
    BY <1>1, <2>2 DEF Next, Bucle, crearBitmap, limpiarBitarray, inicializarMmap, Matar, Terminar,
         recibirHandshakeDeKernel, Pedir, Cortar, validarArchivo, seBorroArchivoDeFS,
         liberarBloques, ArchivoBorrado, CopiarDeMas, CortoKernel, Girar, Atiende
  <2>4. CASE ~SinMapaQueLeer /\ obtenerBloque = 0 /\ Responder(OPERACION_FALLIDA)
    <3>1. servidor' = "sirviendo"
      BY <1>1, <2>4 DEF Responder
    <3>2. pedido'.respuesta = OPERACION_FALLIDA
      BY <2>4 DEF Responder, SinPedido
    <3>3. QED
      BY <2>1, <2>4, <3>1, <3>2
  <2>5. CASE (SinMapaQueLeer \/ obtenerBloque # 0) /\ servidor' = "caido"
    BY <2>1, <2>5
  <2>6. QED
    BY <2>3, <2>4, <2>5 DEF crearArchivo, asignarBloqueArchivo, Terminar
<1>2. ASSUME UNCHANGED vars, Caso
      PROVE  FALSE
  BY <1>2 DEF vars, conexion, Atiende
<1> HIDE DEF Caso, Queda
<1>3. IInv /\ [Next]_vars => [Caso => Queda]_vars
  BY <1>1, <1>2
<1>4. CrearSoloSinBloques <=> [][Caso => Queda]_vars
  BY DEF CrearSoloSinBloques, Caso, Queda
<1>5. QED
  BY <1>3, <1>4, BloquesInvariante, PTL DEF Spec
=============================================================================

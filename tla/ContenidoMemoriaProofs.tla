----------------------- MODULE ContenidoMemoriaProofs -----------------------
(***************************************************************************)
(* Theorems about what the pages of Memoria contain, for every size of     *)
(* page and of cache, every set of pages and frames and every set of       *)
(* bytes.  The pages do not reach the bytes of one another wherever the    *)
(* requests begin; they keep what was put in them when the requests begin  *)
(* at the first byte.                                                      *)
(***************************************************************************)
EXTENDS ContenidoMemoria, SequenceTheorems, TLAPS

-----------------------------------------------------------------------------
(* Addresses.                                                              *)

(* Frames are TamEntradaTabla pages apart, and a byte of a page is less    *)
(* than that from the start of its frame.                                  *)
LEMMA FrameAFrame ==
  ASSUME NEW m \in Nat, NEW n \in Nat, m < n, NEW s \in Nat
  PROVE  m * s + s <= n * s
<1>1. (m + 1) * s <= n * s
  <2>1. m + 1 <= n
    OBVIOUS
  <2> DEFINE k == n - (m + 1)
  <2>2. k \in Nat /\ n = (m + 1) + k
    BY <2>1
  <2>3. n * s = (m + 1) * s + k * s
    BY <2>2
  <2>4. k * s \in Nat /\ (m + 1) * s \in Nat
    BY <2>2
  <2>5. QED
    BY <2>3, <2>4
<1>2. (m + 1) * s = m * s + s
  OBVIOUS
<1>3. QED
  BY <1>1, <1>2

LEMMA Comienzos ==
  ASSUME NEW c \in Claves
  PROVE  Comienzo(c) \in Nat
BY ContenidoAssumption DEF Comienzo

LEMMA ComienzosSeparados ==
  ASSUME NEW c \in Claves, NEW d \in Claves, c # d
  PROVE  \/ Comienzo(c) + MARCOS_SIZE <= Comienzo(d)
         \/ Comienzo(d) + MARCOS_SIZE <= Comienzo(c)
<1>1. Marco[c] \in Nat /\ Marco[d] \in Nat /\ Marco[c] # Marco[d] /\ MARCOS_SIZE \in Nat
  BY ContenidoAssumption
<1>2. CASE Marco[c] < Marco[d]
  BY <1>1, <1>2, FrameAFrame DEF Comienzo
<1>3. CASE Marco[d] < Marco[c]
  BY <1>1, <1>3, FrameAFrame DEF Comienzo
<1>4. QED
  BY <1>1, <1>2, <1>3

LEMMA ByteTrasCopiar ==
  ASSUME NEW memoria, NEW dir, NEW tamanio, NEW byte, NEW d
  PROVE  ByteEn(Copiar(memoria, dir, tamanio, byte), d) =
           IF d \in dir .. (dir + tamanio - 1) THEN byte ELSE ByteEn(memoria, d)
BY DEF Copiar, ByteEn

(* Where a request of a page reaches, no request of another page does.     *)
LEMMA NoSeTocan ==
  ASSUME NEW c \in Claves, NEW d \in Claves, c # d, NEW acceso \in Accesos,
         ~espacioInsuficienteParaLaPagina(acceso),
         NEW o \in Offsets, NEW k \in 0 .. (MARCOS_SIZE - 1 - o)
  PROVE  EnTabla(Comienzo(d) + o) + k \notin
           EnTabla(Comienzo(c) + acceso.offset)
             .. (EnTabla(Comienzo(c) + acceso.offset) + acceso.tamanio - 1)
<1> DEFINE x == Comienzo(c)
           y == Comienzo(d)
           f == acceso.offset
           t == acceso.tamanio
<1>1. x \in Nat /\ y \in Nat /\ MARCOS_SIZE \in Nat /\ f \in Nat /\ t \in Nat
  BY Comienzos, ContenidoAssumption, AccesosAssumption
<1>2. x + MARCOS_SIZE <= y \/ y + MARCOS_SIZE <= x
  BY ComienzosSeparados
<1>3. ~(MARCOS_SIZE - f <= t)
  BY DEF espacioInsuficienteParaLaPagina
<1>4. o \in Nat /\ k \in Nat /\ o + k <= MARCOS_SIZE - 1
  BY <1>1 DEF Offsets
<1> HIDE DEF x, y, f, t
<1>5. 12 * (y + o) + k \notin 12 * (x + f) .. (12 * (x + f) + t - 1)
  BY <1>1, <1>2, <1>3, <1>4
<1>6. QED
  BY <1>5 DEF x, y, f, t, EnTabla, TamEntradaTabla

-----------------------------------------------------------------------------
(* The cache as a list.                                                    *)

(* What is left of a list without one of its elements.                     *)
LEMMA SacarUna ==
  ASSUME NEW S, NEW s \in Seq(S), NEW p \in 1 .. Len(s)
  PROVE  /\ RemoveAt(s, p) \in Seq(S)
         /\ Len(RemoveAt(s, p)) = Len(s) - 1
         /\ \A i \in 1 .. Len(s) - 1 :
              RemoveAt(s, p)[i] = s[IF i < p THEN i ELSE i + 1]
<1> DEFINE a == SubSeq(s, 1, p - 1)
           b == SubSeq(s, p + 1, Len(s))
<1>1. Len(s) \in Nat /\ \A i \in 1 .. Len(s) : s[i] \in S
  BY LenProperties, ElementOfSeq
<1>2. /\ a \in Seq(S)
      /\ Len(a) = p - 1
      /\ \A i \in 1 .. p - 1 : a[i] = s[i]
  <2>1. 1 \in Int /\ p - 1 \in Int /\ \A i \in 1 .. p - 1 : s[i] \in S
    BY <1>1
  <2>2. /\ a \in Seq(S)
        /\ Len(a) = IF 1 <= p - 1 THEN (p - 1) - 1 + 1 ELSE 0
        /\ \A i \in 1 .. (p - 1) - 1 + 1 : a[i] = s[1 + i - 1]
    BY <2>1, SubSeqProperties
  <2>3. QED
    BY <2>2, <1>1
<1>3. /\ b \in Seq(S)
      /\ Len(b) = Len(s) - p
      /\ \A i \in 1 .. Len(s) - p : b[i] = s[p + i]
  <2>1. p + 1 \in Int /\ Len(s) \in Int /\ \A i \in p + 1 .. Len(s) : s[i] \in S
    BY <1>1
  <2>2. /\ b \in Seq(S)
        /\ Len(b) = IF p + 1 <= Len(s) THEN Len(s) - (p + 1) + 1 ELSE 0
        /\ \A i \in 1 .. Len(s) - (p + 1) + 1 : b[i] = s[p + 1 + i - 1]
    BY <2>1, SubSeqProperties
  <2>3. QED
    BY <2>2, <1>1
<1>4. RemoveAt(s, p) = a \o b
  BY DEF RemoveAt
<1>5. /\ a \o b \in Seq(S)
      /\ Len(a \o b) = Len(a) + Len(b)
      /\ \A i \in 1 .. Len(a) + Len(b) :
           (a \o b)[i] = IF i <= Len(a) THEN a[i] ELSE b[i - Len(a)]
  <2> HIDE DEF a, b
  <2>1. QED
    BY <1>2, <1>3, ConcatProperties
<1>6. QED
  <2> HIDE DEF a, b
  <2>1. ASSUME NEW i \in 1 .. Len(s) - 1
        PROVE  (a \o b)[i] = s[IF i < p THEN i ELSE i + 1]
    <3>1. CASE i < p
      BY <3>1, <1>1, <1>2, <1>3, <1>5
    <3>2. CASE ~(i < p)
      <4>1. /\ i - Len(a) \in 1 .. Len(s) - p
            /\ (a \o b)[i] = b[i - Len(a)]
        BY <3>2, <1>1, <1>2, <1>3, <1>5
      <4>2. b[i - Len(a)] = s[p + (i - Len(a))] /\ p + (i - Len(a)) = i + 1
        BY <4>1, <1>1, <1>2, <1>3
      <4>3. QED
        BY <3>2, <4>1, <4>2
    <3>3. QED
      BY <3>1, <3>2
  <2>2. QED
    BY <2>1, <1>1, <1>2, <1>3, <1>4, <1>5, SMTT(30)

LEMMA PonerAdelante ==
  ASSUME NEW S, NEW r \in Seq(S), NEW e \in S
  PROVE  LET t == <<e>> \o r IN
         /\ t \in Seq(S) /\ DOMAIN t = 1 .. Len(r) + 1 /\ t[1] = e
         /\ DOMAIN r = 1 .. Len(r) /\ Len(r) \in Nat
         /\ \A j \in DOMAIN t : j # 1 => j - 1 \in DOMAIN r /\ t[j] = r[j - 1]
<1> DEFINE u == <<e>>
           t == u \o r
<1>1. u \in Seq(S) /\ Len(u) = 1 /\ u[1] = e
  OBVIOUS
<1>2. Len(r) \in Nat /\ DOMAIN r = 1 .. Len(r)
  BY LenProperties
<1> HIDE DEF u
<1>3. /\ t \in Seq(S) /\ Len(t) = 1 + Len(r)
      /\ \A j \in 1 .. 1 + Len(r) : t[j] = IF j <= 1 THEN u[j] ELSE r[j - 1]
  BY <1>1, ConcatProperties, SMTT(30)
<1>4. DOMAIN t = 1 .. Len(r) + 1
  BY <1>2, <1>3, LenProperties
<1> HIDE DEF t
<1>5. t[1] = e /\ \A j \in DOMAIN t : j # 1 => j - 1 \in DOMAIN r /\ t[j] = r[j - 1]
  BY <1>1, <1>2, <1>3, <1>4
<1>6. QED
  BY <1>2, <1>3, <1>4, <1>5 DEF t, u

Valores == Bytes \cup {ByteInicial}

Entradas == [clave : Claves, contenido : [Offsets -> Valores]]

(* A page has one entry, and it holds what the page holds.                 *)
UnaPorClave(cache) ==
  \A i, j \in DOMAIN cache : cache[i].clave = cache[j].clave => i = j

AlDia(cache, contenido) ==
  \A i \in DOMAIN cache : cache[i].contenido = contenido[cache[i].clave]

SinClave(cache, clave) == \A i \in DOMAIN cache : cache[i].clave # clave

LEMMA ListaConUnaMas ==
  ASSUME NEW r \in Seq(Entradas), NEW e \in Entradas, UnaPorClave(r), SinClave(r, e.clave)
  PROVE  LET t == <<e>> \o r IN
         /\ t \in Seq(Entradas) /\ UnaPorClave(t)
         /\ \A L : AlDia(r, L) /\ e.contenido = L[e.clave] => AlDia(t, L)
<1> DEFINE t == <<e>> \o r
<1>1. /\ t \in Seq(Entradas) /\ DOMAIN t = 1 .. Len(r) + 1 /\ t[1] = e /\ Len(r) \in Nat
      /\ \A j \in DOMAIN t : j # 1 => j - 1 \in DOMAIN r /\ t[j] = r[j - 1]
  BY PonerAdelante
<1> HIDE DEF t
<1>2. \A L : AlDia(r, L) /\ e.contenido = L[e.clave] => AlDia(t, L)
  BY <1>1 DEF AlDia
<1>3. ASSUME NEW i \in DOMAIN t, NEW j \in DOMAIN t, t[i].clave = t[j].clave
      PROVE  i = j
  <2>1. CASE i # 1 /\ j # 1
    <3>1. i - 1 = j - 1 /\ i \in Int /\ j \in Int
      BY <1>1, <1>3, <2>1 DEF UnaPorClave
    <3>2. QED
      BY <3>1
  <2>2. CASE i = 1 \/ j = 1
    BY <1>1, <1>3, <2>2 DEF SinClave
  <2>3. QED
    BY <2>1, <2>2
<1>4. QED
  BY <1>1, <1>2, <1>3 DEF UnaPorClave, t

LEMMA ListaConUnaMenos ==
  ASSUME NEW s \in Seq(Entradas), NEW p \in DOMAIN s, UnaPorClave(s)
  PROVE  LET t == RemoveAt(s, p) IN
         /\ t \in Seq(Entradas) /\ UnaPorClave(t) /\ SinClave(t, s[p].clave)
         /\ \A j \in DOMAIN t : \E k \in DOMAIN s \ {p} : t[j] = s[k]
<1> DEFINE t == RemoveAt(s, p)
           f(j) == IF j < p THEN j ELSE j + 1
<1>1. /\ DOMAIN s = 1 .. Len(s) /\ Len(s) \in Nat /\ p \in 1 .. Len(s)
  BY LenProperties
<1>2. /\ t \in Seq(Entradas) /\ Len(t) = Len(s) - 1
      /\ \A j \in 1 .. Len(s) - 1 : t[j] = s[f(j)]
  BY <1>1, SacarUna
<1>3. DOMAIN t = 1 .. Len(s) - 1
  BY <1>2, LenProperties
<1> HIDE DEF t
<1>4. \A j \in DOMAIN t : f(j) \in DOMAIN s \ {p} /\ t[j] = s[f(j)]
  BY <1>1, <1>2, <1>3
<1>5. \A i, j \in DOMAIN t : f(i) = f(j) => i = j
  BY <1>1, <1>3
<1> HIDE DEF f
<1>6. UnaPorClave(t) /\ SinClave(t, s[p].clave)
  BY <1>4, <1>5 DEF UnaPorClave, SinClave
<1>7. QED
  BY <1>2, <1>4, <1>6 DEF t

-----------------------------------------------------------------------------
(* Types.                                                                  *)

LEMMA ByteDeLaMemoria ==
  ASSUME NEW memoria, \A d \in DOMAIN memoria : memoria[d] \in Bytes, NEW d
  PROVE  ByteEn(memoria, d) \in Valores
BY DEF ByteEn, Valores

LEMMA TiposTrasEscribir ==
  ASSUME TypeOK, NEW clave \in Claves, NEW acceso \in Accesos, NEW byte \in Bytes,
         almacenarBytesEnMemoria(clave, acceso, byte)
  PROVE  /\ \A d \in DOMAIN memoriaSistema' : d \in Nat /\ memoriaSistema'[d] \in Bytes
         /\ contenidoLogico' \in [Claves -> [Offsets -> Valores]]
         /\ CopiaDeMarco(memoriaSistema', clave) \in [Offsets -> Valores]
         /\ \A contenido \in [Offsets -> Valores] :
              ConByte(contenido, acceso, byte) \in [Offsets -> Valores]
<1> DEFINE dir == EnTabla(Comienzo(clave) + acceso.offset)
           n == acceso.tamanio
<1>1. dir \in Nat /\ n \in Nat
  BY Comienzos, AccesosAssumption DEF EnTabla, TamEntradaTabla
<1>2. /\ memoriaSistema' = Copiar(memoriaSistema, dir, n, byte)
      /\ contenidoLogico' = [contenidoLogico EXCEPT ![clave] = ConByte(@, acceso, byte)]
  BY DEF almacenarBytesEnMemoria
<1> HIDE DEF dir, n
<1>3. \A d \in DOMAIN memoriaSistema' : d \in Nat /\ memoriaSistema'[d] \in Bytes
  BY <1>1, <1>2 DEF Copiar, TypeOK
<1>4. \A contenido \in [Offsets -> Valores] :
        ConByte(contenido, acceso, byte) \in [Offsets -> Valores]
  BY DEF ConByte, Valores
<1>5. contenidoLogico' \in [Claves -> [Offsets -> Valores]]
  BY <1>2, <1>4 DEF TypeOK, Valores
<1>6. CopiaDeMarco(memoriaSistema', clave) \in [Offsets -> Valores]
  <2>1. \A o : ByteEn(memoriaSistema', o) \in Valores
    BY <1>3, ByteDeLaMemoria
  <2>2. QED
    BY <2>1 DEF CopiaDeMarco
<1>7. QED
  BY <1>3, <1>4, <1>5, <1>6

(* What a write does to the cache: nothing, when its page is not there and *)
(* may not enter, or its page goes to the front.                           *)
LEMMA CacheTrasEscribir ==
  ASSUME TypeOK, UnaPorClave(cacheDeMemoria), NEW clave \in Claves, NEW acceso \in Accesos,
         NEW byte \in Bytes, almacenarBytesEnMemoria(clave, acceso, byte)
  PROVE  \/ EnCache(clave) = {} /\ cacheDeMemoria' = cacheDeMemoria
         \/ \E r \in Seq(Entradas), e \in Entradas :
              /\ cacheDeMemoria' = <<e>> \o r
              /\ UnaPorClave(r) /\ SinClave(r, clave) /\ e.clave = clave
              /\ \A j \in DOMAIN r : \E k \in DOMAIN cacheDeMemoria : r[j] = cacheDeMemoria[k]
              /\ \/ \E i \in EnCache(clave) :
                      e.contenido = ConByte(cacheDeMemoria[i].contenido, acceso, byte)
                 \/ e.contenido = CopiaDeMarco(memoriaSistema', clave)
<1>1. /\ cacheDeMemoria \in Seq(Entradas)
      /\ \A i \in DOMAIN cacheDeMemoria : cacheDeMemoria[i] \in Entradas
  <2>1. cacheDeMemoria \in Seq(Entradas)
    BY DEF TypeOK, Entradas, Valores
  <2>2. QED
    BY <2>1, LenProperties, ElementOfSeq
<1>2. ASSUME NEW i \in EnCache(clave),
             cacheDeMemoria' = actualizarDatosDeCache(i, acceso, byte)
      PROVE  \E r \in Seq(Entradas), e \in Entradas :
               /\ cacheDeMemoria' = <<e>> \o r
               /\ UnaPorClave(r) /\ SinClave(r, clave) /\ e.clave = clave
               /\ \A j \in DOMAIN r : \E k \in DOMAIN cacheDeMemoria : r[j] = cacheDeMemoria[k]
               /\ e.contenido = ConByte(cacheDeMemoria[i].contenido, acceso, byte)
  <2> DEFINE r == RemoveAt(cacheDeMemoria, i)
             a == cacheDeMemoria[i]
             b == ConByte(a.contenido, acceso, byte)
             e == [a EXCEPT !.contenido = ConByte(@, acceso, byte)]
  <2>1. i \in DOMAIN cacheDeMemoria /\ a.clave = clave /\ a \in Entradas
    BY <1>1 DEF EnCache
  <2>2. b \in [Offsets -> Valores]
    BY <2>1, TiposTrasEscribir DEF Entradas
  <2>3. e \in Entradas /\ e.clave = clave /\ e.contenido = b
    BY <2>1, <2>2 DEF Entradas
  <2>4. cacheDeMemoria' = <<e>> \o r
    BY <1>2 DEF actualizarDatosDeCache
  <2>5. /\ r \in Seq(Entradas) /\ UnaPorClave(r) /\ SinClave(r, clave)
        /\ \A j \in DOMAIN r : \E k \in DOMAIN cacheDeMemoria : r[j] = cacheDeMemoria[k]
    BY <1>1, <2>1, ListaConUnaMenos
  <2> HIDE DEF r, e
  <2>6. QED
    BY <2>3, <2>4, <2>5
<1>3. ASSUME EnCache(clave) = {},
             cacheDeMemoria' = agregarACache(clave, CopiaDeMarco(memoriaSistema', clave)),
             cacheDeMemoria' # cacheDeMemoria
      PROVE  \E r \in Seq(Entradas), e \in Entradas :
               /\ cacheDeMemoria' = <<e>> \o r
               /\ UnaPorClave(r) /\ SinClave(r, clave) /\ e.clave = clave
               /\ \A j \in DOMAIN r : \E k \in DOMAIN cacheDeMemoria : r[j] = cacheDeMemoria[k]
               /\ e.contenido = CopiaDeMarco(memoriaSistema', clave)
  <2> DEFINE r == IF Len(cacheDeMemoria) >= ENTRADAS_CACHE
                  THEN RemoveAt(cacheDeMemoria, ENTRADAS_CACHE) ELSE cacheDeMemoria
             copia == CopiaDeMarco(memoriaSistema', clave)
             e == [clave |-> clave, contenido |-> copia]
  <2>1. cacheDeMemoria' = <<e>> \o r
    BY <1>3 DEF agregarACache
  <2>2. SinClave(cacheDeMemoria, clave)
    BY <1>3 DEF EnCache, SinClave
  <2>3. copia \in [Offsets -> Valores]
    BY TiposTrasEscribir
  <2> HIDE DEF copia
  <2>4. e \in Entradas /\ e.clave = clave /\ e.contenido = copia
    BY <2>3 DEF Entradas
  <2>5. /\ r \in Seq(Entradas) /\ UnaPorClave(r)
        /\ \A j \in DOMAIN r : \E k \in DOMAIN cacheDeMemoria : r[j] = cacheDeMemoria[k]
    <3>1. CASE Len(cacheDeMemoria) >= ENTRADAS_CACHE
      <4>1. ENTRADAS_CACHE \in DOMAIN cacheDeMemoria
        BY <1>1, <3>1, LenProperties, ContenidoAssumption
      <4>2. r = RemoveAt(cacheDeMemoria, ENTRADAS_CACHE)
        BY <3>1
      <4>3. QED
        BY <1>1, <4>1, <4>2, ListaConUnaMenos
    <3>2. CASE ~(Len(cacheDeMemoria) >= ENTRADAS_CACHE)
      BY <1>1, <3>2
    <3>3. QED
      BY <3>1, <3>2
  <2> HIDE DEF r, e
  <2>6. SinClave(r, clave)
    BY <2>2, <2>5 DEF SinClave
  <2>7. QED
    BY <2>1, <2>4, <2>5, <2>6 DEF copia
<1>4. QED
  BY <1>2, <1>3 DEF almacenarBytesEnMemoria

(* A page read from the cache goes to the front as it is.                  *)
LEMMA CacheTrasLeer ==
  ASSUME TypeOK, UnaPorClave(cacheDeMemoria), NEW i \in DOMAIN cacheDeMemoria,
         cacheDeMemoria' = <<cacheDeMemoria[i]>> \o RemoveAt(cacheDeMemoria, i)
  PROVE  /\ cacheDeMemoria' \in Seq(Entradas) /\ UnaPorClave(cacheDeMemoria')
         /\ \A L : AlDia(cacheDeMemoria, L) => AlDia(cacheDeMemoria', L)
<1> DEFINE r == RemoveAt(cacheDeMemoria, i)
           e == cacheDeMemoria[i]
<1>1. cacheDeMemoria \in Seq(Entradas) /\ e \in Entradas
  <2>1. cacheDeMemoria \in Seq(Entradas)
    BY DEF TypeOK, Entradas, Valores
  <2>2. QED
    BY <2>1, LenProperties, ElementOfSeq
<1>2. /\ r \in Seq(Entradas) /\ UnaPorClave(r) /\ SinClave(r, e.clave)
      /\ \A j \in DOMAIN r : \E k \in DOMAIN cacheDeMemoria : r[j] = cacheDeMemoria[k]
  BY <1>1, ListaConUnaMenos
<1>3. \A L : AlDia(cacheDeMemoria, L) => e.contenido = L[e.clave]
  BY DEF AlDia
<1>4. cacheDeMemoria' = <<e>> \o r
  OBVIOUS
<1> HIDE DEF r, e
<1>5. \A L : AlDia(cacheDeMemoria, L) => AlDia(r, L)
  BY <1>2 DEF AlDia
<1>6. QED
  BY <1>1, <1>2, <1>3, <1>4, <1>5, ListaConUnaMas

(* The types, and that no page has two entries, wherever requests begin.   *)
CacheUnica == TypeOK /\ UnaPorClave(cacheDeMemoria)

LEMMA UnicaInicial == Init => CacheUnica
<1> SUFFICES ASSUME Init
             PROVE  CacheUnica
  OBVIOUS
<1>1. /\ memoriaSistema = << >> /\ cacheDeMemoria = << >>
      /\ contenidoLogico = [c \in Claves |-> [o \in Offsets |-> ByteInicial]]
  BY DEF Init
<1>2. contenidoLogico \in [Claves -> [Offsets -> Bytes \cup {ByteInicial}]]
  BY <1>1
<1>3. cacheDeMemoria \in Seq([clave : Claves, contenido : [Offsets -> Bytes \cup {ByteInicial}]])
  BY <1>1
<1>4. QED
  BY <1>1, <1>2, <1>3 DEF CacheUnica, TypeOK, UnaPorClave

LEMMA UnicaTrasEscribir ==
  ASSUME CacheUnica, NEW clave \in Claves, NEW acceso \in Accesos, NEW byte \in Bytes,
         almacenarBytesEnMemoria(clave, acceso, byte)
  PROVE  CacheUnica'
<1>1. /\ TypeOK /\ UnaPorClave(cacheDeMemoria) /\ cacheDeMemoria \in Seq(Entradas)
  BY DEF CacheUnica, TypeOK, Entradas, Valores
<1>2. cacheDeMemoria' \in Seq(Entradas) /\ UnaPorClave(cacheDeMemoria')
  <2>1. \/ cacheDeMemoria' = cacheDeMemoria
        \/ \E r \in Seq(Entradas), e \in Entradas :
             cacheDeMemoria' = <<e>> \o r /\ UnaPorClave(r) /\ SinClave(r, clave) /\ e.clave = clave
    BY <1>1, CacheTrasEscribir, Zenon
  <2>2. ASSUME NEW r \in Seq(Entradas), NEW e \in Entradas, cacheDeMemoria' = <<e>> \o r,
               UnaPorClave(r), SinClave(r, clave), e.clave = clave
        PROVE  cacheDeMemoria' \in Seq(Entradas) /\ UnaPorClave(cacheDeMemoria')
    <3>1. SinClave(r, e.clave)
      BY <2>2
    <3>2. QED
      BY <2>2, <3>1, ListaConUnaMas
  <2>3. QED
    BY <1>1, <2>1, <2>2
<1>3. /\ \A d \in DOMAIN memoriaSistema' : d \in Nat /\ memoriaSistema'[d] \in Bytes
      /\ contenidoLogico' \in [Claves -> [Offsets -> Valores]]
  BY <1>1, TiposTrasEscribir
<1>4. TypeOK'
  BY <1>2, <1>3 DEF TypeOK, Entradas, Valores
<1>5. QED
  BY <1>2, <1>4 DEF CacheUnica, UnaPorClave

LEMMA UnicaSigue == CacheUnica /\ [Next]_vars => CacheUnica'
<1> SUFFICES ASSUME CacheUnica, [Next]_vars
             PROVE  CacheUnica'
  OBVIOUS
<1>1. TypeOK /\ UnaPorClave(cacheDeMemoria)
  BY DEF CacheUnica
<1>2. ASSUME UNCHANGED << memoriaSistema, contenidoLogico >>,
             cacheDeMemoria' \in Seq(Entradas), UnaPorClave(cacheDeMemoria')
      PROVE  CacheUnica'
  BY <1>1, <1>2 DEF CacheUnica, TypeOK, UnaPorClave, Entradas, Valores
<1>3. ASSUME NEW clave \in Claves, NEW acceso \in Accesos, leerDeCache(clave, acceso)
      PROVE  CacheUnica'
  <2>1. PICK i \in EnCache(clave) :
          /\ cacheDeMemoria' = <<cacheDeMemoria[i]>> \o RemoveAt(cacheDeMemoria, i)
          /\ UNCHANGED << memoriaSistema, contenidoLogico >>
    BY <1>3 DEF leerDeCache
  <2>2. i \in DOMAIN cacheDeMemoria
    BY DEF EnCache
  <2>3. cacheDeMemoria' \in Seq(Entradas) /\ UnaPorClave(cacheDeMemoria')
    BY <1>1, <2>1, <2>2, CacheTrasLeer
  <2>4. QED
    BY <1>2, <2>1, <2>3
<1>4. ASSUME UNCHANGED << memoriaSistema, cacheDeMemoria, contenidoLogico >>
      PROVE  CacheUnica'
  BY <1>1, <1>4 DEF CacheUnica, TypeOK, UnaPorClave
<1>5. CASE flushCache
  <2>1. /\ cacheDeMemoria' = << >> /\ << >> \in Seq(Entradas)
        /\ UNCHANGED << memoriaSistema, contenidoLogico >>
    BY <1>5 DEF flushCache
  <2>2. UnaPorClave(<< >>)
    BY DEF UnaPorClave
  <2>3. QED
    BY <1>2, <2>1, <2>2
<1>6. ASSUME NEW clave \in Claves, NEW acceso \in Accesos, leerDeMarco(clave, acceso)
      PROVE  CacheUnica'
  BY <1>4, <1>6 DEF leerDeMarco
<1>7. CASE UNCHANGED vars
  BY <1>4, <1>7 DEF vars
<1>8. QED
  BY <1>3, <1>5, <1>6, <1>7, UnicaTrasEscribir DEF Next

LEMMA SiempreUnica == Spec => []CacheUnica
BY UnicaInicial, UnicaSigue, PTL DEF Spec

(* What the frames, the cache and the pages hold keeps its type: bytes,    *)
(* at addresses that are naturals, whatever the requests reach.            *)
THEOREM TipoDelContenido == Spec => []TypeOK
<1>1. CacheUnica => TypeOK
  BY DEF CacheUnica
<1>2. QED
  BY <1>1, SiempreUnica, PTL

-----------------------------------------------------------------------------
(* Putting bytes in a page.                                                *)

LEMMA EscribirDejaLoAjeno ==
  ASSUME TypeOK, NEW clave \in Claves, NEW acceso \in Accesos, NEW byte \in Bytes,
         almacenarBytesEnMemoria(clave, acceso, byte), NEW d \in Claves, d # clave,
         NEW o \in Offsets, NEW k \in 0 .. (MARCOS_SIZE - 1 - o)
  PROVE  ByteEn(memoriaSistema', EnTabla(Comienzo(d) + o) + k)
           = ByteEn(memoriaSistema, EnTabla(Comienzo(d) + o) + k)
<1>1. /\ ~espacioInsuficienteParaLaPagina(acceso)
      /\ memoriaSistema' = Copiar(memoriaSistema, EnTabla(Comienzo(clave) + acceso.offset),
                                  acceso.tamanio, byte)
  BY DEF almacenarBytesEnMemoria
<1>2. QED
  BY <1>1, NoSeTocan, ByteTrasCopiar

(* A write changes no byte of the frame of another page that a read of     *)
(* that page could return, whatever offsets the requests have: twelve      *)
(* times an offset stays in the frame's own stretch of addresses.          *)
THEOREM LoAjenoNoSeToca == Spec => AjenoIntacto
<1> DEFINE A == \A c, d \in Claves :
                  c # d /\ contenidoLogico'[c] # contenidoLogico[c] =>
                    \A o \in Offsets : \A k \in 0 .. (MARCOS_SIZE - 1 - o) :
                      LET dir == EnTabla(Comienzo(d) + o) + k
                      IN  ByteEn(memoriaSistema', dir) = ByteEn(memoriaSistema, dir)
<1>1. CacheUnica /\ [Next]_vars => [A]_vars
  <2> SUFFICES ASSUME CacheUnica, Next, NEW c \in Claves, NEW d \in Claves, c # d,
                      contenidoLogico'[c] # contenidoLogico[c],
                      NEW o \in Offsets, NEW k \in 0 .. (MARCOS_SIZE - 1 - o)
               PROVE  ByteEn(memoriaSistema', EnTabla(Comienzo(d) + o) + k)
                        = ByteEn(memoriaSistema, EnTabla(Comienzo(d) + o) + k)
    OBVIOUS
  <2>1. TypeOK
    BY DEF CacheUnica
  <2>2. PICK clave \in Claves, acceso \in Accesos, byte \in Bytes :
          almacenarBytesEnMemoria(clave, acceso, byte)
    BY DEF Next, leerDeCache, leerDeMarco, flushCache
  <2>3. clave = c
    BY <2>1, <2>2 DEF almacenarBytesEnMemoria, TypeOK
  <2>4. QED
    BY <2>1, <2>2, <2>3, EscribirDejaLoAjeno
<1>2. QED
  BY <1>1, SiempreUnica, PTL DEF Spec, AjenoIntacto

-----------------------------------------------------------------------------
(* The requests that begin at the first byte and stay in the page: all     *)
(* those of the kernel for the code of a program.                          *)
DesdeElPrincipio ==
  \A acceso \in Accesos : acceso.offset = 0 /\ acceso.tamanio <= MARCOS_SIZE

(* Each page is in its frame as its clients left it, and in the cache too. *)
MarcosAlDia ==
  \A c \in Claves : \A o \in Offsets :
    ByteEn(memoriaSistema, EnTabla(Comienzo(c)) + o) = contenidoLogico[c][o]

Fiel == CacheUnica /\ MarcosAlDia /\ AlDia(cacheDeMemoria, contenidoLogico)

LEMMA FielInicial == Init => Fiel
<1> SUFFICES ASSUME Init
             PROVE  Fiel
  OBVIOUS
<1>1. MarcosAlDia
  BY DEF Init, MarcosAlDia, ByteEn
<1>2. AlDia(cacheDeMemoria, contenidoLogico)
  BY DEF Init, AlDia
<1>3. QED
  BY <1>1, <1>2, UnicaInicial DEF Fiel

LEMMA MarcosTrasEscribir ==
  ASSUME DesdeElPrincipio, TypeOK, MarcosAlDia, NEW clave \in Claves, NEW acceso \in Accesos,
         NEW byte \in Bytes, almacenarBytesEnMemoria(clave, acceso, byte)
  PROVE  MarcosAlDia'
<1>1. /\ memoriaSistema' = Copiar(memoriaSistema, EnTabla(Comienzo(clave) + acceso.offset),
                                  acceso.tamanio, byte)
      /\ contenidoLogico' = [contenidoLogico EXCEPT ![clave] = ConByte(@, acceso, byte)]
  BY DEF almacenarBytesEnMemoria
<1>2. acceso.offset = 0 /\ acceso.tamanio \in Nat /\ Comienzo(clave) \in Nat
  BY AccesosAssumption, Comienzos DEF DesdeElPrincipio
<1>3. ASSUME NEW o \in Offsets
      PROVE  ByteEn(memoriaSistema', EnTabla(Comienzo(clave)) + o) = contenidoLogico'[clave][o]
  <2> DEFINE dir == EnTabla(Comienzo(clave))
             n == acceso.tamanio
  <2>1. dir \in Nat /\ n \in Nat /\ o \in Nat /\ EnTabla(Comienzo(clave) + acceso.offset) = dir
    BY <1>2, ContenidoAssumption DEF EnTabla, TamEntradaTabla, Offsets
  <2>2. ByteEn(memoriaSistema', dir + o) =
          IF dir + o \in dir .. (dir + n - 1) THEN byte ELSE ByteEn(memoriaSistema, dir + o)
    BY <1>1, <2>1, ByteTrasCopiar
  <2>3. contenidoLogico'[clave][o] =
          IF o \in acceso.offset .. (acceso.offset + n - 1) THEN byte ELSE contenidoLogico[clave][o]
    BY <1>1 DEF TypeOK, ConByte
  <2>4. ByteEn(memoriaSistema, dir + o) = contenidoLogico[clave][o]
    BY DEF MarcosAlDia
  <2> HIDE DEF dir, n
  <2>5. dir + o \in dir .. (dir + n - 1) <=> o \in acceso.offset .. (acceso.offset + n - 1)
    BY <1>2, <2>1
  <2>6. QED
    BY <2>2, <2>3, <2>4, <2>5 DEF dir
<1>4. ASSUME NEW d \in Claves, d # clave, NEW o \in Offsets
      PROVE  ByteEn(memoriaSistema', EnTabla(Comienzo(d)) + o) = contenidoLogico'[d][o]
  <2>1. 0 \in Offsets /\ o \in 0 .. (MARCOS_SIZE - 1 - 0) /\ Comienzo(d) + 0 = Comienzo(d)
    BY ContenidoAssumption, Comienzos DEF Offsets
  <2>2. ByteEn(memoriaSistema', EnTabla(Comienzo(d)) + o)
          = ByteEn(memoriaSistema, EnTabla(Comienzo(d)) + o)
    BY <1>4, <2>1, EscribirDejaLoAjeno
  <2>3. contenidoLogico'[d] = contenidoLogico[d]
    BY <1>1, <1>4 DEF TypeOK
  <2>4. QED
    BY <2>2, <2>3 DEF MarcosAlDia
<1>5. \A c \in Claves : \A o \in Offsets :
        ByteEn(memoriaSistema', EnTabla(Comienzo(c)) + o) = contenidoLogico'[c][o]
  BY <1>3, <1>4
<1>6. QED
  BY <1>5 DEF MarcosAlDia, ByteEn

(* The copy a page enters the cache with is the page.                      *)
LEMMA LaCopiaEsLaPagina ==
  ASSUME NEW clave \in Claves, NEW memoria, NEW L \in [Claves -> [Offsets -> Valores]],
         \A o \in Offsets : ByteEn(memoria, EnTabla(Comienzo(clave)) + o) = L[clave][o]
  PROVE  CopiaDeMarco(memoria, clave) = L[clave]
<1>1. L[clave] \in [Offsets -> Valores]
  OBVIOUS
<1>2. CopiaDeMarco(memoria, clave) = [o \in Offsets |-> L[clave][o]]
  BY DEF CopiaDeMarco
<1>3. QED
  BY <1>1, <1>2

LEMMA CacheAlDiaTrasEscribir ==
  ASSUME Fiel, MarcosAlDia', NEW clave \in Claves, NEW acceso \in Accesos, NEW byte \in Bytes,
         almacenarBytesEnMemoria(clave, acceso, byte)
  PROVE  AlDia(cacheDeMemoria', contenidoLogico')
<1>1. /\ TypeOK /\ UnaPorClave(cacheDeMemoria) /\ MarcosAlDia
      /\ AlDia(cacheDeMemoria, contenidoLogico)
      /\ \A i \in DOMAIN cacheDeMemoria : cacheDeMemoria[i] \in Entradas
  <2>1. cacheDeMemoria \in Seq(Entradas)
    BY DEF Fiel, CacheUnica, TypeOK, Entradas, Valores
  <2>2. \A i \in DOMAIN cacheDeMemoria : cacheDeMemoria[i] \in Entradas
    BY <2>1, LenProperties, ElementOfSeq
  <2>3. QED
    BY <2>2 DEF Fiel, CacheUnica
<1>2. contenidoLogico' = [contenidoLogico EXCEPT ![clave] = ConByte(@, acceso, byte)]
  BY DEF almacenarBytesEnMemoria
<1>3. /\ contenidoLogico'[clave] = ConByte(contenidoLogico[clave], acceso, byte)
      /\ \A d \in Claves \ {clave} : contenidoLogico'[d] = contenidoLogico[d]
  BY <1>1, <1>2 DEF TypeOK
<1>4. CopiaDeMarco(memoriaSistema', clave) = contenidoLogico'[clave]
  <2>1. contenidoLogico' \in [Claves -> [Offsets -> Valores]]
    BY <1>1, TiposTrasEscribir
  <2>2. \A o \in Offsets :
          ByteEn(memoriaSistema', EnTabla(Comienzo(clave)) + o) = contenidoLogico'[clave][o]
    BY DEF MarcosAlDia, ByteEn
  <2>3. QED
    BY <2>1, <2>2, LaCopiaEsLaPagina
<1>5. CASE EnCache(clave) = {} /\ cacheDeMemoria' = cacheDeMemoria
  <2>1. \A i \in DOMAIN cacheDeMemoria :
          cacheDeMemoria[i].clave \in Claves \ {clave}
    BY <1>1, <1>5 DEF EnCache, Entradas
  <2>2. QED
    BY <1>1, <1>3, <1>5, <2>1 DEF AlDia
<1>6. ASSUME NEW r \in Seq(Entradas), NEW e \in Entradas, cacheDeMemoria' = <<e>> \o r,
             UnaPorClave(r), SinClave(r, clave), e.clave = clave,
             \A j \in DOMAIN r : \E k \in DOMAIN cacheDeMemoria : r[j] = cacheDeMemoria[k],
             \/ \E i \in EnCache(clave) :
                  e.contenido = ConByte(cacheDeMemoria[i].contenido, acceso, byte)
             \/ e.contenido = CopiaDeMarco(memoriaSistema', clave)
      PROVE  AlDia(cacheDeMemoria', contenidoLogico')
  <2>1. e.contenido = contenidoLogico'[e.clave]
    <3>1. ASSUME NEW i \in EnCache(clave),
                 e.contenido = ConByte(cacheDeMemoria[i].contenido, acceso, byte)
          PROVE  e.contenido = contenidoLogico'[clave]
      <4>1. cacheDeMemoria[i].contenido = contenidoLogico[clave]
        BY <1>1 DEF EnCache, AlDia
      <4>2. QED
        BY <1>3, <3>1, <4>1
    <3>2. QED
      BY <1>4, <1>6, <3>1
  <2>2. AlDia(r, contenidoLogico')
    <3>1. ASSUME NEW j \in DOMAIN r
          PROVE  r[j].contenido = contenidoLogico'[r[j].clave]
      <4>1. PICK k \in DOMAIN cacheDeMemoria : r[j] = cacheDeMemoria[k]
        BY <1>6
      <4>2. /\ r[j].clave \in Claves \ {clave}
            /\ r[j].contenido = contenidoLogico[r[j].clave]
        BY <1>1, <1>6, <4>1 DEF SinClave, AlDia, Entradas
      <4>3. QED
        BY <1>3, <4>2
    <3>2. QED
      BY <3>1 DEF AlDia
  <2>3. SinClave(r, e.clave)
    BY <1>6
  <2>4. QED
    BY <1>6, <2>1, <2>2, <2>3, ListaConUnaMas
<1>7. \/ EnCache(clave) = {} /\ cacheDeMemoria' = cacheDeMemoria
      \/ \E r \in Seq(Entradas), e \in Entradas :
           /\ cacheDeMemoria' = <<e>> \o r
           /\ UnaPorClave(r) /\ SinClave(r, clave) /\ e.clave = clave
           /\ \A j \in DOMAIN r : \E k \in DOMAIN cacheDeMemoria : r[j] = cacheDeMemoria[k]
           /\ \/ \E i \in EnCache(clave) :
                   e.contenido = ConByte(cacheDeMemoria[i].contenido, acceso, byte)
              \/ e.contenido = CopiaDeMarco(memoriaSistema', clave)
  BY <1>1, CacheTrasEscribir
<1>8. CASE \E r \in Seq(Entradas), e \in Entradas :
             /\ cacheDeMemoria' = <<e>> \o r
             /\ UnaPorClave(r) /\ SinClave(r, clave) /\ e.clave = clave
             /\ \A j \in DOMAIN r : \E k \in DOMAIN cacheDeMemoria : r[j] = cacheDeMemoria[k]
             /\ \/ \E i \in EnCache(clave) :
                     e.contenido = ConByte(cacheDeMemoria[i].contenido, acceso, byte)
                \/ e.contenido = CopiaDeMarco(memoriaSistema', clave)
  <2>1. PICK r \in Seq(Entradas), e \in Entradas :
             /\ cacheDeMemoria' = <<e>> \o r
             /\ UnaPorClave(r) /\ SinClave(r, clave) /\ e.clave = clave
             /\ \A j \in DOMAIN r : \E k \in DOMAIN cacheDeMemoria : r[j] = cacheDeMemoria[k]
             /\ \/ \E i \in EnCache(clave) :
                     e.contenido = ConByte(cacheDeMemoria[i].contenido, acceso, byte)
                \/ e.contenido = CopiaDeMarco(memoriaSistema', clave)
    BY <1>8
  <2>2. QED
    BY <1>6, <2>1
<1>9. QED
  BY <1>5, <1>7, <1>8

LEMMA FielSigue ==
  ASSUME DesdeElPrincipio
  PROVE  Fiel /\ [Next]_vars => Fiel'
<1> SUFFICES ASSUME Fiel, [Next]_vars
             PROVE  Fiel'
  OBVIOUS
<1>1. /\ TypeOK /\ UnaPorClave(cacheDeMemoria) /\ MarcosAlDia
      /\ AlDia(cacheDeMemoria, contenidoLogico)
  BY DEF Fiel, CacheUnica
<1>2. CacheUnica'
  BY UnicaSigue DEF Fiel
<1>3. ASSUME UNCHANGED << memoriaSistema, contenidoLogico >>,
             AlDia(cacheDeMemoria', contenidoLogico)
      PROVE  Fiel'
  BY <1>1, <1>2, <1>3 DEF Fiel, MarcosAlDia, ByteEn, AlDia
<1>4. ASSUME NEW clave \in Claves, NEW acceso \in Accesos, NEW byte \in Bytes,
             almacenarBytesEnMemoria(clave, acceso, byte)
      PROVE  Fiel'
  <2>1. MarcosAlDia'
    BY <1>1, <1>4, MarcosTrasEscribir
  <2>2. AlDia(cacheDeMemoria', contenidoLogico')
    BY <1>4, <2>1, CacheAlDiaTrasEscribir
  <2>3. QED
    BY <1>2, <2>1, <2>2 DEF Fiel, AlDia
<1>5. ASSUME NEW clave \in Claves, NEW acceso \in Accesos, leerDeCache(clave, acceso)
      PROVE  Fiel'
  <2>1. PICK i \in EnCache(clave) :
          /\ cacheDeMemoria' = <<cacheDeMemoria[i]>> \o RemoveAt(cacheDeMemoria, i)
          /\ UNCHANGED << memoriaSistema, contenidoLogico >>
    BY <1>5 DEF leerDeCache
  <2>2. i \in DOMAIN cacheDeMemoria
    BY DEF EnCache
  <2>3. AlDia(cacheDeMemoria', contenidoLogico)
    BY <1>1, <2>1, <2>2, CacheTrasLeer
  <2>4. QED
    BY <1>3, <2>1, <2>3
<1>6. ASSUME NEW clave \in Claves, NEW acceso \in Accesos, leerDeMarco(clave, acceso)
      PROVE  Fiel'
  BY <1>1, <1>3, <1>6 DEF leerDeMarco
<1>7. CASE flushCache
  <2>1. AlDia(<< >>, contenidoLogico)
    BY DEF AlDia
  <2>2. QED
    BY <1>3, <1>7, <2>1 DEF flushCache
<1>8. CASE UNCHANGED vars
  BY <1>1, <1>3, <1>8 DEF vars
<1>9. QED
  BY <1>4, <1>5, <1>6, <1>7, <1>8 DEF Next

(* What a read takes is in the page, whether it comes from the cache or    *)
(* from the frame.                                                         *)
LEMMA LeerDaLoEscrito ==
  ASSUME DesdeElPrincipio, Fiel, NEW clave \in Claves, NEW acceso \in Accesos,
         leerDeCache(clave, acceso) \/ leerDeMarco(clave, acceso)
  PROVE  Promesa!Leer(clave, acceso)
<1>1. /\ acceso.offset = 0 /\ acceso.tamanio \in Nat /\ acceso.tamanio <= MARCOS_SIZE
      /\ MARCOS_SIZE \in Nat /\ Comienzo(clave) \in Nat
  BY AccesosAssumption, ContenidoAssumption, Comienzos DEF DesdeElPrincipio
<1>2. UNCHANGED contenidoLogico
  BY DEF leerDeCache, leerDeMarco
<1>3. leido' = [k \in 1 .. acceso.tamanio |-> contenidoLogico[clave][acceso.offset + k - 1]]
  <2>1. CASE leerDeCache(clave, acceso)
    <3>1. PICK i \in EnCache(clave) :
            leido' = [k \in 1 .. acceso.tamanio |->
                        cacheDeMemoria[i].contenido[acceso.offset + k - 1]]
      BY <2>1 DEF leerDeCache
    <3>2. cacheDeMemoria[i].contenido = contenidoLogico[clave]
      BY DEF Fiel, AlDia, EnCache
    <3>3. QED
      BY <3>1, <3>2
  <2>2. CASE leerDeMarco(clave, acceso)
    <3>1. leido' = [k \in 1 .. acceso.tamanio |->
                      ByteEn(memoriaSistema,
                             EnTabla(Comienzo(clave) + acceso.offset) + k - 1)]
      BY <2>2 DEF leerDeMarco
    <3>2. ASSUME NEW k \in 1 .. acceso.tamanio
          PROVE  ByteEn(memoriaSistema, EnTabla(Comienzo(clave) + acceso.offset) + k - 1)
                   = contenidoLogico[clave][acceso.offset + k - 1]
      <4>1. /\ k - 1 \in Offsets /\ acceso.offset + k - 1 = k - 1
            /\ EnTabla(Comienzo(clave) + acceso.offset) + k - 1
                 = EnTabla(Comienzo(clave)) + (k - 1)
        BY <1>1 DEF Offsets, EnTabla, TamEntradaTabla
      <4>2. ByteEn(memoriaSistema, EnTabla(Comienzo(clave)) + (k - 1))
              = contenidoLogico[clave][k - 1]
        BY <4>1 DEF Fiel, MarcosAlDia
      <4>3. QED
        BY <4>1, <4>2
    <3>3. QED
      BY <3>1, <3>2
  <2>3. QED
    BY <2>1, <2>2
<1>4. QED
  BY <1>2, <1>3 DEF Promesa!Leer

LEMMA EscribirCumple ==
  ASSUME TypeOK, NEW clave \in Claves, NEW acceso \in Accesos, NEW byte \in Bytes,
         almacenarBytesEnMemoria(clave, acceso, byte)
  PROVE  Promesa!Escribir(clave, acceso, byte)
<1>1. /\ contenidoLogico' = [contenidoLogico EXCEPT ![clave] = ConByte(@, acceso, byte)]
      /\ UNCHANGED leido
  BY DEF almacenarBytesEnMemoria
<1>2. DOMAIN contenidoLogico[clave] = Offsets
  BY DEF TypeOK
<1>3. ConByte(contenidoLogico[clave], acceso, byte) =
        [o \in DOMAIN contenidoLogico[clave] |->
           IF o \in Promesa!OffsetsDe(acceso) THEN byte ELSE contenidoLogico[clave][o]]
  BY <1>2 DEF ConByte, Promesa!OffsetsDe
<1>4. QED
  BY <1>1, <1>3 DEF Promesa!Escribir

(* When the requests begin at the first byte, the frames and the cache     *)
(* together keep what PaginasFieles promises: a read returns the bytes     *)
(* that were put there last, wherever they are found, whatever was read,   *)
(* written, replaced in the cache or flushed meanwhile.                    *)
THEOREM LasPaginasSonFieles ==
  ASSUME DesdeElPrincipio
  PROVE  Spec => LecturaFiel
<1>1. Init => Promesa!Init
  BY DEF Init, Promesa!Init, Offsets
<1>2. Fiel /\ [Next]_vars => [Promesa!Next]_Promesa!vars
  <2> SUFFICES ASSUME Fiel, [Next]_vars
               PROVE  [Promesa!Next]_Promesa!vars
    OBVIOUS
  <2>1. TypeOK
    BY DEF Fiel, CacheUnica
  <2>2. ASSUME NEW clave \in Claves, NEW acceso \in Accesos, NEW byte \in Bytes,
               almacenarBytesEnMemoria(clave, acceso, byte)
        PROVE  Promesa!Next
    BY <2>1, <2>2, EscribirCumple DEF Promesa!Next
  <2>3. ASSUME NEW clave \in Claves, NEW acceso \in Accesos,
               leerDeCache(clave, acceso) \/ leerDeMarco(clave, acceso)
        PROVE  Promesa!Next
    BY <2>3, LeerDaLoEscrito DEF Promesa!Next
  <2>4. CASE flushCache \/ UNCHANGED vars
    BY <2>4 DEF flushCache, vars, Promesa!vars
  <2>5. QED
    BY <2>2, <2>3, <2>4 DEF Next
<1>3. QED
  BY <1>1, <1>2, FielInicial, FielSigue, PTL DEF Spec, LecturaFiel, Promesa!Spec
=============================================================================

SPECIFICATION Spec
CONSTANTS
  MARCOS_SIZE = 4
  ENTRADAS_CACHE = 2
  CACHE_X_PROC = 2
  Claves <- MCClaves
  Marco <- MCMarco
  Bytes <- MCBytes
  Accesos <- AccesosAlInicio
  ByteInicial = 0
PROPERTIES
  LecturaFiel
  AjenoIntacto

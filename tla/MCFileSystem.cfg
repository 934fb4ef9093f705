SPECIFICATION Spec
CONSTANTS
  Nombres <- MCNombres
  cantidad_bloque = 9
  Montajes <- MCMontajes
  MaxAbiertos = 2
INVARIANTS
  BloquesPropios
  CuentasClaras
PROPERTIES
  NingunArchivoNace
  CrearSoloSinBloques
  ContestaOTermina

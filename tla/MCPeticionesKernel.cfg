SPECIFICATION Spec
CONSTANTS
  CPUs = {c1, c2}
  Consolas = {o1}
  Ajenos = {o1}
  KERNEL = KERNEL
  SHARED_VARS <- MCVariables
  Nombres <- MCNombres
  Valores <- MCValores
  Operaciones <- TodasLasOperaciones
  Rutas <- MCRutas
  MaxMensajes = 3
  MaxRepiten = 1
SYMMETRY MCSimetria
INVARIANTS
  LosVivosSiguenConectados
  TablasVacias
  AbrirNoVuelve
PROPERTIES
  EnOrden
  ArchivosNuncaSirven
  ValorVigente
\* The bound on packets, and the CPUs that wait for ever.
CHECK_DEADLOCK FALSE

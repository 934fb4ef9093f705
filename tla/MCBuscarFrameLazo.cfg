SPECIFICATION SpecLazo
CONSTANT MARCOS = 7
INVARIANTS
  ResultadoExacto
PROPERTY TerminaSiNoCuelga
\* The search is over once it has returned.
CHECK_DEADLOCK FALSE

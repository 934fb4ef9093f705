---------------------------- MODULE MCFileSystem ----------------------------
(* Nine blocks, one more than the bitmap sees: a new mount point, one with *)
(* room, one whose block 0 is free and one whose only room is block 8.     *)
EXTENDS FileSystem

MCNombres == {"f", "g"}

Archivo(b) == [tipo |-> "archivo", bloques |-> b]
Montaje(deF, deG) ==
  [archivos |-> [n \in MCNombres |-> IF n = "f" THEN deF ELSE deG], bitmap |-> "entero",
   marcados |-> BloquesDe(deF) \cup BloquesDe(deG)]

MCMontajes ==
  {[Montaje(Nada, Nada) EXCEPT !.bitmap = "falta"],
   Montaje(Archivo(<<0, 1>>), Archivo(<<3>>)),
   Montaje(Archivo(<<2, 8>>), Nada),
   Montaje(Archivo(<<0, 5, 6, 7>>), Archivo(<<4, 3, 2, 1>>))}
=============================================================================

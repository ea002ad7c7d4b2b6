---------------------------- MODULE MCFileSystem ----------------------------
(* Instances of FileSystem for TLC. *)
EXTENDS FileSystem

Symmetry == Permutations(Procs) \cup Permutations(Names \ {Dot})
=============================================================================

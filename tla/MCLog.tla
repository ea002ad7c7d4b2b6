------------------------------- MODULE MCLog -------------------------------
(* Instances of Log for TLC. *)
EXTENDS Log, TLC

\* Operations are interchangeable, and so are blocks of one kind.
Symmetry == Permutations(Ops) \cup Permutations(Direct) \cup Permutations(Blocks \ Direct)
=============================================================================

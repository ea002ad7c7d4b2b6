---------------------------- MODULE MCSleepWake ----------------------------
(* Instances of SleepWake for TLC. *)
EXTENDS SleepWake, TLC

\* The processes other than root_proc are interchangeable, and so are CPUs.
Symmetry == Permutations(Procs \ {Root}) \cup Permutations(CPUs)
=============================================================================

---------------------------- MODULE MCProcesses ----------------------------
(***************************************************************************)
(* An instance for TLC of three ways in which processes meet that share no  *)
(* state: a behaviour is one of the message queues, of the process tree or  *)
(* of the pipes.                                                            *)
(***************************************************************************)
EXTENDS TLC, MsgQueue, ProcTree, Pipes

\* Any message, those of type 1, the least of type 1 or 2.
Asked == {0, 1, -2}

\* Processes are interchangeable: Others is the same set.
Symmetry == Permutations(Procs)

VARIABLE part

partVars == <<part, vars, procVars, pipeVars>>

PartsInit ==
    /\ part \in {"messages", "tree", "pipes"}
    /\ Init /\ ProcInit /\ PipesInit

PartsNext ==
    /\ UNCHANGED part
    /\ \/ part = "messages" /\ Next /\ UNCHANGED <<procVars, pipeVars>>
       \/ part = "tree" /\ ProcNext /\ UNCHANGED <<vars, pipeVars>>
       \/ part = "pipes" /\ PipesNext /\ UNCHANGED <<vars, procVars>>

PartsSpec == PartsInit /\ [][PartsNext]_partVars
=============================================================================

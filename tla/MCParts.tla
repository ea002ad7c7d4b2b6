------------------------------ MODULE MCParts ------------------------------
(***************************************************************************)
(* An instance for TLC of four parts of the kernel that share no state: a   *)
(* behaviour is one of the red-black tree, of the memory, of the SD card or *)
(* of the files' data.                                                      *)
(***************************************************************************)
EXTENDS TLC, RBTreeClient, Memory, SdQueue, FileData

\* Two nodes in a row have the same key.
HalfKeys == [n \in Nodes |-> n \div 2]

\* A file of one block, and one that needs the indirect block.
OneBlock == <<[name |-> "a", bytes |-> <<"x">>]>>
SmallImages == {OneBlock,
                <<[name |-> "a", bytes |-> <<"x", "x", "x">>]>>}

\* No action tells two processes apart.
Sym == Permutations(Owners)

VARIABLE part

partVars == <<part, treeVars, memVars, sdVars, vars>>

PartsInit ==
    /\ part \in {"tree", "memory", "sd", "data"}
    /\ TreeInit /\ MemoryInit /\ SdInit /\ Init
    /\ part # "data" => mkfs.argv = OneBlock

PartsNext ==
    /\ UNCHANGED part
    /\ \/ part = "tree" /\ TreeNext /\ UNCHANGED <<memVars, sdVars, vars>>
       \/ part = "memory" /\ MemoryNext /\ UNCHANGED <<treeVars, sdVars, vars>>
       \/ part = "sd" /\ SdNext /\ UNCHANGED <<treeVars, memVars, vars>>
       \/ part = "data" /\ Next /\ UNCHANGED <<treeVars, memVars, sdVars>>

PartsSpec == PartsInit /\ [][PartsNext]_partVars
=============================================================================

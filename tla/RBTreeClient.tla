---------------------------- MODULE RBTreeClient ----------------------------
(***************************************************************************)
(* A caller of the red-black tree that inserts and erases its nodes in any  *)
(* order, with its lock held.  The order of the caller compares the keys of *)
(* its nodes; nodes may have equal keys, and _rb_insert then refuses one.   *)
(***************************************************************************)
EXTENDS RBTree

CONSTANTS Nodes, Keyed    \* the nodes, and the key of each
ASSUME NodesAssumption == IsFiniteSet(Nodes) /\ Nil \notin Nodes
ASSUME KeyedAssumption == Keyed \in [Nodes -> Int]

VARIABLES tree, held
treeVars == <<tree, held>>

TreeInit == tree = Blank(Nodes) /\ held = {}

TreeInsert(n) ==
    LET r == Insert(tree, Keyed, n) IN
    /\ n \notin held
    /\ tree' = r.tree
    /\ held' = IF r.ret = 0 THEN held \cup {n} ELSE held

TreeErase(n) ==
    /\ n \in held
    /\ tree' = Erase(tree, n)
    /\ held' = held \ {n}

TreeNext == \E n \in Nodes : TreeInsert(n) \/ TreeErase(n)
TreeSpec == TreeInit /\ [][TreeNext]_treeVars

-----------------------------------------------------------------------------
(* Properties *)

\* The number of black nodes on the way down from a node by its left kids.
LeftBlacks(t) ==
    LET blacks[n \in NodesOf(t) \cup {Nil}] ==
            IF n = Nil THEN 0
            ELSE blacks[t.kid[n]["left"]] + (IF IsRed(t, n) THEN 0 ELSE 1)
    IN  blacks

\* No red node has a red child, the root is black, and every way down has as
\* many black nodes.
Balanced ==
    /\ ~ IsRed(tree, tree.root)
    /\ \A n \in held :
        /\ \A d \in Sides : IsRed(tree, n) => ~ IsRed(tree, tree.kid[n][d])
        /\ LeftBlacks(tree)[tree.kid[n]["left"]] = LeftBlacks(tree)[tree.kid[n]["right"]]

\* The keys to the left of a node are less than its own, those to the right
\* are greater, and a child knows its parent.
Ordered ==
    \A n \in held :
        /\ \A m \in Below(tree)[tree.kid[n]["left"]] : Keyed[m] < Keyed[n]
        /\ \A m \in Below(tree)[tree.kid[n]["right"]] : Keyed[n] < Keyed[m]
        /\ \A d \in Sides : tree.kid[n][d] # Nil => tree.up[tree.kid[n][d]] = n

\* A lookup returns the node with an equal key, when there is one.
LooksUp(n) ==
    LET same == {k \in held : Keyed[k] = Keyed[n]}
    IN  IF same = {} THEN Lookup(tree, Keyed, n) = Nil ELSE Lookup(tree, Keyed, n) \in same

\* _rb_first returns the node with the least key.
FirstIsLeast ==
    IF held = {} THEN First(tree) = Nil
    ELSE First(tree) \in held /\ \A n \in held : Keyed[First(tree)] <= Keyed[n]

\* After any sequence of _rb_insert and _rb_erase the tree is balanced, links
\* exactly the nodes that were inserted and not erased, in the order of their
\* keys, and a lookup and _rb_first find what they are asked for.
TreeIsCorrect ==
    /\ Holds(tree) = held
    /\ Balanced
    /\ Ordered
    /\ \A n \in Nodes : LooksUp(n)
    /\ FirstIsLeast
=============================================================================

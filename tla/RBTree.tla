------------------------------- MODULE RBTree -------------------------------
(***************************************************************************)
(* The red-black tree of common/rbtree.c: nodes linked by pointers, a       *)
(* caller who holds a lock, an order that the caller gives.  The two        *)
(* mirrored halves of each loop are one operator with the side as           *)
(* parameter, and each loop is a function of the number of turns (to the   *)
(* one state that they lead to).                                            *)
(***************************************************************************)
EXTENDS Integers, FiniteSets, Sequences

CONSTANT Nil    \* the null pointer

Sides == {"left", "right"}
Other(d) == IF d = "left" THEN "right" ELSE "left"
Colors == {"red", "black"}

\* rb_node_ and rb_root_: a colour and a parent (one word), two children.
NoKids == [d \in Sides |-> Nil]
Blank(S) == [root |-> Nil, up |-> [n \in S |-> Nil], color |-> [n \in S |-> "red"],
             kid |-> [n \in S |-> NoKids]]

\* The nodes that a tree may link.  No loop takes more turns than there are.
NodesOf(t) == DOMAIN t.up
MaxTurns(t) == Cardinality(NodesOf(t))

IsRed(t, n) == n # Nil /\ t.color[n] = "red"

\* rb_set_parent_color, behind the test for a null pointer.
SetParentColor(t, n, p, c) ==
    IF n = Nil THEN t ELSE [t EXCEPT !.up[n] = p, !.color[n] = c]

\* __rb_change_child
ChangeChild(t, old, new, p) ==
    IF p = Nil THEN [t EXCEPT !.root = new]
    ELSE [t EXCEPT !.kid[p][IF t.kid[p]["left"] = old THEN "left" ELSE "right"] = new]

\* __rb_rotate_set_parents
RotateSetParents(t, old, new, c) ==
    ChangeChild([t EXCEPT !.up[new] = t.up[old], !.color[new] = t.color[old],
                          !.up[old] = new, !.color[old] = c],
                old, new, t.up[old])

\* The child of n on side d becomes a child of p on the other side, and p the
\* child of n there: the pointers of a rotation below their top.
Lift(t, n, d, p) == [t EXCEPT !.kid[p][Other(d)] = t.kid[n][d], !.kid[n][d] = p]

-----------------------------------------------------------------------------
(* Insertion *)

\* Mutant of Recolored: the grandparent stays black.
RecoloredHalf(t, parent, uncle, gp) ==
    [t EXCEPT !.color[uncle] = "black", !.color[parent] = "black"]

\* Case 1 of the insertion, the uncle is red.
Recolored(t, parent, uncle, gp) ==
    [t EXCEPT !.color[uncle] = "black", !.color[parent] = "black", !.color[gp] = "red"]

\* Cases 2 and 3: the parent, on side d of the grandparent, is red and the
\* uncle is black.
InsertRotated(t, node, parent, gp, d) ==
    LET e == Other(d)
        inner == node = t.kid[parent][e]
        x == t.kid[node][d]
        t1 == IF inner
              THEN SetParentColor(SetParentColor(Lift(t, node, d, parent), x, parent, "black"),
                                  parent, node, "red")
              ELSE t
        top == IF inner THEN node ELSE parent
        y == t1.kid[top][e]
        t2 == SetParentColor([t1 EXCEPT !.kid[gp][d] = y, !.kid[top][e] = gp], y, gp, "black")
    IN  RotateSetParents(t2, gp, top, "red")

\* One turn of the loop of __rb_insert_fix, which is left when node is null.
InsertTurn(s) ==
    LET t == s.tree
        node == s.node
        parent == t.up[node]
        gp == t.up[parent]
        d == IF parent # t.kid[gp]["right"] THEN "left" ELSE "right"
        uncle == t.kid[gp][Other(d)]
    IN  IF node = Nil THEN s
        ELSE IF parent = Nil
        THEN [tree |-> [t EXCEPT !.color[node] = "black", !.root = node], node |-> Nil]
        ELSE IF t.color[parent] = "black" THEN [tree |-> t, node |-> Nil]
        ELSE IF IsRed(t, uncle) THEN [tree |-> Recolored(t, parent, uncle, gp), node |-> gp]
        ELSE [tree |-> InsertRotated(t, node, parent, gp, d), node |-> Nil]

\* __rb_insert_fix
InsertFix(t, node) ==
    LET run[k \in Nat] ==
            IF k = 0 THEN {[tree |-> t, node |-> node]} ELSE {InsertTurn(s) : s \in run[k - 1]}
    IN  (CHOOSE s \in run[MaxTurns(t)] : TRUE).tree

\* The side on which a search goes on from n, or "here".
Way(key, node, n) ==
    CASE key[node] < key[n] -> "left" [] key[n] < key[node] -> "right" [] OTHER -> "here"

\* One turn of a search: it stays at an equal node, and at the last one on the
\* way down.
SearchTurn(t, key, node, n) ==
    LET w == Way(key, node, n) IN
    IF w = "here" THEN n ELSE IF t.kid[n][w] = Nil THEN n ELSE t.kid[n][w]

\* Where a search ends.
Search(t, key, node) ==
    LET at[k \in Nat] ==
            IF k = 0 THEN t.root ELSE SearchTurn(t, key, node, at[k - 1])
    IN  at[MaxTurns(t)]

\* _rb_insert: the new tree and the returned value.
Insert(t, key, node) ==
    LET p == Search(t, key, node)
        w == Way(key, node, p)
        t0 == [t EXCEPT !.kid[node] = NoKids, !.up[node] = Nil, !.color[node] = "red"]
    IN  IF t.root = Nil THEN [tree |-> InsertFix(t0, node), ret |-> 0]
        ELSE IF w = "here" THEN [tree |-> t0, ret |-> -1]
        ELSE [tree |-> InsertFix([t0 EXCEPT !.kid[p][w] = node, !.up[node] = p], node), ret |-> 0]

\* _rb_lookup
Lookup(t, key, node) ==
    LET p == Search(t, key, node) IN
    IF t.root # Nil /\ Way(key, node, p) = "here" THEN p ELSE Nil

-----------------------------------------------------------------------------
(* Removal *)

\* The leftmost node below n; _rb_first.
Leftmost(t, n) ==
    LET down[m \in NodesOf(t)] == IF t.kid[m]["left"] = Nil THEN m ELSE down[t.kid[m]["left"]]
    IN  down[n]

First(t) == IF t.root = Nil THEN Nil ELSE Leftmost(t, t.root)

\* __rb_erase of a node with two children: its successor takes its place.
Unlink(t, node) ==
    LET child == t.kid[node]["right"]
        succ == Leftmost(t, child)
        child2 == t.kid[succ]["right"]
        parent == IF succ = child THEN succ ELSE t.up[succ]
        t1 == IF succ = child THEN t
              ELSE [t EXCEPT !.kid[parent]["left"] = child2, !.kid[succ]["right"] = child,
                             !.up[child] = succ]
        t2 == [t1 EXCEPT !.kid[succ]["left"] = t.kid[node]["left"],
                         !.up[t.kid[node]["left"]] = succ]
        t3 == ChangeChild(t2, node, succ, t.up[node])
        t4 == [t3 EXCEPT !.up[succ] = t.up[node], !.color[succ] = t.color[node]]
    IN  [tree |-> SetParentColor(t4, child2, parent, "black"),
         rebalance |-> IF child2 = Nil /\ t.color[succ] = "black" THEN parent ELSE Nil]

\* __rb_erase of a node with at most one child, which takes over its place,
\* its parent and its colour.
UnlinkLeaf(t, node) ==
    LET child == IF t.kid[node]["left"] = Nil THEN t.kid[node]["right"] ELSE t.kid[node]["left"]
        t1 == ChangeChild(t, node, child, t.up[node])
    IN  [tree |-> SetParentColor(t1, child, t.up[node], t.color[node]),
         rebalance |-> IF child = Nil /\ t.color[node] = "black" THEN t.up[node] ELSE Nil]

\* The end of __rb_erase_fix: sibling s of the short side goes up, and far is
\* its child on side d.
EraseRotated(t, parent, s, far, d) ==
    LET near == t.kid[s][Other(d)]
        t1 == Lift(t, s, Other(d), parent)
        t2 == IF near = Nil THEN t1 ELSE [t1 EXCEPT !.up[near] = parent]
    IN  RotateSetParents(SetParentColor(t2, far, s, "black"), parent, s, "black")

\* Case 1 of __rb_erase_fix: a red sibling goes up.
RedSiblingUp(t, parent, s, d) ==
    LET near == t.kid[s][Other(d)]
    IN  RotateSetParents(SetParentColor(Lift(t, s, Other(d), parent), near, parent, "black"),
                         parent, s, "red")

\* Case 3 of __rb_erase_fix: near, the red child of the sibling s, goes up.
RedNearUp(t, parent, s, near, d) ==
    LET x == t.kid[near][d]
    IN  SetParentColor([t EXCEPT !.kid[s][Other(d)] = x, !.kid[near][d] = s, !.kid[parent][d] = near],
                       x, s, "black")

\* One turn of the loop of __rb_erase_fix, which is left when parent is null:
\* the side of node below parent lacks one black node.
EraseTurn(run) ==
    LET parent == run.parent
        d == IF run.node # run.tree.kid[parent]["right"] THEN "right" ELSE "left"
        s0 == run.tree.kid[parent][d]
        t == IF IsRed(run.tree, s0) THEN RedSiblingUp(run.tree, parent, s0, d) ELSE run.tree
        s == t.kid[parent][d]
        far == t.kid[s][d]
        near == t.kid[s][Other(d)]
        t2 == SetParentColor(t, s, parent, "red")
        Left(tree) == [tree |-> tree, node |-> Nil, parent |-> Nil]
    IN  IF parent = Nil THEN run
        ELSE IF IsRed(t, far) THEN Left(EraseRotated(t, parent, s, far, d))
        ELSE IF IsRed(t, near)
        THEN Left(EraseRotated(RedNearUp(t, parent, s, near, d), parent, near, s, d))
        ELSE IF IsRed(t, parent) THEN Left([t2 EXCEPT !.color[parent] = "black"])
        ELSE [tree |-> t2, node |-> parent, parent |-> t.up[parent]]

\* __rb_erase_fix
EraseFix(t, parent) ==
    LET run[k \in Nat] ==
            IF k = 0 THEN {[tree |-> t, node |-> Nil, parent |-> parent]}
            ELSE {EraseTurn(s) : s \in run[k - 1]}
    IN  (CHOOSE s \in run[MaxTurns(t)] : TRUE).tree

\* _rb_erase.  The words of the erased node are not read again before it is
\* inserted, which clears them; they are cleared here.
Erase(t, node) ==
    LET u == IF t.kid[node]["left"] # Nil /\ t.kid[node]["right"] # Nil
             THEN Unlink(t, node) ELSE UnlinkLeaf(t, node)
        t1 == IF u.rebalance = Nil THEN u.tree ELSE EraseFix(u.tree, u.rebalance)
    IN  [t1 EXCEPT !.kid[node] = NoKids, !.up[node] = Nil, !.color[node] = "red"]

-----------------------------------------------------------------------------
(* What a tree holds *)

\* For every node, the nodes below it and itself.
Below(t) ==
    LET below[n \in NodesOf(t) \cup {Nil}] ==
            IF n = Nil THEN {}
            ELSE {n} \cup below[t.kid[n]["left"]] \cup below[t.kid[n]["right"]]
    IN  below

Holds(t) == Below(t)[t.root]
=============================================================================

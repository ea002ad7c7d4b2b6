------------------------------- MODULE KList -------------------------------
(***************************************************************************)
(* The kernel's intrusive circular lists (common/list.c), as sequences: the *)
(* node after the list head is element 1, the node before it is the last.  *)
(***************************************************************************)
EXTENDS Integers, Sequences

\* The nodes linked into a list.
Members(s) == {s[i] : i \in DOMAIN s}

\* _insert_into_list(&head, &node): the node becomes head.next.
InsertHead(s, x) == <<x>> \o s

\* The place of node x in the list s.
Place(s, x) == CHOOSE i \in DOMAIN s : s[i] = x

\* The list without its k-th node.
Without(s, k) == [i \in 1 .. Len(s) - 1 |-> IF i < k THEN s[i] ELSE s[i + 1]]

\* _detach_from_list(&node): unlinks the node; a node linked to itself is
\* in no list and stays so.
Detach(s, x) == IF x \in Members(s) THEN Without(s, Place(s, x)) ELSE s

\* No node is linked twice.
Distinct(s) == \A i, j \in DOMAIN s : s[i] = s[j] => i = j
=============================================================================

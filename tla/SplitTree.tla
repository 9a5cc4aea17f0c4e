------------------------------ MODULE SplitTree ------------------------------
(***************************************************************************)
(* The split tree of both front ends (window.ss, qt/window.ss).  A leaf is *)
(* the number of its window, greater than 0; a split node is a number      *)
(* below 0, and `children' gives its children in order.  The structs of    *)
(* the source are compared by identity, which the numbers stand for.       *)
(***************************************************************************)
EXTENDS Integers, Sequences, FiniteSets, TLC, SequencesExt

Orientations == {"h", "v"}

IsLeaf(n) == n > 0

\* SequencesExt has no position of an element.
IndexOf(s, e) == CHOOSE i \in DOMAIN s : s[i] = e

Put(f, x, y) == [z \in DOMAIN f \cup {x} |-> IF z = x THEN y ELSE f[z]]
Drop(f, X) == [z \in DOMAIN f \ X |-> f[z]]

\* split-tree-flatten: the windows under a node, in order.
Flatten(children, n) ==
    LET flat[m \in Int] ==
            IF m \in DOMAIN children
              THEN FlattenSeq([i \in DOMAIN children[m] |-> flat[children[m][i]]])
              ELSE <<m>>
    IN flat[n]

\* split-tree-find-parent, split-tree-find-parent-of-node: the node that has n
\* as a direct child, in a set of none or one.
Parents(children, n) == {p \in DOMAIN children : n \in ToSet(children[p])}

\* split-tree-replace-child!
ReplaceChild(children, p, old, new) ==
    [children EXCEPT ![p] = ReplaceAll(@, old, new)]

\* A new sibling after a child.
InsertChild(children, p, child, new) ==
    [children EXCEPT ![p] = InsertAt(@, IndexOf(@, child) + 1, new)]
==============================================================================

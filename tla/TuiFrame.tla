------------------------------- MODULE TuiFrame ------------------------------
(***************************************************************************)
(* The frame of the terminal front end (window.ss): the same tree of       *)
(* splits and list of windows as the Qt one, with the position and size of *)
(* every window computed by the program, in terminal cells.                *)
(***************************************************************************)
EXTENDS SplitTree

CONSTANTS
    MaxWindows,     \* bound: windows ever created
    MaxBias,        \* bound: the bias a window may have, either way
    Screens         \* the <<width, height>> the terminal may take

ASSUME TuiFrameAssumption ==
    /\ MaxWindows \in Nat \ {0}
    /\ MaxBias \in Nat
    /\ Screens # {} /\ Screens \subseteq (Nat \ {0}) \X (Nat \ {0, 1})

VARIABLE fr     \* the frame: see FrameInit

Current(f) == f.windows[f.current + 1]

------------------------------------------------------------------------------
(* Layout.                                                                 *)

\* Scheme's quotient and remainder round toward zero.
Quotient(a, n) == IF a >= 0 THEN a \div n ELSE -((-a) \div n)
Remainder(a, n) == a - n * Quotient(a, n)

\* Sums(s)[i] is the sum of the first i elements of s.
Sums(s) ==
    LET sum[i \in 0 .. Len(s)] == IF i = 0 THEN 0 ELSE sum[i - 1] + s[i] IN sum

\* The shares without the remainder.
SharesUneven(nodes, bias, avail, least) ==
    [i \in DOMAIN nodes |->
        LET size == Quotient(avail, Len(nodes)) + (IF IsLeaf(nodes[i]) THEN bias[nodes[i]] ELSE 0)
        IN IF size < least THEN least ELSE size]

\* The shares of the children of a node in the space avail: even, with the bias
\* of a window, but at least least; the first child takes what is left or lacking.
Shares(nodes, bias, avail, least) ==
    LET k == Len(nodes)
        wish(i) == Quotient(avail, k) + (IF i - 1 < Remainder(avail, k) THEN 1 ELSE 0)
                                      + (IF IsLeaf(nodes[i]) THEN bias[nodes[i]] ELSE 0)
        sizes == [i \in 1 .. k |-> IF wish(i) < least THEN least ELSE wish(i)]
    IN [i \in 1 .. k |-> IF i = 1 THEN sizes[1] + avail - Sums(sizes)[k] ELSE sizes[i]]

Box(x, y, w, h) == [x |-> x, y |-> y, w |-> w, h |-> h]

\* split-tree-layout!: the box of child i of a node, inside that of the node.  A
\* vertical split stacks its children, a horizontal one puts them side by side
\* with a column between them.
ChildBox(nodes, orient, bias, i, box) ==
    LET k == Len(nodes)
        v == orient = "v"
        share == IF v THEN Shares(nodes, bias, box.h, 2)
                      ELSE Shares(nodes, bias, box.w - (k - 1), 4)
        start == Sums(share)[i - 1]
    IN IF v THEN Box(box.x, box.y + start, box.w, share[i])
            ELSE Box(box.x + start + i - 1, box.y, share[i], box.h)

\* The boxes of all nodes: the recursion passes each child its box.
Boxes(children, orient, bias, screen) ==
    LET place[n \in Int] ==
            LET ps == Parents(children, n)
                p == CHOOSE q \in ps : TRUE
            IN IF ps = {} THEN screen
               ELSE ChildBox(children[p], orient[p], bias, IndexOf(children[p], n), place[p])
    IN place

\* All rows but the last, which is the echo area.
Area(screen) == Box(0, 0, screen[1], screen[2] - 1)

\* frame-layout!: the box of every window.
Layout(tree, bias, screen) ==
    LET boxes == Boxes(tree.children, tree.orient, bias, Area(screen)) IN
    [w \in ToSet(Flatten(tree.children, tree.root)) |-> boxes[w]]

\* A frame that has been laid out.
LaidOut(tree, windows, current, screen, bias, editors, made) ==
    [tree |-> tree,             \* the split tree: root, children, orient
     windows |-> windows,       \* the flat list
     current |-> current,       \* the index of the selected window
     screen |-> screen,         \* width and height
     bias |-> bias,             \* window -> size-bias
     editors |-> editors,       \* editors not destroyed
     made |-> made,             \* windows created
     box |-> Layout(tree, bias, screen)]

------------------------------------------------------------------------------
(* The operations.                                                         *)

Single(w) == [root |-> w, children |-> <<>>, orient |-> <<>>]

\* frame-init!
FrameInit(screen) ==
    [tree |-> Single(1), windows |-> <<1>>, current |-> 0, screen |-> screen,
     bias |-> [w \in {1} |-> 0], editors |-> {1}, made |-> 1,
     box |-> [w \in {1} |-> Area(screen)]]

\* The three cases of frame-do-split!: a sibling, or a new node in place of
\* the current window, which is the root or a child.
SplitTreeAt(tree, cur, o, w) ==
    LET ps == Parents(tree.children, cur)
        p == CHOOSE q \in ps : TRUE
        node == -w
        put(children) == Put(children, node, <<cur, w>>)
    IN IF ps = {}
         THEN [root |-> node, children |-> put(tree.children), orient |-> Put(tree.orient, node, o)]
       ELSE IF tree.orient[p] = o
         THEN [root |-> tree.root, children |-> InsertChild(tree.children, p, cur, w),
               orient |-> tree.orient]
       ELSE [root |-> tree.root, children |-> put(ReplaceChild(tree.children, p, cur, node)),
             orient |-> Put(tree.orient, node, o)]

\* frame-do-split!: the list is rebuilt and the new window selected.
Split(f, o) ==
    LET w == f.made + 1
        tree == SplitTreeAt(f.tree, Current(f), o, w)
        list == Flatten(tree.children, tree.root)
    IN LaidOut(tree, list, IndexOf(list, w) - 1, f.screen, Put(f.bias, w, 0), f.editors \cup {w}, w)

\* A node keeps its last child.
CutTreeLeavingNode(tree, p, rest) ==
    [root |-> tree.root, children |-> [tree.children EXCEPT ![p] = rest], orient |-> tree.orient]

\* The tree without a child of p: a node left with one child is replaced by it.
CutTree(tree, p, rest) ==
    LET gs == Parents(tree.children, p)
        cut == [tree.children EXCEPT ![p] = rest]
    IN IF Len(rest) # 1
         THEN [root |-> tree.root, children |-> cut, orient |-> tree.orient]
       ELSE IF gs = {}
         THEN [root |-> rest[1], children |-> Drop(cut, {p}), orient |-> Drop(tree.orient, {p})]
       ELSE [root |-> tree.root,
             children |-> Drop(ReplaceChild(cut, CHOOSE g \in gs : TRUE, p, rest[1]), {p}),
             orient |-> Drop(tree.orient, {p})]

SelectFirst(i, n) == 0

\* The selection after the deletion of window i, when n are left.
SelectAfter(i, n) == IF i >= n THEN n - 1 ELSE i

\* frame-delete-window!
Delete(f) ==
    LET w == Current(f)
        p == CHOOSE q \in Parents(f.tree.children, w) : TRUE
        tree == CutTree(f.tree, p, RemoveFirst(f.tree.children[p], w))
        list == Flatten(tree.children, tree.root)
    IN LaidOut(tree, list, SelectAfter(f.current, Len(list)), f.screen, Drop(f.bias, {w}),
               f.editors \ {w}, f.made)

\* frame-delete-other-windows!
DeleteOthers(f) ==
    LET cur == Current(f) IN
    LaidOut(Single(cur), <<cur>>, 0, f.screen, [w \in {cur} |-> f.bias[w]], f.editors \cap {cur}, f.made)

\* The next window of the list, or the previous one of the last.
Neighbour(f) ==
    LET i == f.current IN f.windows[IF i < Len(f.windows) - 1 THEN i + 2 ELSE i]

Rebias(f, bias) == LaidOut(f.tree, f.windows, f.current, f.screen, bias, f.editors, f.made)

EnlargeTakingNothing(f, d) == Rebias(f, [f.bias EXCEPT ![Current(f)] = @ + d])

\* frame-enlarge-window!: the neighbour gives what the current window takes.
Enlarge(f, d) == Rebias(f, [f.bias EXCEPT ![Current(f)] = @ + d, ![Neighbour(f)] = @ - d])

------------------------------------------------------------------------------
Init == \E s \in Screens : fr = FrameInit(s)

SplitWindow(o) == fr.made < MaxWindows /\ fr' = Split(fr, o)

DeleteWindow == Len(fr.windows) > 1 /\ fr' = Delete(fr)

DeleteOtherWindows == fr' = DeleteOthers(fr)

\* frame-other-window!
OtherWindow == fr' = [fr EXCEPT !.current = (@ + 1) % Len(fr.windows)]

\* frame-enlarge-window!, frame-shrink-window! and their horizontal aliases.
EnlargeWindow(d) ==
    /\ Len(fr.windows) > 1
    /\ LET f == Enlarge(fr, d) IN
       /\ \A w \in DOMAIN f.bias : f.bias[w] \in (-MaxBias) .. MaxBias
       /\ fr' = f

\* frame-resize!
Resize(s) == fr' = LaidOut(fr.tree, fr.windows, fr.current, s, fr.bias, fr.editors, fr.made)

Next ==
    \/ \E o \in Orientations : SplitWindow(o)
    \/ DeleteWindow
    \/ DeleteOtherWindows
    \/ OtherWindow
    \/ \E d \in {1, -1} : EnlargeWindow(d)
    \/ \E s \in Screens : Resize(s)

Spec == Init /\ [][Next]_fr

------------------------------------------------------------------------------
(* Properties.                                                             *)

\* The shape of the frame: the list is the tree read in order, every split has
\* two children or more, and exactly the editors, boxes and biases of the
\* windows of the list are alive (window.ss frame, editor-destroy).
TypeOK ==
    /\ fr.made \in 1 .. MaxWindows
    /\ fr.current \in 0 .. Len(fr.windows) - 1
    /\ DOMAIN fr.tree.orient = DOMAIN fr.tree.children
    /\ DOMAIN fr.bias = ToSet(fr.windows)
    /\ DOMAIN fr.box = ToSet(fr.windows)
    /\ fr.screen \in Screens
    /\ fr.windows = Flatten(fr.tree.children, fr.tree.root)
    /\ IsInjective(fr.windows)
    /\ \A n \in DOMAIN fr.tree.children : Len(fr.tree.children[n]) >= 2
    /\ fr.editors = ToSet(fr.windows)

\* The terminal's windows as a list with a selection: the same promise as the
\* Qt frame's.
List == INSTANCE WindowList WITH
            Windows <- 1 .. MaxWindows, list <- fr.windows, selected <- fr.current
ListSpec == List!Spec

Cells(w) == LET b == fr.box[w] IN (b.x .. b.x + b.w - 1) \X (b.y .. b.y + b.h - 1)

Roomy == \A w \in ToSet(fr.windows) : fr.box[w].w > 0 /\ fr.box[w].h > 0

\* Unless the frame is so small that a window gets no room, each cell above the
\* echo area belongs to one window or is a divider, the column just right of
\* some window (split-tree-layout!).
Tiled ==
    Roomy =>
      /\ \A v, w \in ToSet(fr.windows) : v # w => Cells(v) \cap Cells(w) = {}
      /\ LET screen == (0 .. fr.screen[1] - 1) \X (0 .. fr.screen[2] - 2)
             used == UNION {Cells(w) : w \in ToSet(fr.windows)}
         IN /\ used \subseteq screen
            /\ \A c \in screen \ used :
                  \E w \in ToSet(fr.windows) :
                     /\ c[1] = fr.box[w].x + fr.box[w].w
                     /\ c[2] \in fr.box[w].y .. fr.box[w].y + fr.box[w].h - 1

Least(o) == IF o = "v" THEN 2 ELSE 4
Size(f, w, o) == IF o = "v" THEN f.box[w].h ELSE f.box[w].w

\* Where the neighbour that gives the space has the same parent, and neither it
\* nor the enlarged window is at its least size, the enlarged window becomes
\* taller or wider, whatever the biases and the share the first child absorbs
\* (frame-enlarge-window!, window.ss:462).
EnlargeGrows ==
    [][EnlargeWindow(1) =>
        \A p \in DOMAIN fr.tree.children :
           LET c == Current(fr)
               o == fr.tree.orient[p]
               pair == {c, Neighbour(fr)}
           IN /\ pair \subseteq ToSet(fr.tree.children[p])
              /\ \A w \in pair : Size(fr, w, o) > Least(o)
              => Size(fr', c, o) > Size(fr, c, o)]_fr
==============================================================================

------------------------------- MODULE QtFrame -------------------------------
(***************************************************************************)
(* The frame of the Qt front end (qt/window.ss): a tree of splits, the     *)
(* flat list of windows kept in step with it, and the tree of Qt widgets   *)
(* that mirrors both.                                                      *)
(*                                                                         *)
(* An operation is a function from frames to frames: a handler runs to its *)
(* end on the Qt thread, and a split processes events only once the tree,  *)
(* the list and the widgets are all changed (the sizes and the keyboard    *)
(* focus, set after that, are not modelled).  A window, its leaf of the    *)
(* split tree, its container widget and its editor are created together    *)
(* and are one number w > 0; a split node and its QSplitter are one number *)
(* s < 0; the permanent root QSplitter is 0.                               *)
(***************************************************************************)
EXTENDS SplitTree

CONSTANTS
    Buffers,    \* the buffers a window can show
    Scratch,    \* *scratch*, shown by the first window
    Terminals,  \* the buffers shown by a QTerminalWidget
    MaxWindows  \* bound: windows ever created

ASSUME QtFrameAssumption ==
    /\ Scratch \in Buffers \ Terminals
    /\ Terminals \subseteq Buffers
    /\ MaxWindows \in Nat \ {0}

VARIABLE fr     \* the frame: see FrameInit

Root == 0

Current(f) == f.windows[f.current + 1]

------------------------------------------------------------------------------
(* The split tree: see SplitTree.                                          *)

OutermostFirst(children, n) ==
    LET subs[m \in Int] ==
            IF m \in DOMAIN children
              THEN <<m>> \o FlattenSeq([i \in DOMAIN children[m] |-> subs[children[m][i]]])
              ELSE <<>>
    IN subs[n]

\* split-tree-collect-sub-splitters: innermost first.
SubSplitters(children, n) ==
    LET subs[m \in Int] ==
            IF m \in DOMAIN children
              THEN Append(FlattenSeq([i \in DOMAIN children[m] |-> subs[children[m][i]]]), m)
              ELSE <<>>
    IN subs[n]

------------------------------------------------------------------------------
(* Qt's widget tree: f.kids[s] are the widgets in splitter s, in order.    *)

Widgets(kids) == DOMAIN kids \cup UNION {ToSet(kids[s]) : s \in DOMAIN kids}

\* A widget has one parent: giving it another takes it from the first.
Detach(kids, w) == [s \in DOMAIN kids |-> RemoveFirst(kids[s], w)]

\* QSplitter::addWidget appends.
AddWidget(kids, s, w) == [Detach(kids, w) EXCEPT ![s] = Append(@, w)]

InsertWidget(kids, s, i, w) == [Detach(kids, w) EXCEPT ![s] = InsertAt(@, i, w)]

\* A widget and all it owns: what is reached from it in as many steps as there
\* are splitters.
Owned(kids, w) ==
    LET reached[i \in 0 .. Cardinality(DOMAIN kids)] ==
            IF i = 0 THEN {w}
            ELSE LET sofar == reached[i - 1] IN
                 sofar \cup UNION {ToSet(kids[s]) : s \in sofar \cap DOMAIN kids}
    IN reached[Cardinality(DOMAIN kids)]

\* Destroying a widget destroys what it owns; a second destruction of the same
\* widget is remembered.
Destroy(f, w) ==
    IF w \in Widgets(f.kids)
      THEN [f EXCEPT !.kids = Drop(Detach(@, w), Owned(@, w))]
      ELSE [f EXCEPT !.twice = TRUE]

\* The widgets of a list destroyed one after the other.
DestroyAll(f, ws) ==
    LET after[i \in 0 .. Len(ws)] ==
            IF i = 0 THEN f ELSE Destroy(after[i - 1], ws[i])
    IN after[Len(ws)]

------------------------------------------------------------------------------
(* The operations of the frame.                                            *)

\* qt-frame-init!
FrameInit ==
    [root |-> 1, children |-> <<>>, orient |-> <<>>,    \* the split tree
     windows |-> <<1>>, current |-> 0,                  \* the flat list
     buffer |-> [w \in {1} |-> Scratch],                \* window -> buffer
     map |-> {1},                                       \* *editor-window-map*
     kids |-> [s \in {Root} |-> <<1>>],                 \* the Qt widgets
     made |-> 1,                                        \* windows created
     twice |-> FALSE]    \* history: some widget was destroyed twice

\* The buffer of a new window: a terminal is not shown twice when some window
\* shows *scratch*.
NewBuffer(f) ==
    LET b == f.buffer[Current(f)] IN
    IF b \in Terminals /\ \E i \in DOMAIN f.windows : f.buffer[f.windows[i]] = Scratch
      THEN Scratch ELSE b

\* What follows every change of the tree by a split: the list is rebuilt and
\* the new window selected.
SelectNew(f, w) ==
    LET list == Flatten(f.children, f.root) IN
    [f EXCEPT !.windows = list, !.current = IndexOf(list, w) - 1, !.made = w,
              !.map = @ \cup {w}]

\* The sibling at the end of its parent's children, as qt/window.ss:383 has it.
SplitSiblingLast(f, w, p) ==
    SelectNew([f EXCEPT !.kids = AddWidget(@, p, w),
                        !.children[p] = Append(@, w),
                        !.buffer = Put(@, w, NewBuffer(f))], w)

\* Case A: the parent is split the same way and gets one more child.
SplitSibling(f, w, p) ==
    SelectNew([f EXCEPT !.kids = AddWidget(@, p, w),
                        !.children = InsertChild(@, p, Current(f), w),
                        !.buffer = Put(@, w, NewBuffer(f))], w)

\* Case C: a new splitter takes the place of the current window and holds it
\* and the new one.
SplitNested(f, o, w) ==
    LET cur == Current(f)
        ps == Parents(f.children, cur)
        spl == -w
        outer == IF ps = {} THEN Root ELSE CHOOSE p \in ps : TRUE
        at == IndexOf(f.kids[outer], cur)
        inner == AddWidget(AddWidget(Put(f.kids, spl, <<>>), spl, cur), spl, w)
        tree == IF ps = {} THEN f.children
                           ELSE ReplaceChild(f.children, outer, cur, spl)
    IN SelectNew([f EXCEPT !.kids = InsertWidget(inner, outer, at, spl),
                           !.root = IF ps = {} THEN spl ELSE @,
                           !.children = Put(tree, spl, <<cur, w>>),
                           !.orient = Put(@, spl, o),
                           !.buffer = Put(@, w, NewBuffer(f))], w)

\* qt-frame-do-split!
SplitFrame(f, o) ==
    LET same == {p \in Parents(f.children, Current(f)) : f.orient[p] = o}
        w == f.made + 1
    IN IF same # {} THEN SplitSibling(f, w, CHOOSE p \in same : TRUE)
                    ELSE SplitNested(f, o, w)

\* The widget of the only child is left in the splitter that goes.
UnwrapInTreeOnly(f, p, only) ==
    LET gs == Parents(f.children, p) IN
    Destroy([f EXCEPT !.root = IF gs = {} THEN only ELSE @,
                      !.children = Drop([q \in DOMAIN @ |-> ReplaceAll(@[q], p, only)], {p}),
                      !.orient = Drop(@, {p})], p)

\* A parent left with one child is replaced by it, in the tree and among the
\* widgets, and its splitter destroyed with the container it still owns.
Unwrap(f, p, only) ==
    LET gs == Parents(f.children, p)
        outer == IF gs = {} THEN Root ELSE CHOOSE g \in gs : TRUE
        tree == IF gs = {} THEN f.children ELSE ReplaceChild(f.children, outer, p, only)
    IN Destroy([f EXCEPT !.kids = InsertWidget(@, outer, IndexOf(@[outer], p), only),
                         !.root = IF gs = {} THEN only ELSE @,
                         !.children = Drop(tree, {p}),
                         !.orient = Drop(@, {p})], p)

SelectSame(i, n) == i

\* The selection after the deletion of window i, when n are left.
SelectAfter(i, n) == IF i >= n THEN n - 1 ELSE i

\* qt-frame-delete-window!, which winner-restore-config! calls for the last
\* window: i is the index of the window, from 0.
DeleteFrame(f, i) ==
    LET w == f.windows[i + 1]
        p == CHOOSE q \in Parents(f.children, w) : TRUE
        rest == RemoveFirst(f.children[p], w)
        cut == [f EXCEPT !.map = @ \ {w}, !.children[p] = rest]
        g == IF Len(rest) = 1 THEN Unwrap(cut, p, rest[1])
                              ELSE Destroy(cut, w)
        list == RemoveAt(f.windows, i + 1)
    IN [g EXCEPT !.windows = list, !.buffer = Drop(@, {w}),
                 !.current = SelectAfter(i, Len(list))]

\* qt-frame-delete-other-windows!
DeleteOthersFrame(f) ==
    LET cur == Current(f)
        others == RemoveAt(f.windows, f.current + 1)
        moved == [f EXCEPT !.kids = AddWidget(@, Root, cur),
                           !.map = @ \ ToSet(others)]
        bare == DestroyAll(moved, others)
        g == DestroyAll(bare, SubSplitters(f.children, f.root))
    IN [g EXCEPT !.root = cur, !.children = <<>>, !.orient = <<>>,
                 !.windows = <<cur>>, !.current = 0,
                 !.buffer = Drop(@, ToSet(others))]

------------------------------------------------------------------------------
(* The commands.                                                           *)

Init == fr = FrameInit

\* cmd-split-window, cmd-split-window-right
SplitWindow(o) == fr.made < MaxWindows /\ fr' = SplitFrame(fr, o)

\* cmd-delete-window
DeleteWindow == Len(fr.windows) > 1 /\ fr' = DeleteFrame(fr, fr.current)

\* cmd-delete-other-windows
DeleteOtherWindows == fr' = DeleteOthersFrame(fr)

\* cmd-other-window
OtherWindow == fr' = [fr EXCEPT !.current = (@ + 1) % Len(fr.windows)]

\* cmd-switch-buffer
SwitchToBuffer(b) == fr' = [fr EXCEPT !.buffer[Current(fr)] = b]

Next ==
    \/ \E o \in Orientations : SplitWindow(o)
    \/ DeleteWindow
    \/ DeleteOtherWindows
    \/ OtherWindow
    \/ \E b \in Buffers : SwitchToBuffer(b)

Spec == Init /\ [][Next]_fr

------------------------------------------------------------------------------
(* Properties.                                                             *)

\* The shape of the frame.
TypeOK ==
    /\ fr.made \in 1 .. MaxWindows
    /\ fr.root \in (1 .. fr.made) \cup DOMAIN fr.children
    /\ DOMAIN fr.children \subseteq (-fr.made) .. -1
    /\ DOMAIN fr.orient = DOMAIN fr.children
    /\ \A n \in DOMAIN fr.children : fr.orient[n] \in Orientations
    /\ fr.current \in 0 .. Len(fr.windows) - 1
    /\ fr.buffer \in [ToSet(fr.windows) -> Buffers]

\* Tree, flat list and widgets agree: the list is the tree read in order, each
\* window once, a split has two children or more, and the mapped editors are
\* those of the list; the widgets on the screen are those of the tree, each
\* under the splitter of its parent, so that no operation leaves one behind or
\* loses one still in use (qt-frame-do-split!, -delete-window!,
\* -delete-other-windows!).
InSync ==
    /\ fr.windows = Flatten(fr.children, fr.root)
    /\ IsInjective(fr.windows)
    /\ \A n \in DOMAIN fr.children : Len(fr.children[n]) >= 2
    /\ fr.map = ToSet(fr.windows)
    /\ DOMAIN fr.kids = DOMAIN fr.children \cup {Root}
    /\ fr.kids[Root] = <<fr.root>>
    /\ \A n \in DOMAIN fr.children :
          /\ Len(fr.kids[n]) = Len(fr.children[n])
          /\ ToSet(fr.kids[n]) = ToSet(fr.children[n])

\* No widget is destroyed a second time, although destroying a splitter also
\* destroys what it owns (qt/window.ss:562-566, 605).
DestroyedOnce == ~fr.twice

\* The windows as a list with a selection.
List == INSTANCE WindowList WITH
            Windows <- 1 .. MaxWindows, list <- fr.windows, selected <- fr.current

\* For the user the frame is a list: a split puts the new window after the
\* selected one and selects it, and a deletion disturbs no other window.
ListSpec == List!Spec

==============================================================================

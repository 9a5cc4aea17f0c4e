--------------------------- MODULE TuiFrame_proofs ---------------------------
(***************************************************************************)
(* Proofs about the frame of the terminal front end, for any number of     *)
(* windows, any biases and any sizes of the terminal.  TuiOK is the        *)
(* invariant of a frame: its tree has the windows of the list as leaves,   *)
(* and the boxes are those the layout gives.                               *)
(***************************************************************************)
EXTENDS TuiFrame, SplitTree_proofs

------------------------------------------------------------------------------
(* The invariant of a frame.                                               *)

\* A tree with the windows W, of those numbered up to made.
TreeOK(t, W, made) ==
    /\ LeavesAre(t.children, t.root, W)
    /\ Oriented(t.children, t.orient)
    /\ Numbered(t.children, W, made)

\* The parts of a frame, opaque where only what is made of them matters.
PartsOK(tree, windows, current, screen, bias, editors, made) ==
    /\ TreeOK(tree, windows, made)
    /\ current \in 0 .. Len(windows) - 1
    /\ screen \in Screens
    /\ bias \in [ToSet(windows) -> Int]
    /\ editors = ToSet(windows)

TuiOK(f) ==
    /\ f = LaidOut(f.tree, f.windows, f.current, f.screen, f.bias, f.editors, f.made)
    /\ PartsOK(f.tree, f.windows, f.current, f.screen, f.bias, f.editors, f.made)

LEMMA LaidOutOK ==
  ASSUME NEW tree, NEW windows, NEW current, NEW screen, NEW bias, NEW editors, NEW made,
         PartsOK(tree, windows, current, screen, bias, editors, made)
  PROVE LET g == LaidOut(tree, windows, current, screen, bias, editors, made) IN
        /\ TuiOK(g)
        /\ g.tree = tree /\ g.windows = windows /\ g.current = current /\ g.screen = screen
        /\ g.bias = bias /\ g.editors = editors /\ g.made = made
        /\ g.box = Layout(tree, bias, screen)
  <1> DEFINE g == LaidOut(tree, windows, current, screen, bias, editors, made)
  <1>1. /\ g.tree = tree /\ g.windows = windows /\ g.current = current /\ g.screen = screen
        /\ g.bias = bias /\ g.editors = editors /\ g.made = made
        /\ g.box = Layout(tree, bias, screen)
    BY DEF LaidOut
  <1>2. g = LaidOut(g.tree, g.windows, g.current, g.screen, g.bias, g.editors, g.made)
    <2> DEFINE h == LaidOut(g.tree, g.windows, g.current, g.screen, g.bias, g.editors, g.made)
    <2>1. h = LaidOut(tree, windows, current, screen, bias, editors, made)
      <3> HIDE DEF g
      <3> QED BY <1>1
    <2> QED BY <2>1
  <1> HIDE DEF g
  <1>3. TuiOK(g) BY <1>1, <1>2 DEF TuiOK
  <1> QED BY <1>1, <1>3 DEF g

\* What it says of the list of windows.
LEMMA TreeShape ==
  ASSUME NEW t, NEW W, NEW made, TreeOK(t, W, made)
  PROVE /\ Shape(t.children, t.root, W)
        /\ Branching(t.children)
        /\ W = Flatten(t.children, t.root)
        /\ W \in Seq(Nat \ {0})
        /\ IsInjective(W)
        /\ DOMAIN W = 1 .. Len(W)
        /\ Len(W) \in Nat \ {0}
  <1>1. PICK lo, hi : Tree(t.children, t.root, W, lo, hi) BY DEF TreeOK, LeavesAre
  <1>2. Shape(t.children, t.root, W) BY <1>1 DEF Tree
  <1>3. Branching(t.children) BY DEF TreeOK, LeavesAre
  <1>4. W = Flatten(t.children, t.root) BY <1>1, <1>3, FlattenTree
  <1>5. IsInjective(W) BY <1>1, WindowsInjective
  <1>6. W \in Seq(Nat \ {0}) BY <1>2 DEF Shape
  <1>7. DOMAIN W = 1 .. Len(W) /\ Len(W) \in Nat BY <1>6
  <1>8. Len(W) # 0
    <2>1. t.root \in Items(t.children, W) BY <1>2 DEF Shape
    <2>2. /\ lo[t.root] \in Int /\ hi[t.root] \in Int
          /\ 1 <= lo[t.root] /\ lo[t.root] <= hi[t.root] /\ hi[t.root] <= Len(W)
      BY <1>1, <2>1 DEF Tree, Spans
    <2> QED BY <1>7, <2>2
  <1> QED BY <1>2, <1>3, <1>4, <1>5, <1>6, <1>7, <1>8

LEMMA FrameShape ==
  ASSUME NEW f, TuiOK(f)
  PROVE /\ TreeOK(f.tree, f.windows, f.made)
        /\ f.current \in Int
        /\ f.current + 1 \in 1 .. Len(f.windows)
        /\ Current(f) \in ToSet(f.windows)
        /\ At(f.windows, f.current + 1, Current(f))
  <1>1. TreeOK(f.tree, f.windows, f.made) /\ f.current \in 0 .. Len(f.windows) - 1
    BY DEF TuiOK, PartsOK
  <1>2. Len(f.windows) \in Nat /\ DOMAIN f.windows = 1 .. Len(f.windows) BY <1>1, TreeShape
  <1>3. f.current \in Int /\ f.current + 1 \in 1 .. Len(f.windows) BY <1>1, <1>2
  <1>4. Current(f) \in ToSet(f.windows) BY <1>2, <1>3 DEF Current, ToSet
  <1> QED BY <1>1, <1>3, <1>4 DEF At, Current

------------------------------------------------------------------------------
(* A split.                                                                *)

\* The tree of any of the three cases has the new window after the current one.
LEMMA SplitTreeOK ==
  ASSUME NEW t, NEW W, NEW made, TreeOK(t, W, made), NEW k, k \in 1 .. Len(W),
         NEW cur, At(W, k, cur), NEW o, o \in Orientations
  PROVE TreeOK(SplitTreeAt(t, cur, o, made + 1), InsertAt(W, k + 1, made + 1), made + 1)
  <1> DEFINE w == made + 1
             s == -w
             C == t.children
             r == t.root
             ps == Parents(C, cur)
             p == CHOOSE q \in ps : TRUE
             V == InsertAt(W, k + 1, w)
             D == Nested(C, r, cur, p, s, w)
             u == SplitTreeAt(t, cur, o, w)
  <1>0. W[k] = cur BY DEF At
  <1>1. /\ Shape(C, r, W) /\ Branching(C) /\ W \in Seq(Nat \ {0}) /\ IsInjective(W)
        /\ DOMAIN W = 1 .. Len(W) /\ Len(W) \in Nat
    BY TreeShape
  <1>2. /\ made \in Nat \ {0} /\ ToSet(W) \subseteq 1 .. made
        /\ DOMAIN C \subseteq (-made) .. -1
        /\ Oriented(C, t.orient)
    BY DEF TreeOK, Numbered
  <1>3. PICK lo, hi : Tree(C, r, W, lo, hi) BY DEF TreeOK, LeavesAre
  <1>4. cur \in ToSet(W) /\ cur \in Items(C, W) BY <1>0, <1>1 DEF ToSet, Items
  <1>5. /\ w \in Nat \ {0} /\ w \notin ToSet(W)
        /\ s \in Int /\ s < 0 /\ s \notin DOMAIN C /\ s \in (-w) .. -1
        /\ (-made) .. -1 \subseteq (-w) .. -1
    BY <1>2
  <1>6. cur = r => ps = {} BY <1>1, ParentsOfRoot
  <1>7. cur # r => ps = {p} /\ p \in DOMAIN C /\ \E q \in 1 .. Len(C[p]) : C[p][q] = cur /\ q \in DOMAIN C[p]
    <2> SUFFICES ASSUME cur # r
                 PROVE ps = {p} /\ p \in DOMAIN C
                         /\ \E q \in 1 .. Len(C[p]) : C[p][q] = cur /\ q \in DOMAIN C[p]
      OBVIOUS
    <2> HIDE DEF C, r, p
    <2>1. PICK n \in DOMAIN C : \E q \in 1 .. Len(C[n]) :
             C[n][q] = cur /\ Parents(C, cur) = {n} /\ q \in DOMAIN C[n]
      BY <1>1, <1>4, ParentExists
    <2>2. ps = {n} BY <2>1
    <2>3. p = n BY <2>2 DEF p
    <2> QED BY <2>1, <2>2, <2>3
  <1>8. Numbered(C, W, made) /\ ToSet(V) = ToSet(W) \cup {w} /\ ToSet(V) \subseteq 1 .. w
    <2>1. k + 1 \in 1 .. Len(W) + 1 BY <1>1
    <2> DEFINE S == Nat \ {0}
               i == k + 1
               e == w
    <2>2. W \in Seq(S) /\ i \in 1 .. Len(W) + 1 /\ e \in S BY <1>1, <1>5, <2>1
    <2> HIDE DEF S, i, e
    <2>3. ToSet(InsertAt(W, i, e)) = ToSet(W) \cup {e} BY <2>2, InsertAtElements
    <2>4. ToSet(V) = ToSet(W) \cup {w} BY <2>3 DEF i, e
    <2>5. ToSet(V) \subseteq 1 .. w
      <3>1. 1 .. made \subseteq 1 .. w /\ w \in 1 .. w BY <1>2
      <3> HIDE DEF V
      <3> QED BY <1>2, <2>4, <3>1
    <2> QED BY <2>4, <2>5 DEF TreeOK
  <1>9. CASE ps # {} /\ t.orient[p] = o
    <2> DEFINE E == InsertChild(C, p, cur, w)
    <2>1. cur # r BY <1>6, <1>9
    <2>2. p \in DOMAIN C BY <1>7, <2>1
    <2>3. PICK q \in 1 .. Len(C[p]) : C[p][q] = cur /\ q \in DOMAIN C[p] BY <1>7, <2>1
    <2>4. IsInjective(C[p]) BY <1>1, <2>2, ChildrenInjective
    <2>5. IndexOf(C[p], cur) = q BY <2>3, <2>4, IndexOfElement
    <2>6. E = [C EXCEPT ![p] = InsertAt(C[p], q + 1, w)] BY <2>5 DEF InsertChild
    <2>7. u = [root |-> r, children |-> E, orient |-> t.orient] BY <1>9 DEF SplitTreeAt
    <2> HIDE DEF C, E, V, r, p, u, w, s, ps
    <2>8. /\ DOMAIN E = DOMAIN C /\ E[p] = InsertAt(C[p], q + 1, w)
          /\ \A n \in DOMAIN C \ {p} : E[n] = C[n]
      BY <2>2, <2>6
    <2>9. \E lo2, hi2 : Tree(E, r, InsertAt(W, k + 1, w), lo2, hi2)
      BY <1>0, <1>3, <1>5, <2>2, <2>3, <2>8, TreeInsert
    <2>10. Branching(E)
      <3> SUFFICES ASSUME NEW n \in DOMAIN E PROVE Len(E[n]) >= 2 BY DEF Branching
      <3>1. CASE n # p BY <1>1, <2>8, <3>1 DEF Branching
      <3>2. CASE n = p
        <4> DEFINE c == C[p]
                   S == Items(C, W) \cup {w}
                   i == q + 1
                   e == w
        <4>1. c \in Seq(Items(C, W)) /\ Len(c) >= 2 /\ Len(c) \in Nat
          BY <1>1, <2>2, ChildrenInjective DEF Branching
        <4>2. c \in Seq(S) /\ i \in 1 .. Len(c) + 1 /\ e \in S
          <5>1. c \in Seq(S) BY <4>1
          <5>2. q \in 1 .. Len(c) OBVIOUS
          <5>3. i \in 1 .. Len(c) + 1
            <6> HIDE DEF c
            <6> QED BY <4>1, <5>2
          <5> QED BY <5>1, <5>3
        <4> HIDE DEF c, S, i, e
        <4>3. Len(InsertAt(c, i, e)) = Len(c) + 1 BY <4>2, InsertAtElements
        <4>4. E[p] = InsertAt(c, i, e) BY <2>8 DEF c, i, e
        <4> QED BY <3>2, <4>1, <4>3, <4>4
      <3> QED BY <3>1, <3>2
    <2>11. LeavesAre(E, r, V) BY <2>9, <2>10 DEF LeavesAre, V
    <2>12. Oriented(E, t.orient) BY <1>2, <2>8 DEF Oriented
    <2>13. Numbered(E, V, w) BY <1>2, <1>5, <1>8, <2>8 DEF Numbered
    <2>14. TreeOK(u, V, w) BY <2>7, <2>11, <2>12, <2>13 DEF TreeOK
    <2> QED BY <2>14 DEF u, V, w
  <1>10. CASE ps = {} \/ t.orient[p] # o
    <2>1. /\ u.root = NestedRoot(r, cur, s) /\ u.children = D
          /\ u.orient = Put(t.orient, s, o)
      <3>1. CASE ps = {}
        <4>1. cur = r BY <1>7, <3>1
        <4>2. u = [root |-> s, children |-> Put(C, s, <<cur, w>>), orient |-> Put(t.orient, s, o)]
          BY <3>1 DEF SplitTreeAt
        <4> HIDE DEF u, s, w, C
        <4> QED BY <4>1, <4>2 DEF NestedRoot, Nested
      <3>2. CASE ps # {}
        <4>1. cur # r BY <1>6, <3>2
        <4>2. u = [root |-> r, children |-> Put(ReplaceChild(C, p, cur, s), s, <<cur, w>>),
                   orient |-> Put(t.orient, s, o)]
          BY <1>10, <3>2 DEF SplitTreeAt
        <4> HIDE DEF u, s, w, C, r, p
        <4> QED BY <4>1, <4>2 DEF NestedRoot, Nested
      <3> QED BY <3>1, <3>2
    <2> HIDE DEF s, w, ps, C, r, p, V, u
    <2>2. cur # r => p \in DOMAIN C /\ Parents(C, cur) = {p} BY <1>7 DEF ps
    <2>3. /\ LeavesAre(D, NestedRoot(r, cur, s), InsertAt(W, k + 1, w))
          /\ \A e : e \in DOMAIN D <=> e \in DOMAIN C \/ e = s
      BY <1>1, <1>3, <1>5, <2>2, NestedTree
    <2> HIDE DEF D
    <2>4. DOMAIN D = DOMAIN C \cup {s} BY <2>3
    <2>5. Oriented(D, Put(t.orient, s, o)) BY <1>2, <2>4 DEF Oriented, Put
    <2>6. Numbered(D, V, w) BY <1>2, <1>5, <1>8, <2>4 DEF Numbered
    <2>7. TreeOK(u, V, w) BY <2>1, <2>3, <2>5, <2>6 DEF TreeOK, V
    <2> QED BY <2>7 DEF u, V, w
  <1> QED BY <1>9, <1>10

\* A split keeps the invariant, puts the new window after the selected one and
\* selects it.
LEMMA SplitOK ==
  ASSUME NEW f, TuiOK(f), NEW o, o \in Orientations
  PROVE LET g == Split(f, o) IN
        /\ TuiOK(g)
        /\ g.windows = InsertAt(f.windows, f.current + 2, f.made + 1)
        /\ g.current = f.current + 1
        /\ g.made = f.made + 1
        /\ f.made + 1 \notin ToSet(f.windows)
  <1> DEFINE w == f.made + 1
             W == f.windows
             cur == Current(f)
             k == f.current + 1
             j == k + 1
             t == SplitTreeAt(f.tree, cur, o, w)
             V == InsertAt(W, j, w)
             bias == Put(f.bias, w, 0)
             eds == f.editors \cup {w}
  <1>1. /\ TreeOK(f.tree, W, f.made) /\ k \in 1 .. Len(W) /\ At(W, k, cur) /\ f.current \in Int
    BY FrameShape
  <1>2. /\ W \in Seq(Nat \ {0}) /\ IsInjective(W) /\ Len(W) \in Nat /\ DOMAIN W = 1 .. Len(W)
    BY <1>1, TreeShape
  <1>3. /\ f.made \in Nat \ {0} /\ ToSet(W) \subseteq 1 .. f.made
        /\ f.screen \in Screens /\ f.bias \in [ToSet(W) -> Int] /\ f.editors = ToSet(W)
    BY DEF TuiOK, PartsOK, TreeOK, Numbered
  <1>4. w \in Nat \ {0} /\ w \notin ToSet(W) /\ j \in 1 .. Len(W) + 1 /\ j = f.current + 2
    <2> DEFINE m == f.made
               n == Len(W)
               i == f.current
    <2>1. m \in Nat \ {0} /\ n \in Nat /\ i \in Int /\ i + 1 \in 1 .. n BY <1>1, <1>2, <1>3
    <2>2. ToSet(W) \subseteq 1 .. m BY <1>3
    <2> HIDE DEF m, n, i, W
    <2>3. m + 1 \in Nat \ {0} /\ m + 1 \notin ToSet(W) BY <2>1, <2>2
    <2>4. (i + 1) + 1 \in 1 .. n + 1 /\ (i + 1) + 1 = i + 2 BY <2>1
    <2> QED BY <2>3, <2>4 DEF m, n, i
  <1>5. TreeOK(t, V, w) BY <1>1, SplitTreeOK
  <1>6. V = Flatten(t.children, t.root) BY <1>5, TreeShape
  <1>7. Split(f, o) = LaidOut(t, V, IndexOf(V, w) - 1, f.screen, bias, eds, w)
    <2>1. Split(f, o) = LaidOut(t, Flatten(t.children, t.root),
                                IndexOf(Flatten(t.children, t.root), w) - 1, f.screen, bias, eds, w)
      BY DEF Split
    <2> HIDE DEF t, V, w, bias, eds
    <2> QED BY <1>6, <2>1
  <1> HIDE DEF w, W, t, k, cur
  <1>8. /\ V \in Seq(Nat \ {0})
        /\ Len(V) = Len(W) + 1
        /\ V[j] = w
        /\ ToSet(V) = ToSet(W) \cup {w}
        /\ IsInjective(V)
    <2> DEFINE S == Nat \ {0}
    <2>1. W \in Seq(S) /\ w \in S BY <1>2, <1>4
    <2> HIDE DEF S, j
    <2>2. /\ InsertAt(W, j, w) \in Seq(S)
          /\ Len(InsertAt(W, j, w)) = Len(W) + 1
          /\ InsertAt(W, j, w)[j] = w
          /\ ToSet(InsertAt(W, j, w)) = ToSet(W) \cup {w}
          /\ IsInjective(InsertAt(W, j, w))
      BY <1>2, <1>4, <2>1, InsertNew
    <2> QED BY <2>2 DEF S
  <1> HIDE DEF V, j
  <1>9. IndexOf(V, w) = j
    <2>1. j \in DOMAIN V BY <1>2, <1>4, <1>8
    <2>2. IndexOf(V, V[j]) = j BY <1>8, <2>1, IndexOfElement
    <2> QED BY <1>8, <2>2
  <1>10. bias \in [ToSet(V) -> Int]
    <2>1. Put(f.bias, w, 0) \in [ToSet(W) \cup {w} -> Int] BY <1>3 DEF Put, W
    <2> QED BY <1>8, <2>1
  <1>11. j - 1 \in 0 .. Len(V) - 1 /\ j - 1 = f.current + 1
    <2>1. Len(V) = Len(W) + 1 /\ Len(W) \in Nat /\ f.current \in Int BY <1>1, <1>2, <1>8
    <2> DEFINE n == Len(W)
               m == Len(V)
    <2>2. m = n + 1 /\ n \in Nat /\ j \in 1 .. n + 1 /\ j = f.current + 2 BY <1>4, <2>1
    <2> HIDE DEF n, m
    <2>3. j - 1 \in 0 .. m - 1 BY <2>2
    <2> QED BY <2>1, <2>2, <2>3 DEF m
  <1> HIDE DEF bias
  <1>12. PartsOK(t, V, j - 1, f.screen, bias, eds, w)
    BY <1>3, <1>5, <1>8, <1>10, <1>11 DEF PartsOK, W
  <1>13. Split(f, o) = LaidOut(t, V, j - 1, f.screen, bias, eds, w) BY <1>7, <1>9
  <1> HIDE DEF eds
  <1>14. LET g == Split(f, o) IN TuiOK(g) /\ g.windows = V /\ g.current = j - 1 /\ g.made = w
    BY <1>12, <1>13, LaidOutOK
  <1>15. V = InsertAt(f.windows, f.current + 2, f.made + 1) BY <1>4 DEF V, W, w
  <1>16. w = f.made + 1 /\ W = f.windows BY DEF w, W
  <1> QED BY <1>4, <1>11, <1>14, <1>15, <1>16

------------------------------------------------------------------------------
(* A deletion.                                                             *)

\* The node that holds a window, where there are several.
LEMMA HolderExists ==
  ASSUME NEW t, NEW W, NEW made, TreeOK(t, W, made), NEW k, k \in 1 .. Len(W), Len(W) >= 2,
         NEW w, At(W, k, w)
  PROVE LET p == CHOOSE q \in Parents(t.children, w) : TRUE IN
        /\ p \in DOMAIN t.children /\ w \in ToSet(t.children[p])
        /\ w \in ToSet(W)
  <1> DEFINE C == t.children
             r == t.root
             p == CHOOSE q \in Parents(C, w) : TRUE
  <1>0. w = W[k] BY DEF At
  <1>1. PICK lo, hi : Tree(C, r, W, lo, hi) BY DEF TreeOK, LeavesAre
  <1>2. Shape(C, r, W) BY <1>1 DEF Tree
  <1>3. W[k] # r /\ W[k] \in Items(C, W) BY <1>1, WindowNotRoot
  <1>4. DOMAIN W = 1 .. Len(W) BY TreeShape
  <1>5. w \in ToSet(W) BY <1>0, <1>4 DEF ToSet
  <1> HIDE DEF C, r, p
  <1>6. PICK n \in DOMAIN C : \E q \in 1 .. Len(C[n]) :
           C[n][q] = w /\ Parents(C, w) = {n} /\ q \in DOMAIN C[n]
    BY <1>0, <1>2, <1>3, ParentExists
  <1>7. w \in ToSet(C[n]) BY <1>6 DEF ToSet
  <1>8. p = n BY <1>6 DEF p
  <1> QED BY <1>5, <1>6, <1>7, <1>8 DEF p, C

\* The tree without a window.
LEMMA CutTreeOK ==
  ASSUME NEW t, NEW W, NEW made, TreeOK(t, W, made), NEW k, k \in 1 .. Len(W), Len(W) >= 2,
         NEW w, At(W, k, w), NEW p, p \in DOMAIN t.children, w \in ToSet(t.children[p])
  PROVE /\ TreeOK(CutTree(t, p, RemoveFirst(t.children[p], w)), RemoveAt(W, k), made)
        /\ ToSet(RemoveAt(W, k)) = ToSet(W) \ {w}
        /\ Len(RemoveAt(W, k)) = Len(W) - 1
  <1> DEFINE C == t.children
             r == t.root
             V == RemoveAt(W, k)
             rest == RemoveFirst(C[p], w)
             D == [C EXCEPT ![p] = rest]
             u == CutTree(t, p, rest)
             gs == Parents(C, p)
             outer == CHOOSE g \in gs : TRUE
             only == rest[1]
             U == Unwrapped(D, r, p, outer, only)
  <1>0. W[k] = w BY DEF At
  <1>1. /\ Shape(C, r, W) /\ Branching(C) /\ W \in Seq(Nat \ {0}) /\ IsInjective(W)
    BY TreeShape
  <1>2. /\ made \in Nat \ {0} /\ ToSet(W) \subseteq 1 .. made
        /\ DOMAIN C \subseteq (-made) .. -1
        /\ Oriented(C, t.orient)
    BY DEF TreeOK, Numbered
  <1>3. PICK lo, hi : Tree(C, r, W, lo, hi) BY DEF TreeOK, LeavesAre
  <1>4. /\ DOMAIN D = DOMAIN C /\ D[p] = rest /\ \A n \in DOMAIN C \ {p} : D[n] = C[n]
    OBVIOUS
  <1>5. p \in DOMAIN C /\ w \in ToSet(C[p]) /\ p \in Items(C, W) BY DEF Items
  <1>6. ToSet(V) = ToSet(W) \ {w} /\ Len(V) = Len(W) - 1
    <2> DEFINE S == Nat \ {0}
               j == k
    <2>1. W \in Seq(S) /\ j \in 1 .. Len(W) BY <1>1
    <2> HIDE DEF S, j
    <2>2. /\ ToSet(RemoveAt(W, j)) = ToSet(W) \ {W[j]}
          /\ Len(RemoveAt(W, j)) = Len(W) - 1
      BY <1>1, <2>1, RemoveAtElements
    <2> QED BY <1>0, <2>2 DEF j
  <1>7. /\ \E lo2, hi2 : Tree(D, r, V, lo2, hi2)
        /\ D[p] \in Seq(Items(C, W)) /\ IsInjective(D[p])
        /\ Len(D[p]) = Len(C[p]) - 1
        /\ \A e : e \in ToSet(D[p]) <=> e \in ToSet(C[p]) /\ e # w
    <2> HIDE DEF C, r, D, rest
    <2>1. D[p] = RemoveFirst(C[p], w) BY <1>4 DEF rest
    <2> QED BY <1>1, <1>3, <1>4, <1>5, <2>1, DeleteTree
  <1>8. CASE Len(rest) # 1
    <2>1. u = [root |-> r, children |-> D, orient |-> t.orient] BY <1>8 DEF CutTree
    <2>2. Branching(D)
      <3> SUFFICES ASSUME NEW n \in DOMAIN D PROVE Len(D[n]) >= 2 BY DEF Branching
      <3> HIDE DEF C, D, rest
      <3>1. CASE n = p
        <4>1. Len(C[p]) >= 2 /\ Len(C[p]) \in Nat BY <1>1, <1>5, ChildrenInjective DEF Branching
        <4>2. Len(D[p]) # 1 BY <1>4, <1>8
        <4>3. Len(D[p]) = Len(C[p]) - 1 BY <1>7
        <4> DEFINE a == Len(C[p])
                   b == Len(D[p])
        <4>4. a \in Nat /\ a >= 2 /\ b # 1 /\ b = a - 1 BY <4>1, <4>2, <4>3
        <4> HIDE DEF a, b
        <4>5. b >= 2 BY <4>4
        <4> QED BY <3>1, <4>5 DEF b
      <3>2. CASE n # p BY <1>1, <1>4, <3>2 DEF Branching
      <3> QED BY <3>1, <3>2
    <2> HIDE DEF u, D, C, r, V
    <2>3. LeavesAre(D, r, V) BY <1>7, <2>2 DEF LeavesAre
    <2>4. Oriented(D, t.orient) BY <1>2, <1>4 DEF Oriented
    <2>5. Numbered(D, V, made) BY <1>2, <1>4, <1>6 DEF Numbered
    <2>6. TreeOK(u, V, made) BY <2>1, <2>3, <2>4, <2>5 DEF TreeOK
    <2> QED BY <1>6, <2>6 DEF u, V, rest, C
  <1>9. CASE Len(rest) = 1
    <2>1. gs = {} => p = r
      <3> HIDE DEF C, r
      <3>1. ASSUME p # r PROVE gs # {}
        <4>1. PICK g \in DOMAIN C : \E q \in 1 .. Len(C[g]) :
                 C[g][q] = p /\ Parents(C, p) = {g} /\ q \in DOMAIN C[g]
          BY <1>1, <1>5, <3>1, ParentExists
        <4> QED BY <4>1
      <3> QED BY <3>1
    <2>2. p # r => outer \in DOMAIN C /\ gs = {outer}
      <3> SUFFICES ASSUME p # r PROVE outer \in DOMAIN C /\ gs = {outer} OBVIOUS
      <3> HIDE DEF C, r
      <3>1. PICK g \in DOMAIN C : \E q \in 1 .. Len(C[g]) :
               C[g][q] = p /\ Parents(C, p) = {g} /\ q \in DOMAIN C[g]
        BY <1>1, <1>5, ParentExists
      <3>2. outer = g BY <3>1
      <3> QED BY <3>1, <3>2
    <2>3. p = r => gs = {} BY <1>1, ParentsOfRoot
    <2>4. u.root = NestedRoot(r, p, only) /\ u.children = U /\ u.orient = Drop(t.orient, {p})
      <3>1. CASE gs = {}
        <4>1. u = [root |-> only, children |-> Drop(D, {p}), orient |-> Drop(t.orient, {p})]
          BY <1>9, <3>1 DEF CutTree
        <4>2. p = r BY <2>1, <3>1
        <4> HIDE DEF u, D, only, C, r
        <4> QED BY <4>1, <4>2 DEF NestedRoot, Unwrapped
      <3>2. CASE gs # {}
        <4>1. u = [root |-> r, children |-> Drop(ReplaceChild(D, outer, p, only), {p}),
                   orient |-> Drop(t.orient, {p})]
          BY <1>9, <3>2 DEF CutTree
        <4>2. p # r BY <2>3, <3>2
        <4> HIDE DEF u, D, only, C, r, outer
        <4> QED BY <4>1, <4>2 DEF NestedRoot, Unwrapped
      <3> QED BY <3>1, <3>2
    <2>5. Len(D[p]) = 1 /\ At(D[p], 1, only) BY <1>4, <1>9 DEF At
    <2> HIDE DEF u, D, only, C, r, outer, V, rest, gs
    <2>6. PICK lo2, hi2 : Tree(D, r, V, lo2, hi2) BY <1>7
    <2>7. p # r => outer \in DOMAIN C /\ Parents(C, p) = {outer} BY <2>2 DEF gs
    <2>a. DOMAIN D = DOMAIN C /\ \A n \in DOMAIN C \ {p} : D[n] = C[n] BY <1>4
    <2>b. /\ D[p] \in Seq(Items(C, W)) /\ Len(D[p]) = Len(C[p]) - 1
          /\ \A e : e \in ToSet(D[p]) <=> e \in ToSet(C[p]) /\ e # w
      BY <1>7
    <2>c. Branching(C) BY <1>1
    <2>8. /\ LeavesAre(U, NestedRoot(r, p, only), V)
          /\ \A e : e \in DOMAIN U <=> e \in DOMAIN C /\ e # p
      BY <1>3, <1>5, <2>5, <2>6, <2>7, <2>a, <2>b, <2>c, UnwrapTree
    <2> HIDE DEF U
    <2>9. DOMAIN U = DOMAIN C \ {p} BY <2>8
    <2>10. Oriented(U, Drop(t.orient, {p})) BY <1>2, <2>9 DEF Oriented, Drop
    <2>11. Numbered(U, V, made) BY <1>2, <1>6, <2>9 DEF Numbered
    <2>12. TreeOK(u, V, made) BY <2>4, <2>8, <2>10, <2>11 DEF TreeOK
    <2> QED BY <1>6, <2>12 DEF u, V, rest, C
  <1> QED BY <1>8, <1>9

LEMMA SelectedAfter ==
  ASSUME NEW i \in Int, NEW m \in Nat, i \in 0 .. m, m >= 1
  PROVE /\ SelectAfter(i, m) \in 0 .. m - 1
        /\ SelectAfter(i, m) = IF i = m THEN i - 1 ELSE i
  BY DEF SelectAfter

\* A deletion keeps the invariant and takes the selected window out of the list.
LEMMA DeleteOK ==
  ASSUME NEW f, TuiOK(f), Len(f.windows) > 1
  PROVE LET g == Delete(f) IN
        /\ TuiOK(g)
        /\ g.windows = RemoveAt(f.windows, f.current + 1)
        /\ g.current = IF f.current = Len(f.windows) - 1 THEN f.current - 1 ELSE f.current
        /\ g.made = f.made
  <1> DEFINE W == f.windows
             w == Current(f)
             k == f.current + 1
             p == CHOOSE q \in Parents(f.tree.children, w) : TRUE
             rest == RemoveFirst(f.tree.children[p], w)
             t == CutTree(f.tree, p, rest)
             V == RemoveAt(W, k)
             cur == SelectAfter(f.current, Len(V))
             bias == Drop(f.bias, {w})
             eds == f.editors \ {w}
  <1>1. /\ TreeOK(f.tree, W, f.made) /\ k \in 1 .. Len(W) /\ At(W, k, w) /\ f.current \in Int
    BY FrameShape
  <1>2. Len(W) \in Nat /\ Len(W) >= 2 BY <1>1, TreeShape
  <1>3. /\ f.screen \in Screens /\ f.bias \in [ToSet(W) -> Int] /\ f.editors = ToSet(W)
        /\ f.current \in 0 .. Len(W) - 1
    BY DEF TuiOK, PartsOK
  <1>4. p \in DOMAIN f.tree.children /\ w \in ToSet(f.tree.children[p])
    BY <1>1, <1>2, HolderExists
  <1>d. Delete(f) = LaidOut(t, Flatten(t.children, t.root),
                            SelectAfter(f.current, Len(Flatten(t.children, t.root))), f.screen,
                            bias, eds, f.made)
    BY DEF Delete
  <1>5. TreeOK(t, V, f.made) /\ ToSet(V) = ToSet(W) \ {w} /\ Len(V) = Len(W) - 1
    <2> HIDE DEF p, w, k, W
    <2> QED BY <1>1, <1>2, <1>4, CutTreeOK
  <1>6. V = Flatten(t.children, t.root) BY <1>5, TreeShape
  <1> HIDE DEF t, W, w, p, rest, bias, eds
  <1>7. Delete(f) = LaidOut(t, V, cur, f.screen, bias, eds, f.made) BY <1>d, <1>6
  <1> HIDE DEF V
  <1>8. cur \in 0 .. Len(V) - 1 /\ cur = IF f.current = Len(W) - 1 THEN f.current - 1 ELSE f.current
    <2> DEFINE m == Len(V)
               n == Len(W)
               i == f.current
    <2>1. m = n - 1 /\ n \in Nat /\ n >= 2 /\ i \in 0 .. n - 1 /\ i \in Int
      BY <1>1, <1>2, <1>3, <1>5
    <2> HIDE DEF m, n, i
    <2>2. m \in Nat /\ m >= 1 /\ i \in 0 .. m BY <2>1
    <2>3. SelectAfter(i, m) \in 0 .. m - 1 /\ SelectAfter(i, m) = IF i = m THEN i - 1 ELSE i
      BY <2>1, <2>2, SelectedAfter
    <2> QED BY <2>1, <2>3 DEF m, n, i
  <1>9. bias \in [ToSet(V) -> Int] BY <1>3, <1>5 DEF bias, Drop
  <1>10. eds = ToSet(V) BY <1>3, <1>5 DEF eds
  <1> HIDE DEF cur
  <1>11. PartsOK(t, V, cur, f.screen, bias, eds, f.made)
    BY <1>3, <1>5, <1>8, <1>9, <1>10 DEF PartsOK
  <1>12. LET g == Delete(f) IN TuiOK(g) /\ g.windows = V /\ g.current = cur /\ g.made = f.made
    BY <1>7, <1>11, LaidOutOK
  <1> QED BY <1>8, <1>12 DEF V, W

------------------------------------------------------------------------------
(* The other commands.                                                     *)

LEMMA SingleOK ==
  ASSUME NEW w, w \in Nat \ {0}, NEW made, made \in Nat, w <= made
  PROVE TreeOK(Single(w), <<w>>, made)
  <1>1. Single(w).root = w /\ Single(w).children = <<>> /\ Single(w).orient = <<>>
    BY DEF Single
  <1>2. DOMAIN <<>> = {} OBVIOUS
  <1>3. LeavesAre(<<>>, w, <<w>>) BY OneWindow
  <1>4. ToSet(<<w>>) = {w} BY DEF ToSet
  <1> DEFINE C == <<>>
             W == <<w>>
  <1> HIDE DEF C, W
  <1>5. Oriented(C, C) BY <1>2 DEF Oriented, C
  <1>6. Numbered(C, W, made)
    <2>1. DOMAIN C = {} /\ ToSet(W) = {w} BY <1>2, <1>4 DEF C, W
    <2> QED BY <2>1 DEF Numbered
  <1> QED BY <1>1, <1>3, <1>5, <1>6 DEF TreeOK, C, W

\* Keeping one window.
LEMMA DeleteOthersOK ==
  ASSUME NEW f, TuiOK(f)
  PROVE LET g == DeleteOthers(f) IN
        TuiOK(g) /\ g.windows = <<Current(f)>> /\ g.current = 0 /\ g.made = f.made
  <1> DEFINE cur == Current(f)
             W == <<cur>>
             bias == [w \in {cur} |-> f.bias[w]]
             eds == f.editors \cap {cur}
             i == 0
  <1>1. TreeOK(f.tree, f.windows, f.made) /\ cur \in ToSet(f.windows) BY FrameShape
  <1>2. /\ f.made \in Nat \ {0} /\ ToSet(f.windows) \subseteq 1 .. f.made
        /\ f.screen \in Screens /\ f.bias \in [ToSet(f.windows) -> Int]
        /\ f.editors = ToSet(f.windows)
    BY DEF TuiOK, PartsOK, TreeOK, Numbered
  <1>3. cur \in Nat \ {0} /\ cur <= f.made
    <2> HIDE DEF cur
    <2>1. cur \in 1 .. f.made BY <1>1, <1>2
    <2> QED BY <1>2, <2>1
  <1>4. TreeOK(Single(cur), W, f.made) BY <1>2, <1>3, SingleOK
  <1>5. ToSet(W) = {cur} /\ Len(W) = 1 BY DEF ToSet
  <1>6. DeleteOthers(f) = LaidOut(Single(cur), W, i, f.screen, bias, eds, f.made)
    BY DEF DeleteOthers
  <1> HIDE DEF cur
  <1>7. bias \in [{cur} -> Int] /\ eds = {cur} BY <1>1, <1>2
  <1> HIDE DEF bias, eds, W
  <1>8. i \in 0 .. Len(W) - 1 BY <1>5
  <1> HIDE DEF i
  <1>9. PartsOK(Single(cur), W, i, f.screen, bias, eds, f.made)
    BY <1>2, <1>4, <1>5, <1>7, <1>8 DEF PartsOK
  <1>10. LET g == DeleteOthers(f) IN
         TuiOK(g) /\ g.windows = W /\ g.current = i /\ g.made = f.made
    BY <1>6, <1>9, LaidOutOK
  <1> QED BY <1>10 DEF W, i, cur

\* Selecting another window changes nothing else.
LEMMA OtherWindowOK ==
  ASSUME NEW f, TuiOK(f)
  PROVE LET g == [f EXCEPT !.current = (@ + 1) % Len(f.windows)] IN
        /\ TuiOK(g) /\ g.windows = f.windows /\ g.made = f.made
        /\ g.current \in 0 .. Len(f.windows) - 1
  <1> DEFINE i == (f.current + 1) % Len(f.windows)
             g == [f EXCEPT !.current = i]
  <1>1. TreeOK(f.tree, f.windows, f.made) /\ f.current \in Int BY FrameShape
  <1>2. i \in 0 .. Len(f.windows) - 1
    <2> DEFINE n == Len(f.windows)
               j == f.current + 1
    <2>1. n \in Nat \ {0} /\ j \in Int BY <1>1, TreeShape
    <2> HIDE DEF n, j
    <2>2. j % n \in 0 .. n - 1 BY <2>1
    <2> QED BY <2>2 DEF n, j
  <1>3. f = LaidOut(f.tree, f.windows, f.current, f.screen, f.bias, f.editors, f.made)
    BY DEF TuiOK
  <1> HIDE DEF i
  <1>4. g = LaidOut(f.tree, f.windows, i, f.screen, f.bias, f.editors, f.made)
    <2> DEFINE a == f.tree
               b == f.windows
               c == f.current
               d == f.screen
               e == f.bias
               h == f.editors
               m == f.made
    <2>1. f = LaidOut(a, b, c, d, e, h, m) BY <1>3
    <2> HIDE DEF a, b, c, d, e, h, m
    <2>2. g = LaidOut(a, b, i, d, e, h, m) BY <2>1 DEF LaidOut
    <2> QED BY <2>2 DEF a, b, c, d, e, h, m
  <1>5. PartsOK(f.tree, f.windows, i, f.screen, f.bias, f.editors, f.made)
    BY <1>2 DEF TuiOK, PartsOK
  <1> HIDE DEF g
  <1>6. TuiOK(g) /\ g.windows = f.windows /\ g.made = f.made /\ g.current = i
    BY <1>4, <1>5, LaidOutOK
  <1>7. g = [f EXCEPT !.current = (@ + 1) % Len(f.windows)] BY DEF g, i
  <1> QED BY <1>2, <1>6, <1>7

\* The neighbour of the current window is another one.
LEMMA NeighbourOK ==
  ASSUME NEW f, TuiOK(f), Len(f.windows) > 1
  PROVE Neighbour(f) \in ToSet(f.windows) /\ Neighbour(f) # Current(f)
  <1> DEFINE W == f.windows
             i == f.current
             j == IF i < Len(W) - 1 THEN i + 2 ELSE i
  <1>1. /\ TreeOK(f.tree, W, f.made) /\ i + 1 \in 1 .. Len(W) /\ At(W, i + 1, Current(f))
        /\ i \in Int
    BY FrameShape
  <1>2. DOMAIN W = 1 .. Len(W) /\ Len(W) \in Nat /\ IsInjective(W) BY <1>1, TreeShape
  <1>3. j \in 1 .. Len(W) /\ j # i + 1
    <2> DEFINE n == Len(W)
    <2>1. n \in Nat /\ n > 1 /\ i + 1 \in 1 .. n /\ i \in Int BY <1>1, <1>2
    <2> HIDE DEF n, i
    <2>2. (IF i < n - 1 THEN i + 2 ELSE i) \in 1 .. n /\ (IF i < n - 1 THEN i + 2 ELSE i) # i + 1
      BY <2>1
    <2> QED BY <2>2 DEF n
  <1>4. Neighbour(f) = W[j] BY DEF Neighbour
  <1>5. Current(f) = W[i + 1] BY DEF Current
  <1> HIDE DEF W, j, i
  <1>6. W[j] # W[i + 1] BY <1>1, <1>2, <1>3 DEF IsInjective
  <1>7. W[j] \in ToSet(W) BY <1>2, <1>3 DEF ToSet
  <1> QED BY <1>4, <1>5, <1>6, <1>7 DEF W

LEMMA EnlargeOK ==
  ASSUME NEW f, TuiOK(f), Len(f.windows) > 1, NEW d \in Int
  PROVE LET g == Enlarge(f, d) IN
        /\ TuiOK(g) /\ g.windows = f.windows /\ g.current = f.current /\ g.made = f.made
        /\ g.tree = f.tree /\ g.screen = f.screen
        /\ g.bias = [f.bias EXCEPT ![Current(f)] = @ + d, ![Neighbour(f)] = @ - d]
  <1> DEFINE bias == [f.bias EXCEPT ![Current(f)] = @ + d, ![Neighbour(f)] = @ - d]
  <1>1. Current(f) \in ToSet(f.windows) /\ Neighbour(f) \in ToSet(f.windows)
    BY FrameShape, NeighbourOK
  <1>2. f.bias \in [ToSet(f.windows) -> Int] BY DEF TuiOK, PartsOK
  <1>3. bias \in [ToSet(f.windows) -> Int] BY <1>1, <1>2
  <1> HIDE DEF bias
  <1>4. PartsOK(f.tree, f.windows, f.current, f.screen, bias, f.editors, f.made)
    BY <1>3 DEF TuiOK, PartsOK
  <1>5. Enlarge(f, d) = LaidOut(f.tree, f.windows, f.current, f.screen, bias, f.editors, f.made)
    BY DEF Enlarge, Rebias, bias
  <1> QED BY <1>4, <1>5, LaidOutOK DEF bias

LEMMA ResizeOK ==
  ASSUME NEW f, TuiOK(f), NEW s \in Screens
  PROVE LET g == LaidOut(f.tree, f.windows, f.current, s, f.bias, f.editors, f.made) IN
        TuiOK(g) /\ g.windows = f.windows /\ g.current = f.current /\ g.made = f.made
  <1>1. PartsOK(f.tree, f.windows, f.current, s, f.bias, f.editors, f.made)
    BY DEF TuiOK, PartsOK
  <1> QED BY <1>1, LaidOutOK

------------------------------------------------------------------------------
(* The boxes of the nodes.                                                 *)

\* One step of the recursion of Boxes: the box of n from the boxes g.
PlaceStep(C, orient, bias, screen, n, g) ==
    LET ps == Parents(C, n)
        p == CHOOSE q \in ps : TRUE
    IN IF ps = {} THEN screen ELSE ChildBox(C[p], orient[p], bias, IndexOf(C[p], n), g[p])

\* How far a node of a tree is from being the root, in windows not under it: more
\* for a child than for its parent.
Depths(C, top, d) ==
    /\ top \in Nat /\ DOMAIN C \subseteq Int
    /\ \A n \in DOMAIN C : d[n] \in 0 .. top - 1
    /\ \A n \in DOMAIN C : Parents(C, n) = {} \/ \E p \in DOMAIN C : Parents(C, n) = {p} /\ d[p] < d[n]

LEMMA TreeDepths ==
  ASSUME NEW C, NEW r, NEW W, NEW lo, NEW hi, Tree(C, r, W, lo, hi), Branching(C)
  PROVE \E d : Depths(C, Len(W), d)
  <1> DEFINE d == [n \in DOMAIN C |-> Len(W) - 1 - (hi[n] - lo[n])]
  <1>1. Shape(C, r, W) /\ Spans(C, W, lo, hi) BY DEF Tree
  <1>2. Len(W) \in Nat BY <1>1 DEF Shape
  <1>3. ASSUME NEW n \in DOMAIN C PROVE d[n] \in 0 .. Len(W) - 1
    <2>1. /\ lo[n] \in Int /\ hi[n] \in Int
          /\ 1 <= lo[n] /\ lo[n] <= hi[n] /\ hi[n] <= Len(W)
      BY <1>1 DEF Spans, Items
    <2>2. d[n] = Len(W) - 1 - (hi[n] - lo[n]) OBVIOUS
    <2> DEFINE a == lo[n]
               b == hi[n]
               m == Len(W)
    <2> HIDE DEF d, a, b, m
    <2>3. m - 1 - (b - a) \in 0 .. m - 1 BY <1>2, <2>1 DEF a, b, m
    <2> QED BY <2>2, <2>3 DEF a, b, m
  <1>4. ASSUME NEW n \in DOMAIN C
        PROVE Parents(C, n) = {} \/ \E p \in DOMAIN C : Parents(C, n) = {p} /\ d[p] < d[n]
    <2>1. CASE n = r BY <1>1, <2>1, ParentsOfRoot
    <2>2. CASE n # r
      <3>1. n \in Items(C, W) BY DEF Items
      <3>2. PICK p \in DOMAIN C : \E q \in 1 .. Len(C[p]) :
               C[p][q] = n /\ Parents(C, n) = {p} /\ q \in DOMAIN C[p]
        BY <1>1, <2>2, <3>1, ParentExists
      <3>3. PICK q \in 1 .. Len(C[p]) : C[p][q] = n /\ Parents(C, n) = {p} BY <3>2
      <3>4. Len(C[p]) >= 2 BY DEF Branching
      <3>5. hi[n] - lo[n] < hi[p] - lo[p] BY <3>3, <3>4, ChildSpanSmaller
      <3>6. /\ lo[n] \in Int /\ hi[n] \in Int /\ lo[p] \in Int /\ hi[p] \in Int
        BY <1>1 DEF Spans, Items
      <3>7. d[n] = Len(W) - 1 - (hi[n] - lo[n]) /\ d[p] = Len(W) - 1 - (hi[p] - lo[p]) OBVIOUS
      <3> DEFINE a == lo[n]
                 b == hi[n]
                 e == lo[p]
                 f == hi[p]
                 m == Len(W)
      <3> HIDE DEF d, a, b, e, f, m
      <3>8. m - 1 - (f - e) < m - 1 - (b - a) BY <1>2, <3>5, <3>6 DEF a, b, e, f, m
      <3>9. d[p] < d[n] BY <3>7, <3>8 DEF a, b, e, f, m
      <3> QED BY <3>3, <3>9
    <2> QED BY <2>1, <2>2
  <1> HIDE DEF d
  <1>5. DOMAIN C \subseteq Int BY <1>1 DEF Shape
  <1>6. Depths(C, Len(W), d) BY <1>2, <1>3, <1>4, <1>5 DEF Depths
  <1> QED BY <1>6

\* The recursion has a result, made level by level.
LEMMA PlaceEquation ==
  ASSUME NEW C, NEW top, NEW d, Depths(C, top, d), NEW orient, NEW bias, NEW screen
  PROVE LET boxes == Boxes(C, orient, bias, screen) IN
        boxes = [n \in Int |-> PlaceStep(C, orient, bias, screen, n, boxes)]
  <1> DEFINE F(n, g) == PlaceStep(C, orient, bias, screen, n, g)
             Upto(k, g) == /\ g = [n \in Int |-> g[n]]
                           /\ \A n \in Int : (\A p \in Parents(C, n) : d[p] < k) => g[n] = F(n, g)
             S == {k \in Nat : \E g : Upto(k, g)}
  <1>0. ASSUME NEW n, Parents(C, n) # {}, NEW g, NEW h,
               \A p \in Parents(C, n) : g[p] = h[p]
        PROVE F(n, g) = F(n, h)
    BY <1>0 DEF PlaceStep
  <1>00. ASSUME NEW n, Parents(C, n) = {}, NEW g PROVE F(n, g) = screen
    BY <1>00 DEF PlaceStep
  <1> HIDE DEF F
  <1>1. 0 \in S
    <2> DEFINE g == [n \in Int |-> screen]
    <2>1. ASSUME NEW n \in Int, \A p \in Parents(C, n) : d[p] < 0 PROVE g[n] = F(n, g)
      <3>1. Parents(C, n) = {}
        <4>1. \A p \in Parents(C, n) : d[p] \in 0 .. top - 1 BY DEF Depths, Parents
        <4>2. top \in Nat BY DEF Depths
        <4> QED BY <2>1, <4>1, <4>2
      <3>2. g[n] = screen OBVIOUS
      <3> HIDE DEF g
      <3> QED BY <3>1, <3>2, <1>00
    <2>2. Upto(0, g) BY <2>1
    <2> HIDE DEF g, Upto
    <2> QED BY <2>2
  <1>2. ASSUME NEW k \in Nat, k \in S PROVE k + 1 \in S
    <2>1. PICK g : Upto(k, g) BY <1>2
    <2> DEFINE h == [n \in Int |-> F(n, g)]
    <2>2. h = [n \in Int |-> h[n]] OBVIOUS
    <2>3. \A n \in Int : h[n] = F(n, g) OBVIOUS
    <2> HIDE DEF h
    <2>4. ASSUME NEW n \in Int, \A p \in Parents(C, n) : d[p] < k + 1 PROVE h[n] = F(n, h)
      <3>1. CASE Parents(C, n) = {} BY <1>00, <2>3, <3>1
      <3>2. CASE Parents(C, n) # {}
        <4>1. ASSUME NEW p \in Parents(C, n) PROVE g[p] = h[p]
          <5>1. p \in DOMAIN C /\ p \in Int BY DEF Parents, Depths
          <5>2. d[p] \in Int /\ d[p] < k + 1 BY <2>4, <5>1 DEF Depths
          <5>3. ASSUME NEW q \in Parents(C, p) PROVE d[q] < k
            <6>1. PICK o \in DOMAIN C : Parents(C, p) = {o} /\ d[o] < d[p]
              BY <5>1 DEF Depths
            <6>2. q = o /\ d[q] \in Int BY <6>1 DEF Depths
            <6>3. d[q] < d[p] BY <6>1, <6>2
            <6> DEFINE a == d[q]
                       b == d[p]
            <6> HIDE DEF a, b
            <6>4. a < k BY <5>2, <6>2, <6>3 DEF a, b
            <6> QED BY <6>4 DEF a
          <5>4. g[p] = F(p, g) BY <2>1, <5>1, <5>3
          <5> QED BY <2>3, <5>1, <5>4
        <4> QED BY <1>0, <2>3, <3>2, <4>1
      <3> QED BY <3>1, <3>2
    <2>5. Upto(k + 1, h) BY <2>2, <2>4
    <2> HIDE DEF Upto
    <2> QED BY <2>5
  <1> HIDE DEF S
  <1>3. top \in S BY <1>1, <1>2, InductionSet DEF Depths
  <1>4. PICK g : Upto(top, g) BY <1>3 DEF S
  <1>5. ASSUME NEW n \in Int PROVE g[n] = F(n, g)
    <2>1. ASSUME NEW p \in Parents(C, n) PROVE d[p] < top
      <3>1. d[p] \in 0 .. top - 1 /\ top \in Nat BY DEF Depths, Parents
      <3> QED BY <3>1
    <2> QED BY <1>4, <2>1
  <1>6. g = [n \in Int |-> g[n]] BY <1>4
  <1>7. g = [n \in Int |-> F(n, g)] BY <1>5, <1>6
  <1> QED BY <1>7 DEF F, Boxes, PlaceStep

\* The root has the whole area, a child its part of the box of its parent.
Placed(C, r, orient, bias, area, box) ==
    /\ box[r] = area
    /\ \A n \in DOMAIN C : \A i \in 1 .. Len(C[n]) :
          box[C[n][i]] = ChildBox(C[n], orient[n], bias, i, box[n])

LEMMA BoxesPlaced ==
  ASSUME NEW t, NEW W, NEW made, TreeOK(t, W, made), NEW bias, NEW area
  PROVE Placed(t.children, t.root, t.orient, bias, area,
               Boxes(t.children, t.orient, bias, area))
  <1> DEFINE C == t.children
             r == t.root
             box == Boxes(C, t.orient, bias, area)
  <1>1. Shape(C, r, W) /\ Branching(C) BY TreeShape
  <1>2. PICK lo, hi : Tree(C, r, W, lo, hi) BY DEF TreeOK, LeavesAre
  <1>3. PICK d : Depths(C, Len(W), d) BY <1>1, <1>2, TreeDepths
  <1>4. box = [n \in Int |-> PlaceStep(C, t.orient, bias, area, n, box)]
    BY <1>3, PlaceEquation
  <1> HIDE DEF C, r, box
  <1>5. \A x \in Items(C, W) : x \in Int BY <1>1, ItemsAreNumbers
  <1>6. box[r] = area
    <2>1. r \in Int /\ Parents(C, r) = {} BY <1>1, <1>5, ParentsOfRoot DEF Shape
    <2>2. box[r] = PlaceStep(C, t.orient, bias, area, r, box) BY <1>4, <2>1
    <2> QED BY <2>1, <2>2 DEF PlaceStep
  <1>7. ASSUME NEW n \in DOMAIN C, NEW i \in 1 .. Len(C[n])
        PROVE box[C[n][i]] = ChildBox(C[n], t.orient[n], bias, i, box[n])
    <2> DEFINE x == C[n][i]
    <2>1. x \in Int /\ Parents(C, x) = {n} BY <1>1, <1>5, ChildIsItem, ParentsOfChild
    <2>2. IndexOf(C[n], x) = i BY <1>1, ChildrenInjective, IndexOfElement
    <2> HIDE DEF x
    <2>3. box[x] = PlaceStep(C, t.orient, bias, area, x, box) BY <1>4, <2>1
    <2>4. (CHOOSE q \in Parents(C, x) : TRUE) = n BY <2>1
    <2>5. PlaceStep(C, t.orient, bias, area, x, box)
            = ChildBox(C[n], t.orient[n], bias, IndexOf(C[n], x), box[n])
      BY <2>1, <2>4 DEF PlaceStep
    <2> QED BY <2>2, <2>3, <2>5 DEF x
  <1> QED BY <1>6, <1>7 DEF Placed, C, r, box

\* Every window has a box and nothing else.
LEMMA LayoutBoxes ==
  ASSUME NEW t, NEW W, NEW made, TreeOK(t, W, made), NEW bias, NEW screen
  PROVE /\ Layout(t, bias, screen)
             = [w \in ToSet(W) |-> Boxes(t.children, t.orient, bias, Area(screen))[w]]
        /\ DOMAIN Layout(t, bias, screen) = ToSet(W)
  <1>1. Flatten(t.children, t.root) = W BY TreeShape
  <1> QED BY <1>1 DEF Layout

LEMMA InitOK ==
  ASSUME NEW s \in Screens
  PROVE LET g == FrameInit(s) IN
        TuiOK(g) /\ g.windows = <<1>> /\ g.current = 0 /\ g.made = 1
  <1> DEFINE t == Single(1)
             W == <<1>>
             bias == [w \in {1} |-> 0]
             g == LaidOut(t, W, 0, s, bias, {1}, 1)
             box == Boxes(t.children, t.orient, bias, Area(s))
  <1>1. TreeOK(t, W, 1) BY SingleOK
  <1>2. ToSet(W) = {1} /\ Len(W) = 1 BY DEF ToSet
  <1>3. t.root = 1 BY DEF Single
  <1>4. bias \in [{1} -> Int] OBVIOUS
  <1>5. Layout(t, bias, s) = [w \in {1} |-> Area(s)]
    <2> HIDE DEF t, W, bias, box
    <2>1. Layout(t, bias, s) = [w \in {1} |-> box[w]] BY <1>1, <1>2, LayoutBoxes DEF box
    <2>2. Placed(t.children, t.root, t.orient, bias, Area(s), box) BY <1>1, BoxesPlaced DEF box
    <2>3. box[1] = Area(s) BY <1>3, <2>2 DEF Placed
    <2> QED BY <2>1, <2>3
  <1>6. FrameInit(s) = g BY <1>5 DEF FrameInit, LaidOut
  <1>7. PartsOK(t, W, 0, s, bias, {1}, 1)
    <2> HIDE DEF t, W, bias
    <2> QED BY <1>1, <1>2, <1>4 DEF PartsOK
  <1> HIDE DEF t, bias, box
  <1>8. TuiOK(g) /\ g.windows = W /\ g.current = 0 /\ g.made = 1 BY <1>7, LaidOutOK
  <1> QED BY <1>6, <1>8

------------------------------------------------------------------------------
(* The theorems of the shape.                                              *)

TuiInv == TuiOK(fr) /\ fr.made \in 1 .. MaxWindows

LEMMA TuiInvInit ==
  ASSUME Init
  PROVE TuiInv
  <1>1. PICK s \in Screens : fr = FrameInit(s) BY DEF Init
  <1>2. TuiOK(fr) /\ fr.made = 1 BY <1>1, InitOK
  <1> QED BY <1>2, TuiFrameAssumption DEF TuiInv

LEMMA TuiInvStep ==
  ASSUME TuiInv, [Next]_fr
  PROVE TuiInv'
  <1>0. TuiOK(fr) /\ fr.made \in 1 .. MaxWindows /\ MaxWindows \in Nat \ {0}
    BY TuiFrameAssumption DEF TuiInv
  <1>1. ASSUME NEW o \in Orientations, SplitWindow(o) PROVE TuiInv'
    <2>1. fr.made < MaxWindows /\ fr' = Split(fr, o) BY <1>1 DEF SplitWindow
    <2>2. TuiOK(fr') /\ fr'.made = fr.made + 1 BY <1>0, <2>1, SplitOK
    <2>3. fr'.made \in 1 .. MaxWindows
      <3> DEFINE m == fr.made
                 n == fr'.made
      <3>1. n = m + 1 /\ m < MaxWindows /\ m \in 1 .. MaxWindows BY <1>0, <2>1, <2>2
      <3> HIDE DEF m, n
      <3>2. n \in 1 .. MaxWindows BY <1>0, <3>1
      <3> QED BY <3>2 DEF n
    <2> QED BY <2>2, <2>3 DEF TuiInv
  <1>2. CASE DeleteWindow
    <2>1. Len(fr.windows) > 1 /\ fr' = Delete(fr) BY <1>2 DEF DeleteWindow
    <2>2. TuiOK(fr') /\ fr'.made = fr.made BY <1>0, <2>1, DeleteOK
    <2> QED BY <1>0, <2>2 DEF TuiInv
  <1>3. CASE DeleteOtherWindows
    <2>1. TuiOK(fr') /\ fr'.made = fr.made BY <1>0, <1>3, DeleteOthersOK DEF DeleteOtherWindows
    <2> QED BY <1>0, <2>1 DEF TuiInv
  <1>4. CASE OtherWindow
    <2>1. TuiOK(fr') /\ fr'.made = fr.made BY <1>0, <1>4, OtherWindowOK DEF OtherWindow
    <2> QED BY <1>0, <2>1 DEF TuiInv
  <1>5. ASSUME NEW d \in {1, -1}, EnlargeWindow(d) PROVE TuiInv'
    <2>1. Len(fr.windows) > 1 /\ fr' = Enlarge(fr, d) BY <1>5 DEF EnlargeWindow
    <2>2. d \in Int OBVIOUS
    <2>3. TuiOK(fr') /\ fr'.made = fr.made BY <1>0, <2>1, <2>2, EnlargeOK
    <2> QED BY <1>0, <2>3 DEF TuiInv
  <1>6. ASSUME NEW s \in Screens, Resize(s) PROVE TuiInv'
    <2>1. TuiOK(fr') /\ fr'.made = fr.made BY <1>0, <1>6, ResizeOK DEF Resize
    <2> QED BY <1>0, <2>1 DEF TuiInv
  <1>7. CASE UNCHANGED fr
    <2>1. fr' = fr BY <1>7
    <2> QED BY <1>0, <2>1 DEF TuiInv
  <1> QED BY <1>1, <1>2, <1>3, <1>4, <1>5, <1>6, <1>7 DEF Next

LEMMA TuiInvShape ==
  ASSUME TuiInv
  PROVE TypeOK
  <1>1. /\ TuiOK(fr) /\ fr.made \in 1 .. MaxWindows BY DEF TuiInv
  <1>2. /\ fr = LaidOut(fr.tree, fr.windows, fr.current, fr.screen, fr.bias, fr.editors, fr.made)
        /\ PartsOK(fr.tree, fr.windows, fr.current, fr.screen, fr.bias, fr.editors, fr.made)
    BY <1>1 DEF TuiOK
  <1>3. fr.box = Layout(fr.tree, fr.bias, fr.screen) BY <1>2, LaidOutOK
  <1>4. TreeOK(fr.tree, fr.windows, fr.made) BY <1>2 DEF PartsOK
  <1>5. DOMAIN fr.box = ToSet(fr.windows) BY <1>3, <1>4, LayoutBoxes
  <1>6. /\ fr.current \in 0 .. Len(fr.windows) - 1
        /\ fr.screen \in Screens
        /\ DOMAIN fr.bias = ToSet(fr.windows)
        /\ fr.editors = ToSet(fr.windows)
    BY <1>2 DEF PartsOK
  <1>7. /\ fr.windows = Flatten(fr.tree.children, fr.tree.root)
        /\ IsInjective(fr.windows)
        /\ \A n \in DOMAIN fr.tree.children : Len(fr.tree.children[n]) >= 2
    BY <1>4, TreeShape DEF Branching
  <1>8. DOMAIN fr.tree.orient = DOMAIN fr.tree.children BY <1>4 DEF TreeOK, Oriented
  <1> QED BY <1>1, <1>5, <1>6, <1>7, <1>8 DEF TypeOK

\* The list is the tree read in order and every split has two children or more,
\* after any splits, deletions and resizes; the editors, boxes and biases are
\* those of its windows (window.ss frame-do-split!, frame-delete-window!).
THEOREM TuiFrameSafe == Spec => []TypeOK
  <1>1. Init => TuiInv BY TuiInvInit
  <1>2. TuiInv /\ [Next]_fr => TuiInv' BY TuiInvStep
  <1>3. TuiInv => TypeOK BY TuiInvShape
  <1> QED BY <1>1, <1>2, <1>3, PTL DEF Spec

\* The terminal's frame implements the same list of windows with one selected as
\* the Qt frame: every command is a step of the list or leaves it alone.
THEOREM TuiFrameIsList == Spec => ListSpec
  <1>1. Init => List!Init
    <2> SUFFICES ASSUME Init PROVE List!Init OBVIOUS
    <2>1. PICK s \in Screens : fr = FrameInit(s) BY DEF Init
    <2>2. fr.windows = <<1>> /\ fr.current = 0 BY <2>1, InitOK
    <2>3. 1 \in 1 .. MaxWindows BY TuiFrameAssumption
    <2> QED BY <2>2, <2>3 DEF List!Init
  <1>2. TuiInv /\ [Next]_fr => [List!Next]_(List!listVars)
    <2> SUFFICES ASSUME TuiInv, [Next]_fr PROVE [List!Next]_(List!listVars) OBVIOUS
    <2>0. TuiOK(fr) /\ fr.made \in 1 .. MaxWindows BY DEF TuiInv
    <2>1. ASSUME NEW o \in Orientations, SplitWindow(o) PROVE List!Next
      <3>1. fr.made < MaxWindows /\ fr' = Split(fr, o) BY <2>1 DEF SplitWindow
      <3>2. /\ List!ToSet(fr.windows) = ToSet(fr.windows)
            /\ List!InsertAt(fr.windows, fr.current + 2, fr.made + 1)
                 = InsertAt(fr.windows, fr.current + 2, fr.made + 1)
        BY DEF List!ToSet, ToSet, List!InsertAt, InsertAt
      <3>3. /\ fr'.windows = InsertAt(fr.windows, fr.current + 2, fr.made + 1)
            /\ fr'.current = fr.current + 1
            /\ fr.made + 1 \notin ToSet(fr.windows)
        BY <2>0, <3>1, SplitOK
      <3>4. List!Split(fr.made + 1) BY <3>2, <3>3 DEF List!Split
      <3>5. fr.made + 1 \in 1 .. MaxWindows BY <2>0, <3>1, TuiFrameAssumption
      <3> QED BY <3>4, <3>5 DEF List!Next
    <2>2. CASE DeleteWindow
      <3>1. Len(fr.windows) > 1 /\ fr' = Delete(fr) BY <2>2 DEF DeleteWindow
      <3>2. List!RemoveAt(fr.windows, fr.current + 1) = RemoveAt(fr.windows, fr.current + 1)
        BY DEF List!RemoveAt, RemoveAt
      <3>3. List!Delete BY <2>0, <3>1, <3>2, DeleteOK DEF List!Delete
      <3> QED BY <3>3 DEF List!Next
    <2>3. CASE DeleteOtherWindows
      <3>1. fr'.windows = <<Current(fr)>> /\ fr'.current = 0
        BY <2>0, <2>3, DeleteOthersOK DEF DeleteOtherWindows
      <3>2. List!DeleteOthers BY <3>1 DEF List!DeleteOthers, List!Selected, Current
      <3> QED BY <3>2 DEF List!Next
    <2>4. CASE OtherWindow
      <3>1. /\ fr'.windows = fr.windows
            /\ fr'.current \in 0 .. Len(fr.windows) - 1
        BY <2>0, <2>4, OtherWindowOK DEF OtherWindow
      <3>2. fr'.current < Len(fr.windows)
        <4>1. TreeOK(fr.tree, fr.windows, fr.made) BY <2>0, FrameShape
        <4>2. Len(fr.windows) \in Nat BY <4>1, TreeShape
        <4> QED BY <3>1, <4>2
      <3>3. List!Select(fr'.current) BY <3>1, <3>2 DEF List!Select
      <3> QED BY <3>1, <3>3 DEF List!Next
    <2>5. ASSUME NEW d \in {1, -1}, EnlargeWindow(d) PROVE UNCHANGED List!listVars
      <3>1. Len(fr.windows) > 1 /\ fr' = Enlarge(fr, d) BY <2>5 DEF EnlargeWindow
      <3>2. d \in Int OBVIOUS
      <3>3. fr'.windows = fr.windows /\ fr'.current = fr.current
        BY <2>0, <3>1, <3>2, EnlargeOK
      <3> QED BY <3>3 DEF List!listVars
    <2>6. ASSUME NEW s \in Screens, Resize(s) PROVE UNCHANGED List!listVars
      <3>1. fr'.windows = fr.windows /\ fr'.current = fr.current
        BY <2>0, <2>6, ResizeOK DEF Resize
      <3> QED BY <3>1 DEF List!listVars
    <2>7. CASE UNCHANGED fr BY <2>7 DEF List!listVars
    <2> QED BY <2>1, <2>2, <2>3, <2>4, <2>5, <2>6, <2>7 DEF Next
  <1>3. Init => TuiInv BY TuiInvInit
  <1>4. TuiInv /\ [Next]_fr => TuiInv' BY TuiInvStep
  <1> QED BY <1>1, <1>2, <1>3, <1>4, PTL DEF Spec, ListSpec, List!Spec

------------------------------------------------------------------------------
(* Induction over a tree.                                                  *)

\* From the root to the leaves.
LEMMA TopDown ==
  ASSUME NEW C, NEW r, NEW W, NEW lo, NEW hi, Tree(C, r, W, lo, hi), Branching(C),
         NEW S, r \in S,
         \A n \in DOMAIN C : n \in S => \A i \in 1 .. Len(C[n]) : C[n][i] \in S
  PROVE Items(C, W) \subseteq S
  <1>0. Shape(C, r, W) /\ Spans(C, W, lo, hi) BY DEF Tree
  <1>1. Len(W) \in Nat BY <1>0 DEF Shape
  <1> DEFINE Gap(x) == Len(W) - (hi[x] - lo[x])
             Bad == {g \in Nat : \E x \in Items(C, W) : Gap(x) = g /\ x \notin S}
  <1>2. ASSUME NEW x \in Items(C, W)
        PROVE lo[x] \in Int /\ hi[x] \in Int /\ Gap(x) \in Nat
    <2>1. /\ lo[x] \in Int /\ hi[x] \in Int
          /\ 1 <= lo[x] /\ lo[x] <= hi[x] /\ hi[x] <= Len(W)
      BY <1>0 DEF Spans
    <2> DEFINE a == lo[x]
               b == hi[x]
               m == Len(W)
    <2> HIDE DEF a, b, m
    <2>2. m - (b - a) \in Nat BY <1>1, <2>1 DEF a, b, m
    <2> QED BY <2>1, <2>2 DEF a, b, m
  <1> SUFFICES ASSUME NEW z \in Items(C, W), z \notin S PROVE FALSE OBVIOUS
  <1>3. Gap(z) \in Bad BY <1>2
  <1>4. Bad \subseteq Nat /\ Bad # {} BY <1>3
  <1>5. PICK g \in Bad : \A e \in Bad : g <= e BY <1>4, LeastElement
  <1>6. PICK x \in Items(C, W) : Gap(x) = g /\ x \notin S BY <1>5
  <1>7. PICK n \in DOMAIN C : \E i \in 1 .. Len(C[n]) : C[n][i] = x
    BY <1>0, <1>6, ParentExists
  <1>8. PICK i \in 1 .. Len(C[n]) : C[n][i] = x BY <1>7
  <1>9. hi[x] - lo[x] < hi[n] - lo[n] BY <1>8, ChildSpanSmaller DEF Branching
  <1>10. n \in Items(C, W) /\ n \notin S BY <1>6, <1>8 DEF Items
  <1>11. Gap(n) \in Bad BY <1>2, <1>10
  <1>12. Gap(n) < Gap(x)
    <2>1. /\ lo[x] \in Int /\ hi[x] \in Int /\ lo[n] \in Int /\ hi[n] \in Int
      BY <1>2, <1>10
    <2> DEFINE a == lo[x]
               b == hi[x]
               e == lo[n]
               f == hi[n]
               m == Len(W)
    <2> HIDE DEF a, b, e, f, m
    <2>2. m - (f - e) < m - (b - a) BY <1>1, <1>9, <2>1 DEF a, b, e, f, m
    <2> QED BY <2>2 DEF a, b, e, f, m
  <1>13. Gap(n) \in Nat /\ Gap(x) \in Nat BY <1>2, <1>10
  <1> HIDE DEF Gap
  <1>14. g <= Gap(n) BY <1>5, <1>11
  <1> QED BY <1>6, <1>12, <1>13, <1>14

\* From the leaves to the root.
LEMMA BottomUp ==
  ASSUME NEW C, NEW r, NEW W, NEW lo, NEW hi, Tree(C, r, W, lo, hi), Branching(C),
         NEW S, ToSet(W) \subseteq S,
         \A n \in DOMAIN C : (\A i \in 1 .. Len(C[n]) : C[n][i] \in S) => n \in S
  PROVE Items(C, W) \subseteq S
  <1>0. Shape(C, r, W) /\ Spans(C, W, lo, hi) BY DEF Tree
  <1> DEFINE Span(x) == hi[x] - lo[x]
             Bad == {g \in Nat : \E x \in Items(C, W) : Span(x) = g /\ x \notin S}
  <1>2. ASSUME NEW x \in Items(C, W)
        PROVE Span(x) \in Nat
    <2>1. lo[x] \in Int /\ hi[x] \in Int /\ lo[x] <= hi[x] BY <1>0 DEF Spans
    <2> QED BY <2>1
  <1> SUFFICES ASSUME NEW z \in Items(C, W), z \notin S PROVE FALSE OBVIOUS
  <1>3. Span(z) \in Bad BY <1>2
  <1>4. Bad \subseteq Nat /\ Bad # {} BY <1>3
  <1>5. PICK g \in Bad : \A e \in Bad : g <= e BY <1>4, LeastElement
  <1>6. PICK x \in Items(C, W) : Span(x) = g /\ x \notin S BY <1>5
  <1>7. x \in DOMAIN C BY <1>6 DEF Items
  <1>8. PICK i \in 1 .. Len(C[x]) : C[x][i] \notin S BY <1>6, <1>7
  <1>9. Span(C[x][i]) < Span(x) BY <1>7, <1>8, ChildSpanSmaller DEF Branching
  <1>10. C[x][i] \in Items(C, W) BY <1>0, <1>7, ChildIsItem
  <1>11. Span(C[x][i]) \in Bad BY <1>2, <1>8, <1>10
  <1>12. Span(C[x][i]) \in Nat /\ Span(x) \in Nat BY <1>2, <1>10
  <1> HIDE DEF Span
  <1>13. g <= Span(C[x][i]) BY <1>5, <1>11
  <1> QED BY <1>6, <1>9, <1>12, <1>13

------------------------------------------------------------------------------
(* Sums and shares.                                                        *)

LEMMA SumsSteps ==
  ASSUME NEW s \in Seq(Int)
  PROVE /\ Sums(s) \in [0 .. Len(s) -> Int]
        /\ Sums(s)[0] = 0
        /\ \A i \in 1 .. Len(s) : Sums(s)[i] = Sums(s)[i - 1] + s[i]
  <1> DEFINE k == Len(s)
             step == [x \in Int \X (1 .. k) |-> x[1] + s[x[2]]]
             IsSum(g) == g = [i \in 0 .. k |-> IF i = 0 THEN 0 ELSE g[i - 1] + s[i]]
             F == CHOOSE g : IsSum(g)
  <1>1. k \in Nat /\ \A i \in 1 .. k : s[i] \in Int OBVIOUS
  <1>2. F = Sums(s) BY DEF Sums
  <1> HIDE DEF k, F
  <1>3. Stepping(Int, k, step) BY <1>1 DEF Stepping
  <1>4. \A v \in Int, i \in 1 .. k : step[<<v, i>>] = v + s[i] OBVIOUS
  <1> HIDE DEF step
  <1>5. PICK g : Stepped(Int, 0, k, step, g)
    <2>1. 0 \in Int OBVIOUS
    <2> QED BY <1>1, <1>3, <2>1, StepsExist
  <1>6. g \in [0 .. k -> Int] /\ g[0] = 0 /\ \A i \in 1 .. k : g[i] = step[<<g[i - 1], i>>]
    BY <1>5 DEF Stepped
  <1>7. \A i \in 1 .. k : i - 1 \in 0 .. k /\ i \in 0 .. k BY <1>1
  <1>8. \A i \in 1 .. k : g[i] = g[i - 1] + s[i] BY <1>4, <1>6, <1>7
  <1>9. \A i \in 0 .. k : g[i] = IF i = 0 THEN 0 ELSE g[i - 1] + s[i]
    <2> SUFFICES ASSUME NEW i \in 0 .. k, i # 0 PROVE g[i] = g[i - 1] + s[i] BY <1>6
    <2>1. i \in 1 .. k BY <1>1
    <2> QED BY <1>8, <2>1
  <1>10. IsSum(g) BY <1>6, <1>9
  <1>11. IsSum(F)
    <2> HIDE DEF IsSum
    <2> QED BY <1>10 DEF F
  <1>12. ASSUME NEW i \in 1 .. k PROVE F[i] = F[i - 1] + s[i]
    <2>1. i \in 0 .. k /\ i # 0 BY <1>7
    <2> QED BY <1>11, <2>1
  <1>13. 0 \in 0 .. k BY <1>1
  <1>14. F[0] = 0 BY <1>11, <1>13
  <1>15. F \in [0 .. k -> Int]
    <2> DEFINE T == {j \in Nat : j <= k => F[j] \in Int}
    <2>1. 0 \in T BY <1>14
    <2>2. ASSUME NEW j \in Nat, j \in T PROVE j + 1 \in T
      <3> SUFFICES ASSUME j + 1 <= k PROVE F[j + 1] \in Int OBVIOUS
      <3>1. j + 1 \in 1 .. k /\ (j + 1) - 1 = j /\ j <= k BY <1>1
      <3>2. F[j + 1] = F[(j + 1) - 1] + s[j + 1] BY <1>12, <3>1
      <3> QED BY <1>1, <2>2, <3>1, <3>2
    <2> HIDE DEF T
    <2>3. Nat \subseteq T BY <2>1, <2>2, InductionSet
    <2>4. \A j \in 0 .. k : F[j] \in Int BY <1>1, <2>3 DEF T
    <2>5. DOMAIN F = 0 .. k /\ F = [j \in 0 .. k |-> F[j]] BY <1>11
    <2> QED BY <2>4, <2>5
  <1> QED BY <1>2, <1>12, <1>14, <1>15 DEF k

\* Where the elements of two sequences differ, their sums do.
LEMMA SumsDiffer ==
  ASSUME NEW s \in Seq(Int), NEW t \in Seq(Int), NEW k \in Nat, Len(s) = k, Len(t) = k,
         NEW g \in [0 .. k -> Int], g[0] = 0,
         \A i \in 1 .. k : t[i] = s[i] + g[i] - g[i - 1]
  PROVE \A i \in 0 .. k : Sums(t)[i] = Sums(s)[i] + g[i]
  <1> DEFINE a == Sums(s)
             b == Sums(t)
             T == {n \in Nat : n <= k => b[n] = a[n] + g[n]}
  <1>1. /\ a \in [0 .. k -> Int] /\ b \in [0 .. k -> Int] /\ a[0] = 0 /\ b[0] = 0
        /\ \A i \in 1 .. k : a[i] = a[i - 1] + s[i]
        /\ \A i \in 1 .. k : b[i] = b[i - 1] + t[i]
    BY SumsSteps
  <1>2. \A i \in 1 .. k : s[i] \in Int /\ t[i] \in Int OBVIOUS
  <1> HIDE DEF a, b
  <1>3. 0 \in T BY <1>1
  <1>4. ASSUME NEW n \in Nat, n \in T PROVE n + 1 \in T
    <2> SUFFICES ASSUME n + 1 <= k PROVE b[n + 1] = a[n + 1] + g[n + 1] OBVIOUS
    <2> DEFINE m == n + 1
    <2>1. m \in 1 .. k /\ m - 1 = n /\ n \in 0 .. k /\ m \in 0 .. k /\ n <= k OBVIOUS
    <2> HIDE DEF m
    <2>2. a[m] = a[n] + s[m] /\ b[m] = b[n] + t[m] BY <1>1, <2>1
    <2>3. t[m] = s[m] + g[m] - g[n]
      <3>1. t[m] = s[m] + g[m] - g[m - 1] BY <2>1
      <3> QED BY <2>1, <3>1
    <2>4. b[n] = a[n] + g[n] BY <1>4, <2>1
    <2>5. a[n] \in Int /\ g[n] \in Int /\ g[m] \in Int /\ s[m] \in Int BY <1>1, <1>2, <2>1
    <2>6. b[m] = (a[n] + g[n]) + (s[m] + g[m] - g[n]) BY <2>2, <2>3, <2>4
    <2>7. b[m] = a[m] + g[m]
      <3> DEFINE c1 == a[n]
                 c2 == g[n]
                 c3 == s[m]
                 c4 == g[m]
      <3>1. c1 \in Int /\ c2 \in Int /\ c3 \in Int /\ c4 \in Int BY <2>5
      <3> HIDE DEF c1, c2, c3, c4
      <3>2. (c1 + c2) + (c3 + c4 - c2) = (c1 + c3) + c4 BY <3>1
      <3> QED BY <2>2, <2>6, <3>2 DEF c1, c2, c3, c4
    <2> QED BY <2>7 DEF m
  <1> HIDE DEF T
  <1>5. Nat \subseteq T BY <1>3, <1>4, InductionSet
  <1>6. ASSUME NEW i \in 0 .. k PROVE b[i] = a[i] + g[i]
    <2>1. i \in Nat /\ i <= k OBVIOUS
    <2> QED BY <1>5, <2>1 DEF T
  <1> QED BY <1>6 DEF a, b

\* A first element that is e more.
LEMMA SumsShifted ==
  ASSUME NEW s \in Seq(Int), NEW t \in Seq(Int), NEW k \in Nat \ {0}, Len(s) = k, Len(t) = k,
         NEW e \in Int, t[1] = s[1] + e,
         \A i \in 2 .. k : t[i] = s[i]
  PROVE \A i \in 1 .. k : Sums(t)[i] = Sums(s)[i] + e
  <1> DEFINE g == [i \in 0 .. k |-> IF i = 0 THEN 0 ELSE e]
  <1>1. g \in [0 .. k -> Int] /\ g[0] = 0 OBVIOUS
  <1>2. ASSUME NEW i \in 1 .. k PROVE t[i] = s[i] + g[i] - g[i - 1]
    <2>1. i - 1 \in 0 .. k /\ i \in 0 .. k /\ i # 0 /\ s[i] \in Int OBVIOUS
    <2>2. g[i] = e BY <2>1
    <2>3. CASE i = 1
      <3>1. g[i - 1] = 0 BY <2>1, <2>3
      <3> HIDE DEF g
      <3> QED BY <2>1, <2>2, <2>3, <3>1
    <2>4. CASE i # 1
      <3>1. i - 1 # 0 /\ i \in 2 .. k BY <2>4
      <3>2. g[i - 1] = e /\ t[i] = s[i] BY <2>1, <3>1
      <3> HIDE DEF g
      <3> QED BY <2>1, <2>2, <3>2
    <2> QED BY <2>3, <2>4
  <1>3. \A i \in 1 .. k : i \in 0 .. k /\ g[i] = e OBVIOUS
  <1> HIDE DEF g
  <1>4. \A i \in 0 .. k : Sums(t)[i] = Sums(s)[i] + g[i] BY <1>1, <1>2, SumsDiffer
  <1> QED BY <1>3, <1>4

\* One element gives 1, and the first takes it where the sums are equal.
LEMMA SumsMoved ==
  ASSUME NEW s \in Seq(Int), NEW t \in Seq(Int), NEW k \in Nat \ {0}, Len(s) = k, Len(t) = k,
         NEW b \in 2 .. k, t[b] = s[b] - 1,
         \A i \in 2 .. k : i # b => t[i] = s[i],
         Sums(t)[k] = Sums(s)[k]
  PROVE t[1] = s[1] + 1
  <1> DEFINE e == t[1] - s[1]
             g == [i \in 0 .. k |-> IF i = 0 THEN 0 ELSE IF i < b THEN e ELSE e - 1]
  <1>0. s[1] \in Int /\ t[1] \in Int /\ e \in Int OBVIOUS
  <1>1. t[1] = s[1] + e BY <1>0
  <1> HIDE DEF e
  <1>2. g \in [0 .. k -> Int] /\ g[0] = 0 BY <1>0
  <1>3. ASSUME NEW i \in 1 .. k PROVE t[i] = s[i] + g[i] - g[i - 1]
    <2>1. i - 1 \in 0 .. k /\ i \in 0 .. k /\ i # 0 /\ s[i] \in Int OBVIOUS
    <2>2. g[i] = IF i < b THEN e ELSE e - 1 BY <2>1
    <2>3. CASE i = 1
      <3>1. g[i - 1] = 0 /\ g[i] = e BY <2>1, <2>2, <2>3
      <3> HIDE DEF g
      <3> QED BY <1>0, <1>1, <2>1, <2>3, <3>1
    <2>4. CASE i # 1
      <3>1. i - 1 # 0 /\ i \in 2 .. k BY <2>4
      <3>2. g[i - 1] = IF i - 1 < b THEN e ELSE e - 1 BY <2>1, <3>1
      <3> HIDE DEF g
      <3>3. CASE i = b BY <1>0, <2>1, <2>2, <3>2, <3>3
      <3>4. CASE i # b
        <4>1. t[i] = s[i] BY <3>1, <3>4
        <4>2. g[i - 1] = g[i] BY <1>0, <2>1, <2>2, <3>2, <3>4
        <4>3. g[i] \in Int BY <1>2, <2>1
        <4> QED BY <2>1, <4>1, <4>2, <4>3
      <3> QED BY <3>3, <3>4
    <2> QED BY <2>3, <2>4
  <1>4. k \in 0 .. k /\ g[k] = e - 1 OBVIOUS
  <1> HIDE DEF g
  <1>5. \A i \in 0 .. k : Sums(t)[i] = Sums(s)[i] + g[i] BY <1>2, <1>3, SumsDiffer
  <1>6. Sums(t)[k] = Sums(s)[k] + (e - 1) BY <1>4, <1>5
  <1>7. Sums(s)[k] \in Int
    <2>1. Sums(s) \in [0 .. k -> Int] BY SumsSteps
    <2> QED BY <1>4, <2>1
  <1>8. e = 1 BY <1>0, <1>6, <1>7
  <1> QED BY <1>1, <1>8

\* Children of a node, with the biases of the windows among them.
Biased(nodes, k, bias) ==
    /\ k \in Nat \ {0}
    /\ Len(nodes) = k
    /\ \A i \in 1 .. k : nodes[i] \in Int /\ (IsLeaf(nodes[i]) => bias[nodes[i]] \in Int)

\* What child i would have, and what it gets at least.
Wish(nodes, bias, avail, i) ==
    Quotient(avail, Len(nodes)) + (IF i - 1 < Remainder(avail, Len(nodes)) THEN 1 ELSE 0)
                                + (IF IsLeaf(nodes[i]) THEN bias[nodes[i]] ELSE 0)
Given(wish, least) == IF wish < least THEN least ELSE wish

LEMMA QuotientsAreNumbers ==
  ASSUME NEW a \in Int, NEW n \in Nat \ {0}
  PROVE Quotient(a, n) \in Int /\ Remainder(a, n) \in Int
  <1>1. Quotient(a, n) \in Int BY DEF Quotient
  <1> QED BY <1>1 DEF Remainder

LEMMA WishesAreNumbers ==
  ASSUME NEW nodes, NEW k, NEW bias, Biased(nodes, k, bias), NEW avail \in Int, NEW i \in 1 .. k
  PROVE Wish(nodes, bias, avail, i) \in Int
  <1>1. Quotient(avail, k) \in Int /\ Remainder(avail, k) \in Int
    BY QuotientsAreNumbers DEF Biased
  <1> DEFINE q == Quotient(avail, k)
             m == Remainder(avail, k)
             b == IF IsLeaf(nodes[i]) THEN bias[nodes[i]] ELSE 0
  <1>2. b \in Int BY DEF Biased
  <1>3. Wish(nodes, bias, avail, i) = q + (IF i - 1 < m THEN 1 ELSE 0) + b
    BY DEF Wish, Biased
  <1>4. i \in Int BY DEF Biased
  <1> HIDE DEF q, m, b
  <1> QED BY <1>1, <1>2, <1>3, <1>4 DEF q, m

\* The shares add up to the space; all but the first are what was wished.
LEMMA SharesFill ==
  ASSUME NEW nodes, NEW k, NEW bias, Biased(nodes, k, bias), NEW avail \in Int, NEW least \in Int
  PROVE LET s == Shares(nodes, bias, avail, least) IN
        /\ s \in Seq(Int)
        /\ Len(s) = k
        /\ Sums(s)[k] = avail
        /\ \A i \in 2 .. k : s[i] = Given(Wish(nodes, bias, avail, i), least)
  <1> DEFINE z == [i \in 1 .. k |-> Given(Wish(nodes, bias, avail, i), least)]
             e == avail - Sums(z)[k]
             s == [i \in 1 .. k |-> IF i = 1 THEN z[1] + avail - Sums(z)[k] ELSE z[i]]
             t == Shares(nodes, bias, avail, least)
  <1>1. k \in Nat \ {0} /\ Len(nodes) = k BY DEF Biased
  <1>2. t = s BY <1>1 DEF Shares, Wish, Given
  <1>3. \A i \in 1 .. k : z[i] \in Int
    <2> SUFFICES ASSUME NEW i \in 1 .. k PROVE z[i] \in Int OBVIOUS
    <2>1. Wish(nodes, bias, avail, i) \in Int BY WishesAreNumbers
    <2> QED BY <2>1 DEF Given
  <1>4. \A i \in 2 .. k : z[i] = Given(Wish(nodes, bias, avail, i), least) BY <1>1
  <1>5. z = [i \in 1 .. k |-> z[i]] OBVIOUS
  <1> HIDE DEF z
  <1>6. z \in Seq(Int) /\ Len(z) = k BY <1>1, <1>3, <1>5
  <1>7. Sums(z) \in [0 .. k -> Int] /\ k \in 0 .. k /\ 1 \in 1 .. k
    <2>1. Sums(z) \in [0 .. Len(z) -> Int] BY <1>6, SumsSteps
    <2> QED BY <1>1, <1>6, <2>1
  <1>8. Sums(z)[k] \in Int /\ z[1] \in Int BY <1>3, <1>7
  <1>9. e \in Int BY <1>8
  <1>10. s \in Seq(Int) /\ Len(s) = k BY <1>1, <1>3, <1>8
  <1>11. s[1] = z[1] + e BY <1>7, <1>8
  <1>12. \A i \in 2 .. k : s[i] = z[i] BY <1>1
  <1>13. avail = Sums(z)[k] + e BY <1>8
  <1> HIDE DEF s, e
  <1>14. \A i \in 1 .. k : Sums(s)[i] = Sums(z)[i] + e
    BY <1>1, <1>6, <1>9, <1>10, <1>11, <1>12, SumsShifted
  <1>15. Sums(s)[k] = avail
    <2>1. k \in 1 .. k BY <1>1
    <2> QED BY <1>13, <1>14, <2>1
  <1> QED BY <1>2, <1>4, <1>10, <1>12, <1>15

------------------------------------------------------------------------------
(* The boxes as numbers.                                                   *)

Rect(b) == b.x \in Int /\ b.y \in Int /\ b.w \in Int /\ b.h \in Int

LEMMA BiasedChildren ==
  ASSUME NEW C, NEW r, NEW W, Shape(C, r, W), Branching(C), NEW bias, bias \in [ToSet(W) -> Int],
         NEW n \in DOMAIN C
  PROVE Biased(C[n], Len(C[n]), bias) /\ Len(C[n]) >= 2 /\ DOMAIN C[n] = 1 .. Len(C[n])
  <1>1. Len(C[n]) >= 2 BY DEF Branching
  <1>2. Len(C[n]) \in Nat \ {0} /\ DOMAIN C[n] = 1 .. Len(C[n]) BY ChildrenInjective
  <1>3. ASSUME NEW i \in 1 .. Len(C[n])
        PROVE C[n][i] \in Int /\ (IsLeaf(C[n][i]) => bias[C[n][i]] \in Int)
    <2>1. C[n][i] \in Items(C, W) BY ChildIsItem
    <2>2. C[n][i] \in Int /\ (C[n][i] \in ToSet(W) <=> C[n][i] > 0) BY <2>1, ItemsAreNumbers
    <2> QED BY <2>2 DEF IsLeaf
  <1> QED BY <1>1, <1>2, <1>3 DEF Biased

\* The space that the children of a node share, the long way of the split.
Space(o, k, box) == IF o = "v" THEN box.h ELSE box.w - (k - 1)

ShareOf(nodes, o, bias, box) ==
    Shares(nodes, bias, Space(o, Len(nodes), box), Least(o))

LEMMA ChildBoxParts ==
  ASSUME NEW nodes, NEW o \in Orientations, NEW bias, NEW i, NEW box
  PROVE LET b == ChildBox(nodes, o, bias, i, box)
            s == ShareOf(nodes, o, bias, box) IN
        /\ o = "v" => /\ b.x = box.x /\ b.y = box.y + Sums(s)[i - 1]
                      /\ b.w = box.w /\ b.h = s[i]
        /\ o = "h" => /\ b.x = box.x + Sums(s)[i - 1] + i - 1 /\ b.y = box.y
                      /\ b.w = s[i] /\ b.h = box.h
  BY DEF ChildBox, ShareOf, Space, Least, Box, Orientations

LEMMA ChildBoxIsRect ==
  ASSUME NEW nodes, NEW k, NEW bias, Biased(nodes, k, bias), NEW o \in Orientations,
         NEW i \in 1 .. k, NEW box, Rect(box)
  PROVE /\ Rect(ChildBox(nodes, o, bias, i, box))
        /\ Space(o, k, box) \in Int
        /\ Least(o) \in Int
  <1> DEFINE s == ShareOf(nodes, o, bias, box)
             b == ChildBox(nodes, o, bias, i, box)
  <1>1. k \in Nat \ {0} /\ Len(nodes) = k BY DEF Biased
  <1>2. Space(o, k, box) \in Int /\ Least(o) \in Int BY <1>1 DEF Space, Least, Rect
  <1>3. s \in Seq(Int) /\ Len(s) = k BY <1>1, <1>2, SharesFill DEF ShareOf
  <1> HIDE DEF s
  <1>4. s[i] \in Int BY <1>3
  <1>5. Sums(s)[i - 1] \in Int
    <2>1. Sums(s) \in [0 .. Len(s) -> Int] BY <1>3, SumsSteps
    <2>2. i - 1 \in 0 .. k BY <1>1
    <2> QED BY <1>3, <2>1, <2>2
  <1>6. /\ o = "v" => /\ b.x = box.x /\ b.y = box.y + Sums(s)[i - 1]
                      /\ b.w = box.w /\ b.h = s[i]
        /\ o = "h" => /\ b.x = box.x + Sums(s)[i - 1] + i - 1 /\ b.y = box.y
                      /\ b.w = s[i] /\ b.h = box.h
    BY ChildBoxParts DEF s
  <1> HIDE DEF b
  <1>7. i \in Int BY <1>1
  <1> DEFINE c == Sums(s)[i - 1]
             d == s[i]
  <1>8. c \in Int /\ d \in Int BY <1>4, <1>5
  <1> HIDE DEF c, d
  <1>9. /\ o = "v" => b.x = box.x /\ b.y = box.y + c /\ b.w = box.w /\ b.h = d
        /\ o = "h" => b.x = box.x + c + i - 1 /\ b.y = box.y /\ b.w = d /\ b.h = box.h
    BY <1>6 DEF c, d
  <1>10. Rect(b) BY <1>7, <1>8, <1>9 DEF Rect, Orientations
  <1> QED BY <1>2, <1>10 DEF b

LEMMA BoxesAreRects ==
  ASSUME NEW t, NEW W, NEW made, TreeOK(t, W, made), NEW bias, bias \in [ToSet(W) -> Int],
         NEW area, Rect(area), NEW box, Placed(t.children, t.root, t.orient, bias, area, box),
         NEW x \in Items(t.children, W)
  PROVE Rect(box[x])
  <1> DEFINE C == t.children
             S == {y \in Items(C, W) : Rect(box[y])}
  <1>1. Shape(C, t.root, W) /\ Branching(C) BY TreeShape
  <1>2. PICK lo, hi : Tree(C, t.root, W, lo, hi) BY DEF TreeOK, LeavesAre
  <1>3. t.root \in S BY <1>1 DEF Placed, Shape
  <1>4. ASSUME NEW n \in DOMAIN C, n \in S, NEW i \in 1 .. Len(C[n]) PROVE C[n][i] \in S
    <2>1. C[n][i] \in Items(C, W) BY <1>1, ChildIsItem
    <2>2. Biased(C[n], Len(C[n]), bias) BY <1>1, BiasedChildren
    <2>3. t.orient[n] \in Orientations BY DEF TreeOK, Oriented
    <2>4. box[C[n][i]] = ChildBox(C[n], t.orient[n], bias, i, box[n]) BY DEF Placed
    <2>5. Rect(ChildBox(C[n], t.orient[n], bias, i, box[n])) BY <1>4, <2>2, <2>3, ChildBoxIsRect
    <2> QED BY <2>1, <2>4, <2>5
  <1> HIDE DEF S
  <1>5. Items(C, W) \subseteq S BY <1>1, <1>2, <1>3, <1>4, TopDown
  <1> QED BY <1>5 DEF S

\* The rows and columns above the echo area.
LEMMA AreaIsRect ==
  ASSUME NEW s \in Screens
  PROVE /\ Rect(Area(s))
        /\ Area(s).x = 0 /\ Area(s).y = 0 /\ Area(s).w = s[1] /\ Area(s).h = s[2] - 1
        /\ Area(s).w > 0 /\ Area(s).h > 0
  <1>1. s[1] \in Nat \ {0} /\ s[2] \in Nat \ {0, 1} BY TuiFrameAssumption
  <1>2. Area(s).x = 0 /\ Area(s).y = 0 /\ Area(s).w = s[1] /\ Area(s).h = s[2] - 1
    BY DEF Area, Box
  <1> HIDE DEF Area
  <1> QED BY <1>1, <1>2 DEF Rect

------------------------------------------------------------------------------
(* What another bias changes.                                              *)

LEMMA SharesSame ==
  ASSUME NEW nodes, NEW k, NEW bias, NEW other, Biased(nodes, k, bias),
         \A i \in 1 .. k : IsLeaf(nodes[i]) => other[nodes[i]] = bias[nodes[i]],
         NEW avail, NEW least
  PROVE Shares(nodes, other, avail, least) = Shares(nodes, bias, avail, least)
  <1> DEFINE z(b) == [i \in 1 .. k |-> Given(Wish(nodes, b, avail, i), least)]
             s(b) == [i \in 1 .. k |-> IF i = 1 THEN z(b)[1] + avail - Sums(z(b))[k] ELSE z(b)[i]]
  <1>1. k \in Nat \ {0} /\ Len(nodes) = k BY DEF Biased
  <1>2. /\ Shares(nodes, other, avail, least) = s(other)
        /\ Shares(nodes, bias, avail, least) = s(bias)
    BY <1>1 DEF Shares, Wish, Given
  <1>3. \A i \in 1 .. k : Wish(nodes, other, avail, i) = Wish(nodes, bias, avail, i)
    BY DEF Wish
  <1>4. z(other) = z(bias) BY <1>3
  <1> HIDE DEF z
  <1>5. s(other) = s(bias) BY <1>4
  <1> QED BY <1>2, <1>5

\* Two biases differ only on the windows of a node.
SameOutside(W, nodes, bias, other) == \A w \in ToSet(W) \ ToSet(nodes) : other[w] = bias[w]

\* A tree laid out twice, the biases of the windows of node p aside the same.
Rebiased(t, W, p, bias, other, area, box, box2) ==
    /\ bias \in [ToSet(W) -> Int]
    /\ p \in DOMAIN t.children
    /\ SameOutside(W, t.children[p], bias, other)
    /\ Placed(t.children, t.root, t.orient, bias, area, box)
    /\ Placed(t.children, t.root, t.orient, other, area, box2)

\* The box of a node does not depend on the biases of its own windows.
LEMMA AncestorsSame ==
  ASSUME NEW t, NEW W, NEW made, TreeOK(t, W, made), NEW p, NEW bias, NEW other, NEW area,
         NEW box, NEW box2, Rebiased(t, W, p, bias, other, area, box, box2)
  PROVE box2[p] = box[p]
  <1> DEFINE C == t.children
  <1>0. /\ bias \in [ToSet(W) -> Int]
        /\ p \in DOMAIN C
        /\ SameOutside(W, C[p], bias, other)
        /\ Placed(C, t.root, t.orient, bias, area, box)
        /\ Placed(C, t.root, t.orient, other, area, box2)
    BY DEF Rebiased
  <1> USE <1>0
  <1>1. Shape(C, t.root, W) /\ Branching(C) BY TreeShape
  <1>2. PICK lo, hi : Tree(C, t.root, W, lo, hi) BY DEF TreeOK, LeavesAre
  <1>3. \A x \in Items(C, W) : lo[x] \in Int /\ hi[x] \in Int BY <1>2 DEF Tree, Spans
  <1> DEFINE Above(x) == lo[x] <= lo[p] /\ hi[p] <= hi[x]
             S == {y \in Items(C, W) : Above(y) => box2[y] = box[y]}
  <1>4. t.root \in S BY <1>1 DEF Placed, Shape
  <1>5. ASSUME NEW n \in DOMAIN C, n \in S, NEW i \in 1 .. Len(C[n]) PROVE C[n][i] \in S
    <2> DEFINE x == C[n][i]
    <2>1. x \in Items(C, W) /\ n \in Items(C, W) /\ p \in Items(C, W)
      BY <1>1, ChildIsItem DEF Items
    <2> SUFFICES ASSUME Above(x) PROVE box2[x] = box[x] BY <2>1
    <2>2. lo[n] <= lo[x] /\ hi[x] <= hi[n] BY <1>2 DEF Tree, Spans
    <2>3. hi[x] - lo[x] < hi[n] - lo[n] BY <1>2, ChildSpanSmaller, <1>1 DEF Branching
    <2>4. Above(n) /\ n # p
      <3> DEFINE a == lo[x]
                 b == hi[x]
                 e == lo[n]
                 f == hi[n]
                 g == lo[p]
                 h == hi[p]
      <3>1. a \in Int /\ b \in Int /\ e \in Int /\ f \in Int /\ g \in Int /\ h \in Int
        BY <1>3, <2>1
      <3>2. e <= a /\ b <= f /\ b - a < f - e /\ a <= g /\ h <= b BY <2>2, <2>3
      <3>3. n = p => e = g /\ f = h OBVIOUS
      <3> HIDE DEF a, b, e, f, g, h
      <3>4. e <= g /\ h <= f /\ ~(e = g /\ f = h) BY <3>1, <3>2
      <3>5. n # p BY <3>3, <3>4
      <3> QED BY <3>4, <3>5 DEF e, f, g, h
    <2>5. box2[n] = box[n] BY <1>5, <2>4
    <2>6. Biased(C[n], Len(C[n]), bias) BY <1>1, BiasedChildren
    <2>7. ASSUME NEW j \in 1 .. Len(C[n]), IsLeaf(C[n][j])
          PROVE other[C[n][j]] = bias[C[n][j]]
      <3>1. C[n][j] \in Items(C, W) BY <1>1, ChildIsItem
      <3>2. C[n][j] \in ToSet(W) BY <1>1, <2>7, <3>1, ItemsAreNumbers DEF IsLeaf
      <3>3. C[n][j] \notin ToSet(C[p])
        <4> SUFFICES ASSUME C[n][j] \in ToSet(C[p]) PROVE FALSE OBVIOUS
        <4>1. DOMAIN C[p] = 1 .. Len(C[p]) BY <1>1, ChildrenInjective
        <4>2. PICK m \in 1 .. Len(C[p]) : C[n][j] = C[p][m] BY <4>1 DEF ToSet
        <4>3. n = p BY <1>1, <4>2 DEF Shape
        <4> QED BY <2>4, <4>3
      <3> QED BY <3>2, <3>3 DEF SameOutside
    <2>8. \A avail, least : Shares(C[n], other, avail, least) = Shares(C[n], bias, avail, least)
      <3> DEFINE nodes == C[n]
                 k == Len(C[n])
      <3>1. \A j \in 1 .. k : IsLeaf(nodes[j]) => other[nodes[j]] = bias[nodes[j]] BY <2>7
      <3>2. Biased(nodes, k, bias) BY <2>6
      <3> HIDE DEF nodes, k
      <3>3. \A avail, least : Shares(nodes, other, avail, least) = Shares(nodes, bias, avail, least)
        BY <3>1, <3>2, SharesSame
      <3> QED BY <3>3 DEF nodes
    <2>9. ChildBox(C[n], t.orient[n], other, i, box[n]) = ChildBox(C[n], t.orient[n], bias, i, box[n])
      BY <2>8 DEF ChildBox
    <2>10. /\ box[x] = ChildBox(C[n], t.orient[n], bias, i, box[n])
           /\ box2[x] = ChildBox(C[n], t.orient[n], other, i, box2[n])
      BY DEF Placed
    <2> QED BY <2>5, <2>9, <2>10
  <1>6. Above(p) /\ p \in Items(C, W)
    <2>1. p \in Items(C, W) BY DEF Items
    <2> QED BY <1>3, <2>1
  <1>7. \A y \in S : Above(y) => box2[y] = box[y] OBVIOUS
  <1> HIDE DEF S
  <1>8. Items(C, W) \subseteq S BY <1>1, <1>2, <1>4, <1>5, TopDown
  <1> QED BY <1>6, <1>7, <1>8

\* A window of a node that takes one cell from another one of it gets it.
LEMMA GrowShare ==
  ASSUME NEW nodes, NEW k, NEW bias, NEW other, Biased(nodes, k, bias), Biased(nodes, k, other),
         NEW avail \in Int, NEW least \in Int, NEW a \in 1 .. k, NEW b \in 1 .. k, a # b,
         IsLeaf(nodes[a]), IsLeaf(nodes[b]),
         other[nodes[a]] = bias[nodes[a]] + 1, other[nodes[b]] = bias[nodes[b]] - 1,
         \A i \in 1 .. k : i # a /\ i # b /\ IsLeaf(nodes[i]) => other[nodes[i]] = bias[nodes[i]],
         Shares(nodes, bias, avail, least)[a] > least,
         Shares(nodes, bias, avail, least)[b] > least
  PROVE Shares(nodes, other, avail, least)[a] > Shares(nodes, bias, avail, least)[a]
  <1> DEFINE s == Shares(nodes, bias, avail, least)
             t == Shares(nodes, other, avail, least)
             w(i) == Wish(nodes, bias, avail, i)
             v(i) == Wish(nodes, other, avail, i)
  <1>1. k \in Nat \ {0} BY DEF Biased
  <1>2. /\ s \in Seq(Int) /\ Len(s) = k /\ Sums(s)[k] = avail
        /\ \A i \in 2 .. k : s[i] = Given(w(i), least)
    BY SharesFill
  <1>3. /\ t \in Seq(Int) /\ Len(t) = k /\ Sums(t)[k] = avail
        /\ \A i \in 2 .. k : t[i] = Given(v(i), least)
    BY SharesFill
  <1>4. \A i \in 1 .. k : w(i) \in Int /\ v(i) \in Int BY WishesAreNumbers
  <1>5. \A i \in 1 .. k : i # a /\ i # b => v(i) = w(i) BY DEF Wish
  <1>6. v(a) = w(a) + 1 /\ v(b) = w(b) - 1
    <2> DEFINE q == Quotient(avail, Len(nodes))
               m(i) == IF i - 1 < Remainder(avail, Len(nodes)) THEN 1 ELSE 0
    <2>1. q \in Int BY <1>1, QuotientsAreNumbers DEF Biased
    <2>2. m(a) \in Int /\ m(b) \in Int OBVIOUS
    <2>3. bias[nodes[a]] \in Int /\ bias[nodes[b]] \in Int BY DEF Biased
    <2>4. /\ w(a) = q + m(a) + bias[nodes[a]] /\ v(a) = q + m(a) + (bias[nodes[a]] + 1)
          /\ w(b) = q + m(b) + bias[nodes[b]] /\ v(b) = q + m(b) + (bias[nodes[b]] - 1)
      BY DEF Wish
    <2> DEFINE ma == m(a)
               mb == m(b)
               ca == bias[nodes[a]]
               cb == bias[nodes[b]]
    <2>5. /\ w(a) = q + ma + ca /\ v(a) = q + ma + (ca + 1)
          /\ w(b) = q + mb + cb /\ v(b) = q + mb + (cb - 1)
      BY <2>4
    <2>6. ma \in Int /\ mb \in Int /\ ca \in Int /\ cb \in Int BY <2>2, <2>3
    <2> HIDE DEF q, m, ma, mb, ca, cb, w, v
    <2> QED BY <2>1, <2>5, <2>6
  <1> HIDE DEF s, t, w, v
  <1>7. s[a] \in Int /\ s[b] \in Int /\ t[a] \in Int /\ s[a] > least /\ s[b] > least
    BY <1>2, <1>3 DEF s
  <1>8. CASE a # 1
    <2>1. a \in 2 .. k BY <1>1, <1>8
    <2>2. s[a] = Given(w(a), least) /\ t[a] = Given(v(a), least) BY <1>2, <1>3, <2>1
    <2>3. t[a] > s[a] BY <1>4, <1>6, <1>7, <2>2 DEF Given
    <2> QED BY <2>3 DEF s, t
  <1>9. CASE a = 1
    <2>1. b \in 2 .. k BY <1>1, <1>9
    <2>2. s[b] = Given(w(b), least) /\ t[b] = Given(v(b), least) BY <1>2, <1>3, <2>1
    <2>3. t[b] = s[b] - 1 BY <1>4, <1>6, <1>7, <2>2 DEF Given
    <2>4. \A i \in 2 .. k : i # b => t[i] = s[i] BY <1>1, <1>2, <1>3, <1>5, <1>9
    <2>5. t[1] = s[1] + 1
      <3>1. s \in Seq(Int) /\ Len(s) = k BY <1>2
      <3>2. t \in Seq(Int) /\ Len(t) = k BY <1>3
      <3>3. Sums(t)[k] = Sums(s)[k] BY <1>2, <1>3
      <3> QED BY <1>1, <2>1, <2>3, <2>4, <3>1, <3>2, <3>3, SumsMoved
    <2>6. t[a] > s[a] BY <1>7, <1>9, <2>5
    <2> QED BY <2>6 DEF s, t
  <1> QED BY <1>8, <1>9

\* The boxes of a frame are those of its tree.
BoxesOf(f) == Boxes(f.tree.children, f.tree.orient, f.bias, Area(f.screen))

LEMMA FrameBoxes ==
  ASSUME NEW f, TuiOK(f)
  PROVE /\ \A w \in ToSet(f.windows) : f.box[w] = BoxesOf(f)[w]
        /\ Placed(f.tree.children, f.tree.root, f.tree.orient, f.bias, Area(f.screen), BoxesOf(f))
        /\ \A x \in Items(f.tree.children, f.windows) : Rect(BoxesOf(f)[x])
        /\ f.bias \in [ToSet(f.windows) -> Int]
        /\ f.screen \in Screens
  <1>1. /\ f = LaidOut(f.tree, f.windows, f.current, f.screen, f.bias, f.editors, f.made)
        /\ PartsOK(f.tree, f.windows, f.current, f.screen, f.bias, f.editors, f.made)
    BY DEF TuiOK
  <1>2. f.box = Layout(f.tree, f.bias, f.screen) BY <1>1, LaidOutOK
  <1>3. /\ TreeOK(f.tree, f.windows, f.made) /\ f.screen \in Screens
        /\ f.bias \in [ToSet(f.windows) -> Int]
    BY <1>1 DEF PartsOK
  <1>4. \A w \in ToSet(f.windows) : f.box[w] = BoxesOf(f)[w]
    BY <1>2, <1>3, LayoutBoxes DEF BoxesOf
  <1>5. Placed(f.tree.children, f.tree.root, f.tree.orient, f.bias, Area(f.screen), BoxesOf(f))
    BY <1>3, BoxesPlaced DEF BoxesOf
  <1>6. Rect(Area(f.screen)) BY <1>3, AreaIsRect
  <1>7. \A x \in Items(f.tree.children, f.windows) : Rect(BoxesOf(f)[x])
    BY <1>3, <1>5, <1>6, BoxesAreRects
  <1> QED BY <1>3, <1>4, <1>5, <1>7

LEMMA EnlargedGrows ==
  ASSUME NEW f, TuiOK(f), Len(f.windows) > 1, NEW p \in DOMAIN f.tree.children,
         Current(f) \in ToSet(f.tree.children[p]), Neighbour(f) \in ToSet(f.tree.children[p]),
         Size(f, Current(f), f.tree.orient[p]) > Least(f.tree.orient[p]),
         Size(f, Neighbour(f), f.tree.orient[p]) > Least(f.tree.orient[p])
  PROVE Size(Enlarge(f, 1), Current(f), f.tree.orient[p])
          > Size(f, Current(f), f.tree.orient[p])
  <1> DEFINE g == Enlarge(f, 1)
             C == f.tree.children
             W == f.windows
             o == f.tree.orient[p]
             c == Current(f)
             e == Neighbour(f)
             k == Len(C[p])
             box == BoxesOf(f)
             box2 == BoxesOf(g)
             space == Space(o, k, box[p])
             s == Shares(C[p], f.bias, space, Least(o))
             u == Shares(C[p], g.bias, space, Least(o))
  <1>1. 1 \in Int OBVIOUS
  <1>2. /\ TuiOK(g) /\ g.windows = W /\ g.tree = f.tree /\ g.screen = f.screen
        /\ g.bias = [f.bias EXCEPT ![c] = @ + 1, ![e] = @ - 1]
    BY <1>1, EnlargeOK
  <1>3. TreeOK(f.tree, W, f.made) /\ c \in ToSet(W) BY FrameShape
  <1>4. e \in ToSet(W) /\ e # c BY NeighbourOK
  <1>5. Shape(C, f.tree.root, W) /\ Branching(C) BY <1>3, TreeShape
  <1>6. /\ \A w \in ToSet(W) : f.box[w] = box[w]
        /\ Placed(C, f.tree.root, f.tree.orient, f.bias, Area(f.screen), box)
        /\ \A x \in Items(C, W) : Rect(box[x])
        /\ f.bias \in [ToSet(W) -> Int]
    BY FrameBoxes
  <1> HIDE DEF g
  <1>7. /\ \A w \in ToSet(W) : g.box[w] = box2[w]
        /\ Placed(C, f.tree.root, f.tree.orient, g.bias, Area(f.screen), box2)
        /\ g.bias \in [ToSet(W) -> Int]
    BY <1>2, FrameBoxes
  <1>8. /\ g.bias[c] = f.bias[c] + 1 /\ g.bias[e] = f.bias[e] - 1
        /\ \A w \in ToSet(W) : w # c /\ w # e => g.bias[w] = f.bias[w]
    BY <1>2, <1>3, <1>4, <1>6
  <1>9. o \in Orientations BY <1>3 DEF TreeOK, Oriented
  <1>10. Biased(C[p], k, f.bias) /\ Biased(C[p], k, g.bias) /\ DOMAIN C[p] = 1 .. k
    BY <1>5, <1>6, <1>7, BiasedChildren
  <1>11. PICK a \in 1 .. k : C[p][a] = c BY <1>10 DEF ToSet
  <1>12. PICK b \in 1 .. k : C[p][b] = e BY <1>10 DEF ToSet
  <1>13. box2[p] = box[p]
    <2> DEFINE t == f.tree
               made == f.made
               bias == f.bias
               other == g.bias
               area == Area(f.screen)
    <2>1. SameOutside(W, t.children[p], bias, other) BY <1>8 DEF SameOutside
    <2>2. Rebiased(t, W, p, bias, other, area, box, box2)
      BY <1>6, <1>7, <2>1 DEF Rebiased
    <2>3. TreeOK(t, W, made) BY <1>3
    <2> HIDE DEF t, W, made, bias, other, area, box, box2
    <2> QED BY <2>2, <2>3, AncestorsSame
  <1>14. Rect(box[p]) BY <1>6 DEF Items
  <1>15. space \in Int /\ Least(o) \in Int BY <1>9, <1>10, <1>11, <1>14, ChildBoxIsRect
  <1>16. /\ Size(f, c, o) = s[a] /\ Size(f, e, o) = s[b] /\ Size(g, c, o) = u[a]
    <2>1. /\ box[c] = ChildBox(C[p], o, f.bias, a, box[p])
          /\ box[e] = ChildBox(C[p], o, f.bias, b, box[p])
          /\ box2[c] = ChildBox(C[p], o, g.bias, a, box[p])
      BY <1>6, <1>7, <1>11, <1>12, <1>13 DEF Placed
    <2>2. f.box[c] = box[c] /\ f.box[e] = box[e] /\ g.box[c] = box2[c]
      BY <1>3, <1>4, <1>6, <1>7
    <2>3. \A bias, i : LET r == ChildBox(C[p], o, bias, i, box[p])
                           z == Shares(C[p], bias, space, Least(o)) IN
                       (o = "v" => r.h = z[i]) /\ (o = "h" => r.w = z[i])
      <3> HIDE DEF C, o, box
      <3> QED BY <1>9, ChildBoxParts DEF ShareOf
    <2> DEFINE b1 == box[c]
               b2 == box[e]
               b3 == box2[c]
    <2>4. /\ o = "v" => b1.h = s[a] /\ b2.h = s[b] /\ b3.h = u[a]
          /\ o = "h" => b1.w = s[a] /\ b2.w = s[b] /\ b3.w = u[a]
      <3>1. (o = "v" => b1.h = s[a]) /\ (o = "h" => b1.w = s[a]) BY <2>1, <2>3
      <3>2. (o = "v" => b2.h = s[b]) /\ (o = "h" => b2.w = s[b]) BY <2>1, <2>3
      <3>3. (o = "v" => b3.h = u[a]) /\ (o = "h" => b3.w = u[a]) BY <2>1, <2>3
      <3> QED BY <3>1, <3>2, <3>3
    <2>5. o = "v" \/ o = "h" BY <1>9 DEF Orientations
    <2>6. f.box[c] = b1 /\ f.box[e] = b2 /\ g.box[c] = b3 BY <2>2
    <2> HIDE DEF o, b1, b2, b3, s, u, c, e
    <2> QED BY <2>4, <2>5, <2>6 DEF Size
  <1>17. IsLeaf(c) /\ IsLeaf(e) BY <1>3, <1>4, <1>5, ItemsAreNumbers DEF IsLeaf, Items
  <1>18. ASSUME NEW i \in 1 .. k, i # a, i # b, IsLeaf(C[p][i])
         PROVE g.bias[C[p][i]] = f.bias[C[p][i]]
    <2>1. C[p][i] \in ToSet(W)
      <3>1. C[p][i] \in Items(C, W) BY <1>5, ChildIsItem
      <3> QED BY <1>5, <1>18, <3>1, ItemsAreNumbers DEF IsLeaf
    <2>2. IsInjective(C[p]) BY <1>5, ChildrenInjective
    <2>3. C[p][i] # C[p][a] /\ C[p][i] # C[p][b] BY <1>10, <1>18, <2>2 DEF IsInjective
    <2> QED BY <1>8, <1>11, <1>12, <2>1, <2>3
  <1>19. a # b BY <1>4, <1>11, <1>12
  <1>20. u[a] > s[a]
    <2> DEFINE nodes == C[p]
               bias == f.bias
               other == g.bias
               least == Least(o)
    <2>1. /\ other[nodes[a]] = bias[nodes[a]] + 1 /\ other[nodes[b]] = bias[nodes[b]] - 1
          /\ IsLeaf(nodes[a]) /\ IsLeaf(nodes[b])
      BY <1>8, <1>11, <1>12, <1>17
    <2>2. \A i \in 1 .. k : i # a /\ i # b /\ IsLeaf(nodes[i]) => other[nodes[i]] = bias[nodes[i]]
      BY <1>18
    <2>3. /\ Shares(nodes, bias, space, least)[a] > least
          /\ Shares(nodes, bias, space, least)[b] > least
      BY <1>16
    <2>4. Biased(nodes, k, bias) /\ Biased(nodes, k, other) /\ space \in Int /\ least \in Int
      BY <1>10, <1>15
    <2> HIDE DEF nodes, bias, other, least, k, space
    <2>5. Shares(nodes, other, space, least)[a] > Shares(nodes, bias, space, least)[a]
      BY <1>19, <2>1, <2>2, <2>3, <2>4, GrowShare
    <2> QED BY <2>5 DEF nodes, bias, other, least
  <1> QED BY <1>16, <1>20 DEF g

\* A window enlarged by a neighbour of the same split becomes taller or wider,
\* whatever the biases, and whatever the first child of the split absorbs
\* (window.ss frame-enlarge-window!, split-tree-layout!).
THEOREM TuiFrameEnlarges == Spec => EnlargeGrows
  <1> DEFINE Grows == EnlargeWindow(1) =>
               \A p \in DOMAIN fr.tree.children :
                 LET c == Current(fr)
                     o == fr.tree.orient[p]
                     pair == {c, Neighbour(fr)}
                 IN /\ pair \subseteq ToSet(fr.tree.children[p])
                    /\ \A w \in pair : Size(fr, w, o) > Least(o)
                    => Size(fr', c, o) > Size(fr, c, o)
  <1>1. Init => TuiInv BY TuiInvInit
  <1>2. TuiInv /\ [Next]_fr => TuiInv' BY TuiInvStep
  <1>3. TuiInv /\ [Next]_fr => [Grows]_fr
    <2> SUFFICES ASSUME TuiInv, EnlargeWindow(1), NEW p \in DOMAIN fr.tree.children,
                        {Current(fr), Neighbour(fr)} \subseteq ToSet(fr.tree.children[p]),
                        \A w \in {Current(fr), Neighbour(fr)} :
                           Size(fr, w, fr.tree.orient[p]) > Least(fr.tree.orient[p])
                 PROVE Size(fr', Current(fr), fr.tree.orient[p])
                         > Size(fr, Current(fr), fr.tree.orient[p])
      OBVIOUS
    <2>1. TuiOK(fr) BY DEF TuiInv
    <2>2. Len(fr.windows) > 1 /\ fr' = Enlarge(fr, 1) BY DEF EnlargeWindow
    <2>3. Size(Enlarge(fr, 1), Current(fr), fr.tree.orient[p])
            > Size(fr, Current(fr), fr.tree.orient[p])
      BY <2>1, <2>2, EnlargedGrows
    <2> QED BY <2>2, <2>3
  <1> QED BY <1>1, <1>2, <1>3, PTL DEF Spec, EnlargeGrows

------------------------------------------------------------------------------
(* Boxes that fill a box.                                                  *)

\* An ascending list of positions: the one below z and the next one above it.
LEMMA Located ==
  ASSUME NEW k \in Nat, NEW P \in [0 .. k -> Int], NEW z \in Int, P[0] <= z, z < P[k]
  PROVE \E i \in 1 .. k : P[i - 1] <= z /\ z < P[i]
  <1> DEFINE T == {i \in 0 .. k : z < P[i]}
  <1>1. k \in T /\ T \subseteq Nat OBVIOUS
  <1>2. PICK i \in T : \A j \in T : i <= j BY <1>1, LeastElement
  <1>3. i \in 0 .. k /\ z < P[i] BY <1>2
  <1>4. i # 0 BY <1>3
  <1>5. i \in 1 .. k /\ i - 1 \in 0 .. k /\ ~(i <= i - 1) BY <1>3, <1>4
  <1>6. i - 1 \notin T BY <1>2, <1>5
  <1>7. P[i - 1] <= z BY <1>5, <1>6
  <1> QED BY <1>3, <1>5, <1>7

LEMMA Ascending ==
  ASSUME NEW k \in Nat, NEW P \in [0 .. k -> Int], \A i \in 1 .. k : P[i - 1] <= P[i],
         NEW i \in 0 .. k, NEW j \in 0 .. k, i <= j
  PROVE P[i] <= P[j]
  <1> DEFINE T == {n \in Nat : i + n <= k => P[i] <= P[i + n]}
  <1>1. 0 \in T
    <2>1. i + 0 = i /\ P[i] \in Int OBVIOUS
    <2> QED BY <2>1
  <1>2. ASSUME NEW n \in Nat, n \in T PROVE n + 1 \in T
    <2> SUFFICES ASSUME i + (n + 1) <= k PROVE P[i] <= P[i + (n + 1)] OBVIOUS
    <2> DEFINE m == i + (n + 1)
    <2>1. m \in 1 .. k /\ m - 1 = i + n /\ m \in 0 .. k /\ i + n \in 0 .. k /\ i + n <= k
      OBVIOUS
    <2> HIDE DEF m
    <2>2. P[i] <= P[i + n] BY <1>2, <2>1
    <2>3. P[m - 1] <= P[m] BY <2>1
    <2>4. P[i + n] <= P[m] BY <2>1, <2>3
    <2>5. P[i] \in Int /\ P[i + n] \in Int /\ P[m] \in Int BY <2>1
    <2>6. P[i] <= P[m] BY <2>2, <2>4, <2>5
    <2> QED BY <2>6 DEF m
  <1> HIDE DEF T
  <1>3. Nat \subseteq T BY <1>1, <1>2, InductionSet
  <1>4. j - i \in Nat /\ i + (j - i) = j /\ j <= k OBVIOUS
  <1>5. j - i \in T BY <1>3, <1>4
  <1> QED BY <1>4, <1>5 DEF T

\* The cell in column x of row y is in a box, or in the column right of it.
CellIn(b, x, y) == x \in b.x .. b.x + b.w - 1 /\ y \in b.y .. b.y + b.h - 1
RightOf(b, x, y) == x = b.x + b.w /\ y \in b.y .. b.y + b.h - 1

\* The boxes c[j], j in J, are inside of b and apart; a cell of b is in one of them
\* or just right of one; and each row of b ends where one of them does.
Parted(b, c, J) ==
    /\ \A j \in J : \A x, y \in Int : CellIn(c[j], x, y) => CellIn(b, x, y)
    /\ \A i, j \in J : \A x, y \in Int : CellIn(c[i], x, y) /\ CellIn(c[j], x, y) => i = j
    /\ \A x, y \in Int : CellIn(b, x, y) =>
          \E j \in J : CellIn(c[j], x, y) \/ RightOf(c[j], x, y)
    /\ \A x, y \in Int : RightOf(b, x, y) => \E j \in J : RightOf(c[j], x, y)

\* The same with the numbers of a box.
IsBox(b, bx, by, bw, bh) ==
    /\ bx \in Int /\ by \in Int /\ bw \in Int /\ bh \in Int
    /\ b.x = bx /\ b.y = by /\ b.w = bw /\ b.h = bh

LEMMA CellNumbers ==
  ASSUME NEW b, NEW bx, NEW by, NEW bw, NEW bh, IsBox(b, bx, by, bw, bh),
         NEW x \in Int, NEW y \in Int
  PROVE /\ CellIn(b, x, y) <=> bx <= x /\ x < bx + bw /\ by <= y /\ y < by + bh
        /\ RightOf(b, x, y) <=> x = bx + bw /\ by <= y /\ y < by + bh
  <1>0. bx \in Int /\ by \in Int /\ bw \in Int /\ bh \in Int BY DEF IsBox
  <1>1. CellIn(b, x, y) <=> x \in bx .. bx + bw - 1 /\ y \in by .. by + bh - 1
    BY DEF CellIn, IsBox
  <1>2. RightOf(b, x, y) <=> x = bx + bw /\ y \in by .. by + bh - 1 BY DEF RightOf, IsBox
  <1>3. x \in bx .. bx + bw - 1 <=> bx <= x /\ x < bx + bw BY <1>0
  <1>4. y \in by .. by + bh - 1 <=> by <= y /\ y < by + bh BY <1>0
  <1> QED BY <1>1, <1>2, <1>3, <1>4

LEMMA AscendingBounds ==
  ASSUME NEW k \in Nat, NEW P \in [0 .. k -> Int], \A i \in 1 .. k : P[i - 1] <= P[i],
         NEW i \in 1 .. k
  PROVE P[0] <= P[i - 1] /\ P[i] <= P[k] /\ P[i - 1] \in Int /\ P[i] \in Int
  <1>1. 0 \in 0 .. k /\ i - 1 \in 0 .. k /\ i \in 0 .. k /\ k \in 0 .. k /\ 0 <= i - 1 /\ i <= k
    OBVIOUS
  <1>2. P[0] <= P[i - 1] BY <1>1, Ascending
  <1>3. P[i] <= P[k] BY <1>1, Ascending
  <1> QED BY <1>1, <1>2, <1>3

\* Boxes on top of one another, between the positions P.
Stacked(b, c, k, P) ==
    /\ P[0] = 0 /\ P[k] = b.h
    /\ \A i \in 1 .. k : /\ c[i].x = b.x /\ c[i].w = b.w
                         /\ c[i].y = b.y + P[i - 1]
                         /\ c[i].h = P[i] - P[i - 1]

LEMMA StackedParted ==
  ASSUME NEW b, Rect(b), NEW c, NEW k \in Nat \ {0}, NEW P, P \in [0 .. k -> Int],
         \A i \in 1 .. k : P[i - 1] <= P[i], Stacked(b, c, k, P)
  PROVE Parted(b, c, 1 .. k)
  <1> DEFINE bx == b.x
             by == b.y
             bw == b.w
             bh == b.h
  <1>1. bx \in Int /\ by \in Int /\ bw \in Int /\ bh \in Int BY DEF Rect
  <1>2. /\ P[0] = 0 /\ P[k] = bh
        /\ \A i \in 1 .. k : /\ c[i].x = bx /\ c[i].w = bw
                             /\ c[i].y = by + P[i - 1]
                             /\ c[i].h = P[i] - P[i - 1]
    BY DEF Stacked
  <1>3. IsBox(b, bx, by, bw, bh) BY <1>1 DEF IsBox
  <1> HIDE DEF bx, by, bw, bh
  <1>4. \A x, y \in Int :
           /\ CellIn(b, x, y) <=> bx <= x /\ x < bx + bw /\ by <= y /\ y < by + bh
           /\ RightOf(b, x, y) <=> x = bx + bw /\ by <= y /\ y < by + bh
    BY <1>3, CellNumbers
  <1>5. ASSUME NEW i \in 1 .. k
        PROVE 0 <= P[i - 1] /\ P[i] <= bh /\ P[i - 1] \in Int /\ P[i] \in Int
    <2>1. k \in Nat OBVIOUS
    <2>2. P[0] <= P[i - 1] /\ P[i] <= P[k] /\ P[i - 1] \in Int /\ P[i] \in Int
      BY <2>1, AscendingBounds
    <2> QED BY <1>2, <2>2
  <1>6. ASSUME NEW i \in 1 .. k, NEW x \in Int, NEW y \in Int
        PROVE /\ CellIn(c[i], x, y) <=> /\ bx <= x /\ x < bx + bw
                                        /\ P[i - 1] <= y - by /\ y - by < P[i]
              /\ RightOf(c[i], x, y) <=> /\ x = bx + bw
                                         /\ P[i - 1] <= y - by /\ y - by < P[i]
    <2> DEFINE p == P[i - 1]
               q == P[i]
               cy == by + p
               ch == q - p
    <2>1. p \in Int /\ q \in Int BY <1>5
    <2>2. c[i].x = bx /\ c[i].w = bw /\ c[i].y = cy /\ c[i].h = ch BY <1>2
    <2> HIDE DEF p, q
    <2>3. cy \in Int /\ ch \in Int /\ cy + ch = by + q BY <1>1, <2>1
    <2> HIDE DEF cy, ch
    <2>4. IsBox(c[i], bx, cy, bw, ch) BY <1>1, <2>2, <2>3 DEF IsBox
    <2>5. /\ CellIn(c[i], x, y) <=> bx <= x /\ x < bx + bw /\ cy <= y /\ y < cy + ch
          /\ RightOf(c[i], x, y) <=> x = bx + bw /\ cy <= y /\ y < cy + ch
      BY <2>4, CellNumbers
    <2>6. (cy <= y <=> p <= y - by) /\ (y < cy + ch <=> y - by < q)
      BY <1>1, <2>1, <2>3 DEF cy
    <2> QED BY <2>5, <2>6 DEF p, q
  <1>7. ASSUME NEW y \in Int, by <= y, y < by + bh
        PROVE \E i \in 1 .. k : P[i - 1] <= y - by /\ y - by < P[i]
    <2> DEFINE z == y - by
    <2>1. z \in Int /\ P[0] <= z /\ z < P[k] /\ k \in Nat BY <1>1, <1>2, <1>7
    <2> HIDE DEF z
    <2>2. \E i \in 1 .. k : P[i - 1] <= z /\ z < P[i] BY <2>1, Located
    <2> QED BY <2>2 DEF z
  <1>8. ASSUME NEW i \in 1 .. k, NEW x \in Int, NEW y \in Int, CellIn(c[i], x, y)
        PROVE CellIn(b, x, y)
    <2> DEFINE p == P[i - 1]
               q == P[i]
    <2>1. /\ bx <= x /\ x < bx + bw /\ p <= y - by /\ y - by < q
          /\ 0 <= p /\ q <= bh /\ p \in Int /\ q \in Int
      BY <1>5, <1>6, <1>8
    <2> HIDE DEF p, q
    <2>2. by <= y /\ y < by + bh BY <1>1, <2>1
    <2> QED BY <1>4, <2>1, <2>2
  <1>9. ASSUME NEW i \in 1 .. k, NEW j \in 1 .. k, NEW y \in Int, i < j,
               y - by < P[i], P[j - 1] <= y - by
        PROVE FALSE
    <2>1. i <= j - 1 /\ i \in 0 .. k /\ j - 1 \in 0 .. k /\ k \in Nat BY <1>9
    <2>2. P[i] <= P[j - 1] BY <2>1, Ascending
    <2> DEFINE p == P[j - 1]
               q == P[i]
    <2>3. p \in Int /\ q \in Int /\ q <= p /\ y - by < q /\ p <= y - by BY <1>5, <1>9, <2>2
    <2> HIDE DEF p, q
    <2> QED BY <1>1, <2>3
  <1>10. ASSUME NEW i \in 1 .. k, NEW j \in 1 .. k, NEW x \in Int, NEW y \in Int,
                CellIn(c[i], x, y), CellIn(c[j], x, y)
         PROVE i = j
    <2>1. /\ y - by < P[i] /\ P[j - 1] <= y - by
          /\ y - by < P[j] /\ P[i - 1] <= y - by
      BY <1>6, <1>10
    <2>2. ~(i < j) /\ ~(j < i) BY <1>9, <2>1
    <2> QED BY <2>2
  <1>11. ASSUME NEW x \in Int, NEW y \in Int, CellIn(b, x, y)
         PROVE \E i \in 1 .. k : CellIn(c[i], x, y)
    <2>1. bx <= x /\ x < bx + bw /\ by <= y /\ y < by + bh BY <1>4, <1>11
    <2>2. PICK i \in 1 .. k : P[i - 1] <= y - by /\ y - by < P[i] BY <1>7, <2>1
    <2> QED BY <1>6, <2>1, <2>2
  <1>12. ASSUME NEW x \in Int, NEW y \in Int, RightOf(b, x, y)
         PROVE \E i \in 1 .. k : RightOf(c[i], x, y)
    <2>1. x = bx + bw /\ by <= y /\ y < by + bh BY <1>4, <1>12
    <2>2. PICK i \in 1 .. k : P[i - 1] <= y - by /\ y - by < P[i] BY <1>7, <2>1
    <2> QED BY <1>6, <2>1, <2>2
  <1> QED BY <1>8, <1>10, <1>11, <1>12 DEF Parted

\* Boxes side by side, with a column between them.
SideBySide(b, c, k, P) ==
    /\ P[0] = 0 /\ P[k] = b.w + 1
    /\ \A i \in 1 .. k : /\ c[i].y = b.y /\ c[i].h = b.h
                         /\ c[i].x = b.x + P[i - 1]
                         /\ c[i].w = P[i] - P[i - 1] - 1

LEMMA SideBySideParted ==
  ASSUME NEW b, Rect(b), NEW c, NEW k \in Nat \ {0}, NEW P, P \in [0 .. k -> Int],
         \A i \in 1 .. k : P[i - 1] <= P[i], SideBySide(b, c, k, P)
  PROVE Parted(b, c, 1 .. k)
  <1> DEFINE bx == b.x
             by == b.y
             bw == b.w
             bh == b.h
  <1>1. bx \in Int /\ by \in Int /\ bw \in Int /\ bh \in Int BY DEF Rect
  <1>2. /\ P[0] = 0 /\ P[k] = bw + 1
        /\ \A i \in 1 .. k : /\ c[i].y = by /\ c[i].h = bh
                             /\ c[i].x = bx + P[i - 1]
                             /\ c[i].w = P[i] - P[i - 1] - 1
    BY DEF SideBySide
  <1>3. IsBox(b, bx, by, bw, bh) BY <1>1 DEF IsBox
  <1> HIDE DEF bx, by, bw, bh
  <1>4. \A x, y \in Int :
           /\ CellIn(b, x, y) <=> bx <= x /\ x < bx + bw /\ by <= y /\ y < by + bh
           /\ RightOf(b, x, y) <=> x = bx + bw /\ by <= y /\ y < by + bh
    BY <1>3, CellNumbers
  <1>5. ASSUME NEW i \in 1 .. k
        PROVE 0 <= P[i - 1] /\ P[i] <= bw + 1 /\ P[i - 1] \in Int /\ P[i] \in Int
    <2>1. k \in Nat OBVIOUS
    <2>2. P[0] <= P[i - 1] /\ P[i] <= P[k] /\ P[i - 1] \in Int /\ P[i] \in Int
      BY <2>1, AscendingBounds
    <2> QED BY <1>2, <2>2
  <1>6. ASSUME NEW i \in 1 .. k, NEW x \in Int, NEW y \in Int
        PROVE /\ CellIn(c[i], x, y) <=> /\ by <= y /\ y < by + bh
                                        /\ P[i - 1] <= x - bx /\ x - bx < P[i] - 1
              /\ RightOf(c[i], x, y) <=> /\ by <= y /\ y < by + bh
                                         /\ x - bx = P[i] - 1
    <2> DEFINE p == P[i - 1]
               q == P[i]
               cx == bx + p
               cw == q - p - 1
    <2>1. p \in Int /\ q \in Int BY <1>5
    <2>2. c[i].x = cx /\ c[i].w = cw /\ c[i].y = by /\ c[i].h = bh BY <1>2
    <2> HIDE DEF p, q
    <2>3. cx \in Int /\ cw \in Int /\ cx + cw = bx + q - 1 BY <1>1, <2>1
    <2> HIDE DEF cx, cw
    <2>4. IsBox(c[i], cx, by, cw, bh) BY <1>1, <2>2, <2>3 DEF IsBox
    <2>5. /\ CellIn(c[i], x, y) <=> cx <= x /\ x < cx + cw /\ by <= y /\ y < by + bh
          /\ RightOf(c[i], x, y) <=> x = cx + cw /\ by <= y /\ y < by + bh
      BY <2>4, CellNumbers
    <2>6. /\ cx <= x <=> p <= x - bx
          /\ x < cx + cw <=> x - bx < q - 1
          /\ x = cx + cw <=> x - bx = q - 1
      BY <1>1, <2>1, <2>3 DEF cx
    <2> QED BY <2>5, <2>6 DEF p, q
  <1>7. ASSUME NEW i \in 1 .. k, NEW x \in Int, NEW y \in Int, CellIn(c[i], x, y)
        PROVE CellIn(b, x, y)
    <2> DEFINE p == P[i - 1]
               q == P[i]
    <2>1. /\ by <= y /\ y < by + bh /\ p <= x - bx /\ x - bx < q - 1
          /\ 0 <= p /\ q <= bw + 1 /\ p \in Int /\ q \in Int
      BY <1>5, <1>6, <1>7
    <2> HIDE DEF p, q
    <2>2. bx <= x /\ x < bx + bw BY <1>1, <2>1
    <2> QED BY <1>4, <2>1, <2>2
  <1>8. ASSUME NEW i \in 1 .. k, NEW j \in 1 .. k, NEW x \in Int, i < j,
               x - bx < P[i] - 1, P[j - 1] <= x - bx
        PROVE FALSE
    <2>1. i <= j - 1 /\ i \in 0 .. k /\ j - 1 \in 0 .. k /\ k \in Nat BY <1>8
    <2>2. P[i] <= P[j - 1] BY <2>1, Ascending
    <2> DEFINE p == P[j - 1]
               q == P[i]
    <2>3. p \in Int /\ q \in Int /\ q <= p /\ x - bx < q - 1 /\ p <= x - bx
      BY <1>5, <1>8, <2>2
    <2> HIDE DEF p, q
    <2> QED BY <1>1, <2>3
  <1>9. ASSUME NEW i \in 1 .. k, NEW j \in 1 .. k, NEW x \in Int, NEW y \in Int,
               CellIn(c[i], x, y), CellIn(c[j], x, y)
        PROVE i = j
    <2>1. /\ x - bx < P[i] - 1 /\ P[j - 1] <= x - bx
          /\ x - bx < P[j] - 1 /\ P[i - 1] <= x - bx
      BY <1>6, <1>9
    <2>2. ~(i < j) /\ ~(j < i) BY <1>8, <2>1
    <2> QED BY <2>2
  <1>10. ASSUME NEW x \in Int, NEW y \in Int, CellIn(b, x, y)
         PROVE \E i \in 1 .. k : CellIn(c[i], x, y) \/ RightOf(c[i], x, y)
    <2>1. bx <= x /\ x < bx + bw /\ by <= y /\ y < by + bh BY <1>4, <1>10
    <2> DEFINE z == x - bx
    <2>2. z \in Int /\ P[0] <= z /\ z < P[k] /\ k \in Nat BY <1>1, <1>2, <2>1
    <2>3. PICK i \in 1 .. k : P[i - 1] <= z /\ z < P[i]
      <3> HIDE DEF z
      <3> QED BY <2>2, Located
    <2>4. z < P[i] - 1 \/ z = P[i] - 1
      <3> DEFINE q == P[i]
      <3>1. q \in Int /\ z \in Int /\ z < q BY <1>5, <2>2, <2>3
      <3> HIDE DEF z, q
      <3> QED BY <3>1 DEF q
    <2> QED BY <1>6, <2>1, <2>3, <2>4
  <1>11. ASSUME NEW x \in Int, NEW y \in Int, RightOf(b, x, y)
         PROVE RightOf(c[k], x, y)
    <2>1. x = bx + bw /\ by <= y /\ y < by + bh BY <1>4, <1>11
    <2>2. x - bx = P[k] - 1 BY <1>1, <1>2, <2>1
    <2>3. k \in 1 .. k OBVIOUS
    <2> QED BY <1>6, <2>1, <2>2, <2>3
  <1>12. k \in 1 .. k OBVIOUS
  <1> QED BY <1>7, <1>9, <1>10, <1>11, <1>12 DEF Parted

\* Boxes that fill the boxes that fill a box fill it.
LEMMA PartedAgain ==
  ASSUME NEW b, NEW c, NEW K, NEW d, NEW J, NEW part, Parted(b, c, K),
         \A i \in K : Parted(c[i], d, part[i]),
         \A i \in K : part[i] \subseteq J,
         \A j \in J : \E i \in K : j \in part[i]
  PROVE Parted(b, d, J)
  <1>1. ASSUME NEW j \in J, NEW x \in Int, NEW y \in Int, CellIn(d[j], x, y)
        PROVE CellIn(b, x, y)
    <2>1. PICK i \in K : j \in part[i] OBVIOUS
    <2>2. CellIn(c[i], x, y) BY <1>1, <2>1 DEF Parted
    <2> QED BY <2>2 DEF Parted
  <1>2. ASSUME NEW i \in J, NEW j \in J, NEW x \in Int, NEW y \in Int,
               CellIn(d[i], x, y), CellIn(d[j], x, y)
        PROVE i = j
    <2>1. PICK m \in K : i \in part[m] OBVIOUS
    <2>2. PICK n \in K : j \in part[n] OBVIOUS
    <2>3. CellIn(c[m], x, y) /\ CellIn(c[n], x, y) BY <1>2, <2>1, <2>2 DEF Parted
    <2>4. m = n BY <2>3 DEF Parted
    <2> QED BY <1>2, <2>1, <2>2, <2>4 DEF Parted
  <1>3. ASSUME NEW x \in Int, NEW y \in Int, CellIn(b, x, y)
        PROVE \E j \in J : CellIn(d[j], x, y) \/ RightOf(d[j], x, y)
    <2>1. PICK i \in K : CellIn(c[i], x, y) \/ RightOf(c[i], x, y) BY <1>3 DEF Parted
    <2>2. \E j \in part[i] : CellIn(d[j], x, y) \/ RightOf(d[j], x, y) BY <2>1 DEF Parted
    <2> QED BY <2>2
  <1>4. ASSUME NEW x \in Int, NEW y \in Int, RightOf(b, x, y)
        PROVE \E j \in J : RightOf(d[j], x, y)
    <2>1. PICK i \in K : RightOf(c[i], x, y) BY <1>4 DEF Parted
    <2>2. \E j \in part[i] : RightOf(d[j], x, y) BY <2>1 DEF Parted
    <2> QED BY <2>2
  <1> QED BY <1>1, <1>2, <1>3, <1>4 DEF Parted

\* The children of a node fill it, where all have room.
LEMMA NodeParted ==
  ASSUME NEW nodes, NEW k, NEW bias, Biased(nodes, k, bias), NEW o \in Orientations,
         NEW b, Rect(b), NEW c,
         \A i \in 1 .. k : c[i] = ChildBox(nodes, o, bias, i, b),
         \A i \in 1 .. k : c[i].w > 0 /\ c[i].h > 0
  PROVE Parted(b, c, 1 .. k) /\ b.w > 0 /\ b.h > 0
  <1> DEFINE s == ShareOf(nodes, o, bias, b)
             S == Sums(s)
             space == Space(o, k, b)
  <1>1. k \in Nat \ {0} /\ Len(nodes) = k /\ 1 \in 1 .. k /\ k \in 0 .. k BY DEF Biased
  <1>2. space \in Int /\ Least(o) \in Int BY <1>1, ChildBoxIsRect
  <1>3. s \in Seq(Int) /\ Len(s) = k /\ S[k] = space BY <1>1, <1>2, SharesFill DEF ShareOf
  <1> HIDE DEF s
  <1>4. S \in [0 .. k -> Int] /\ S[0] = 0 /\ \A i \in 1 .. k : S[i] = S[i - 1] + s[i]
    BY <1>3, SumsSteps
  <1> HIDE DEF S
  <1>5. \A i \in 1 .. k : i \in Int /\ i - 1 \in 0 .. k /\ i \in 0 .. k /\ s[i] \in Int
                          /\ S[i - 1] \in Int /\ S[i] \in Int
    BY <1>1, <1>3, <1>4
  <1>6. ASSUME NEW i \in 1 .. k
        PROVE /\ o = "v" => /\ c[i].x = b.x /\ c[i].y = b.y + S[i - 1]
                            /\ c[i].w = b.w /\ c[i].h = s[i]
              /\ o = "h" => /\ c[i].x = b.x + S[i - 1] + i - 1 /\ c[i].y = b.y
                            /\ c[i].w = s[i] /\ c[i].h = b.h
    BY ChildBoxParts DEF s, S
  <1>7. b.x \in Int /\ b.y \in Int /\ b.w \in Int /\ b.h \in Int BY DEF Rect
  <1>8. CASE o = "v"
    <2>1. \A i \in 1 .. k : c[i].x = b.x /\ c[i].y = b.y + S[i - 1] /\ c[i].w = b.w /\ c[i].h = s[i]
      BY <1>6, <1>8
    <2>2. S[k] = b.h BY <1>3, <1>8 DEF space, Space
    <2>3. ASSUME NEW i \in 1 .. k PROVE s[i] = S[i] - S[i - 1] /\ S[i - 1] < S[i]
      <3>1. s[i] > 0 BY <2>1
      <3> DEFINE d == s[i]
                 p == S[i - 1]
                 q == S[i]
      <3>2. d > 0 /\ q = p + d /\ d \in Int /\ p \in Int BY <1>4, <1>5, <3>1
      <3> HIDE DEF d, p, q
      <3>3. d = q - p /\ p < q BY <3>2
      <3> QED BY <3>3 DEF d, p, q
    <2>4. Stacked(b, c, k, S) BY <1>4, <2>1, <2>2, <2>3 DEF Stacked
    <2>5. \A i \in 1 .. k : S[i - 1] <= S[i] BY <1>5, <2>3
    <2>6. Parted(b, c, 1 .. k) BY <1>1, <1>4, <2>4, <2>5, StackedParted
    <2>7. b.w > 0 BY <1>1, <2>1
    <2>8. b.h > 0
      <3>1. S[1] <= S[k] /\ S[1 - 1] < S[1] /\ S[1] \in Int /\ S[k] \in Int
        <4>1. k \in Nat BY <1>1
        <4>2. S[1] <= S[k] BY <1>1, <1>4, <2>5, <4>1, AscendingBounds
        <4> QED BY <1>1, <1>5, <2>3, <4>2, <1>4
      <3> QED BY <1>4, <2>2, <3>1
    <2> QED BY <2>6, <2>7, <2>8
  <1>9. CASE o = "h"
    <2> DEFINE P == [i \in 0 .. k |-> S[i] + i]
    <2>1. \A i \in 1 .. k : /\ c[i].x = b.x + S[i - 1] + i - 1 /\ c[i].y = b.y
                            /\ c[i].w = s[i] /\ c[i].h = b.h
      BY <1>6, <1>9
    <2>2. S[k] = b.w - (k - 1) BY <1>3, <1>9 DEF space, Space
    <2>3. P \in [0 .. k -> Int] /\ P[0] = 0 /\ P[k] = b.w + 1
      <3>1. 0 \in 0 .. k BY <1>1
      <3>2. P[0] = S[0] + 0 /\ P[k] = S[k] + k BY <1>1, <3>1
      <3>3. P \in [0 .. k -> Int] BY <1>1, <1>4
      <3> HIDE DEF P
      <3> QED BY <1>1, <1>4, <1>7, <2>2, <3>2, <3>3
    <2>4. ASSUME NEW i \in 1 .. k
          PROVE /\ s[i] = P[i] - P[i - 1] - 1 /\ P[i - 1] + 1 < P[i]
                /\ b.x + S[i - 1] + i - 1 = b.x + P[i - 1]
      <3>1. s[i] > 0 BY <2>1
      <3>2. P[i] = S[i] + i /\ P[i - 1] = S[i - 1] + (i - 1) BY <1>5
      <3> DEFINE d == s[i]
                 p == S[i - 1]
                 q == S[i]
                 x == b.x
                 u == P[i - 1]
                 v == P[i]
      <3>3. /\ d > 0 /\ q = p + d /\ d \in Int /\ p \in Int /\ i \in Int /\ x \in Int
            /\ v = q + i /\ u = p + (i - 1)
        BY <1>4, <1>5, <1>7, <3>1, <3>2
      <3> HIDE DEF d, p, q, x, u, v
      <3>4. d = v - u - 1 /\ u + 1 < v /\ x + p + i - 1 = x + u BY <3>3
      <3> QED BY <3>4 DEF d, p, x, u, v
    <2> HIDE DEF P
    <2>5. SideBySide(b, c, k, P) BY <2>1, <2>3, <2>4 DEF SideBySide
    <2>6. \A i \in 1 .. k : P[i - 1] <= P[i] /\ P[i] \in Int /\ P[i - 1] \in Int
      BY <1>5, <2>3, <2>4
    <2>7. Parted(b, c, 1 .. k) BY <1>1, <2>3, <2>5, <2>6, SideBySideParted
    <2>8. b.h > 0 BY <1>1, <2>1
    <2>9. b.w > 0
      <3>1. P[1] <= P[k]
        <4>1. k \in Nat BY <1>1
        <4> QED BY <1>1, <2>3, <2>6, <4>1, AscendingBounds
      <3>2. P[1 - 1] + 1 < P[1] /\ P[1] \in Int /\ P[1 - 1] = 0 BY <1>1, <2>3, <2>4, <2>6
      <3> DEFINE u == P[1]
      <3>3. u \in Int /\ 1 < u /\ u <= b.w + 1 BY <2>3, <3>1, <3>2
      <3> HIDE DEF u
      <3> QED BY <1>7, <3>3
    <2> QED BY <2>7, <2>8, <2>9
  <1> QED BY <1>8, <1>9 DEF Orientations

\* A window under a node is under one of its children.
LEMMA SpanCovered ==
  ASSUME NEW C, NEW r, NEW W, NEW lo, NEW hi, Tree(C, r, W, lo, hi), NEW n \in DOMAIN C
  PROVE /\ \A j \in lo[n] .. hi[n] : \E i \in 1 .. Len(C[n]) : j \in lo[C[n][i]] .. hi[C[n][i]]
        /\ \A i \in 1 .. Len(C[n]) : lo[C[n][i]] .. hi[C[n][i]] \subseteq lo[n] .. hi[n]
  <1> DEFINE k == Len(C[n])
             P == [i \in 0 .. k |-> IF i = 0 THEN lo[n] ELSE hi[C[n][i]] + 1]
             a == lo[n]
             b == hi[n]
  <1>1. /\ k \in Nat \ {0} /\ 1 \in 1 .. k /\ k \in 1 .. k /\ k # 0 /\ k \in 0 .. k
        /\ \A i \in 1 .. k : C[n][i] \in Items(C, W)
    <2>1. Shape(C, r, W) BY DEF Tree
    <2>2. k \in Nat \ {0} BY <2>1, ChildrenInjective
    <2>3. \A i \in 1 .. k : C[n][i] \in Items(C, W) BY <2>1, ChildIsItem
    <2> HIDE DEF k
    <2> QED BY <2>2, <2>3
  <1>2. ASSUME NEW i \in 1 .. k
        PROVE /\ lo[C[n][i]] \in Int /\ hi[C[n][i]] \in Int
              /\ a <= lo[C[n][i]] /\ hi[C[n][i]] <= b
    BY <1>1 DEF Tree, Spans
  <1>3. a \in Int /\ b \in Int BY DEF Tree, Spans, Items
  <1>4. a = lo[C[n][1]] /\ b = hi[C[n][k]] BY DEF Tree, Spans
  <1>5. \A i \in 1 .. k - 1 : lo[C[n][i + 1]] = hi[C[n][i]] + 1 BY DEF Tree, Spans
  <1> HIDE DEF k, a, b
  <1>6. ASSUME NEW i \in 1 .. k PROVE P[i - 1] = lo[C[n][i]] /\ P[i] = hi[C[n][i]] + 1
    <2>1. i - 1 \in 0 .. k /\ i \in 0 .. k /\ i # 0 BY <1>1
    <2>2. P[i] = hi[C[n][i]] + 1 BY <2>1
    <2>3. CASE i = 1 BY <1>4, <2>1, <2>2, <2>3 DEF a
    <2>4. CASE i # 1
      <3>1. i - 1 \in 1 .. k - 1 /\ i - 1 # 0 /\ (i - 1) + 1 = i BY <1>1, <2>4
      <3>2. lo[C[n][(i - 1) + 1]] = hi[C[n][i - 1]] + 1 BY <1>5, <3>1
      <3>3. P[i - 1] = hi[C[n][i - 1]] + 1 BY <2>1, <3>1
      <3> QED BY <2>2, <3>1, <3>2, <3>3
    <2> QED BY <2>3, <2>4
  <1>7. P \in [0 .. k -> Int]
    <2> SUFFICES ASSUME NEW i \in 0 .. k PROVE P[i] \in Int OBVIOUS
    <2>1. CASE i = 0 BY <1>3, <2>1 DEF a
    <2>2. CASE i # 0
      <3>1. i \in 1 .. k BY <1>1, <2>2
      <3> QED BY <1>2, <2>2, <3>1
    <2> QED BY <2>1, <2>2
  <1>8. P[0] = a /\ P[k] = b + 1
    <2>1. 0 \in 0 .. k BY <1>1
    <2>2. P[0] = a BY <2>1 DEF a
    <2>3. P[k] = hi[C[n][k]] + 1 BY <1>1
    <2> QED BY <1>4, <2>2, <2>3
  <1> HIDE DEF P
  <1>9. ASSUME NEW j \in a .. b
        PROVE \E i \in 1 .. k : j \in lo[C[n][i]] .. hi[C[n][i]]
    <2>1. j \in Int /\ a <= j /\ j < b + 1 BY <1>3
    <2>2. j \in Int /\ P[0] <= j /\ j < P[k] /\ k \in Nat BY <1>1, <1>8, <2>1
    <2>3. PICK i \in 1 .. k : P[i - 1] <= j /\ j < P[i] BY <1>7, <2>2, Located
    <2> DEFINE u == lo[C[n][i]]
               v == hi[C[n][i]]
    <2>4. u \in Int /\ v \in Int /\ u <= j /\ j < v + 1 BY <1>2, <1>6, <2>3
    <2> HIDE DEF u, v
    <2>5. j \in u .. v BY <2>1, <2>4
    <2> QED BY <2>5 DEF u, v
  <1>10. ASSUME NEW i \in 1 .. k PROVE lo[C[n][i]] .. hi[C[n][i]] \subseteq a .. b
    <2> DEFINE u == lo[C[n][i]]
               v == hi[C[n][i]]
    <2>1. u \in Int /\ v \in Int /\ a <= u /\ v <= b BY <1>2
    <2> HIDE DEF u, v
    <2>2. u .. v \subseteq a .. b BY <1>3, <2>1
    <2> QED BY <2>2 DEF u, v
  <1> QED BY <1>9, <1>10 DEF k, a, b

\* The windows fill the area, where all have room.
LEMMA WindowsParted ==
  ASSUME NEW C, NEW r, NEW W, NEW lo, NEW hi, Tree(C, r, W, lo, hi), Branching(C),
         NEW orient, Oriented(C, orient), NEW bias, bias \in [ToSet(W) -> Int],
         NEW area, NEW box, Placed(C, r, orient, bias, area, box),
         \A x \in Items(C, W) : Rect(box[x]),
         \A w \in ToSet(W) : box[w].w > 0 /\ box[w].h > 0
  PROVE Parted(area, [j \in 1 .. Len(W) |-> box[W[j]]], 1 .. Len(W))
  <1> DEFINE d == [j \in 1 .. Len(W) |-> box[W[j]]]
             S == {x \in Items(C, W) :
                      box[x].w > 0 /\ box[x].h > 0 /\ Parted(box[x], d, lo[x] .. hi[x])}
  <1>1. Shape(C, r, W) /\ Spans(C, W, lo, hi) /\ lo[r] = 1 /\ hi[r] = Len(W) BY DEF Tree
  <1>2. Len(W) \in Nat /\ DOMAIN W = 1 .. Len(W) BY <1>1 DEF Shape
  <1>3. ASSUME NEW w \in ToSet(W) PROVE w \in S
    <2>1. PICK m \in 1 .. Len(W) : w = W[m] BY <1>2 DEF ToSet
    <2>2. lo[w] = m /\ hi[w] = m /\ d[m] = box[w] BY <1>1, <2>1 DEF Spans
    <2>3. m .. m = {m} BY <1>2
    <2>4. Parted(box[w], d, {m})
      <3> HIDE DEF d
      <3> QED BY <2>2 DEF Parted
    <2>5. w \in Items(C, W) BY DEF Items
    <2> HIDE DEF d
    <2> QED BY <2>2, <2>3, <2>4, <2>5
  <1>4. ASSUME NEW n \in DOMAIN C, \A i \in 1 .. Len(C[n]) : C[n][i] \in S PROVE n \in S
    <2> DEFINE k == Len(C[n])
               c == [i \in 1 .. k |-> box[C[n][i]]]
               part == [i \in 1 .. k |-> lo[C[n][i]] .. hi[C[n][i]]]
    <2>1. Biased(C[n], k, bias) BY <1>1, BiasedChildren
    <2>2. n \in Items(C, W) /\ Rect(box[n]) /\ orient[n] \in Orientations
      BY DEF Items, Oriented
    <2>3. \A i \in 1 .. k : c[i] = ChildBox(C[n], orient[n], bias, i, box[n]) BY DEF Placed
    <2>4. \A i \in 1 .. k : c[i].w > 0 /\ c[i].h > 0 BY <1>4
    <2>5. \A i \in 1 .. k : Parted(c[i], d, part[i]) BY <1>4
    <2>6. /\ \A i \in 1 .. k : part[i] \subseteq lo[n] .. hi[n]
          /\ \A j \in lo[n] .. hi[n] : \E i \in 1 .. k : j \in part[i]
      BY SpanCovered
    <2> HIDE DEF k, c, part, d
    <2>7. Parted(box[n], c, 1 .. k) /\ box[n].w > 0 /\ box[n].h > 0
      BY <2>1, <2>2, <2>3, <2>4, NodeParted
    <2> DEFINE J == lo[n] .. hi[n]
    <2>8. (\A i \in 1 .. k : part[i] \subseteq J) /\ (\A j \in J : \E i \in 1 .. k : j \in part[i])
      BY <2>6
    <2> HIDE DEF J
    <2>9. Parted(box[n], d, J) BY <2>5, <2>7, <2>8, PartedAgain
    <2> QED BY <2>2, <2>7, <2>9 DEF J
  <1>5. \A x \in S : Parted(box[x], d, lo[x] .. hi[x]) OBVIOUS
  <1> HIDE DEF S, d
  <1>6. ToSet(W) \subseteq S BY <1>3
  <1>7. Items(C, W) \subseteq S BY <1>4, <1>6, BottomUp
  <1>8. r \in Items(C, W) /\ box[r] = area BY <1>1 DEF Placed, Shape
  <1>9. Parted(area, d, 1 .. Len(W)) BY <1>1, <1>5, <1>7, <1>8
  <1> QED BY <1>9 DEF d

LEMMA TuiInvTiled ==
  ASSUME TuiInv
  PROVE Tiled
  <1> SUFFICES ASSUME Roomy PROVE Tiled BY DEF Tiled
  <1> DEFINE C == fr.tree.children
             W == fr.windows
             area == Area(fr.screen)
             box == BoxesOf(fr)
             d == [j \in 1 .. Len(W) |-> box[W[j]]]
  <1>1. TuiOK(fr) BY DEF TuiInv
  <1>2. TreeOK(fr.tree, W, fr.made) BY <1>1, FrameShape
  <1>3. /\ \A w \in ToSet(W) : fr.box[w] = box[w]
        /\ Placed(C, fr.tree.root, fr.tree.orient, fr.bias, area, box)
        /\ \A x \in Items(C, W) : Rect(box[x])
        /\ fr.bias \in [ToSet(W) -> Int]
        /\ fr.screen \in Screens
    BY <1>1, FrameBoxes
  <1>4. PICK lo, hi : Tree(C, fr.tree.root, W, lo, hi) BY <1>2 DEF TreeOK, LeavesAre
  <1>5. Branching(C) /\ Oriented(C, fr.tree.orient) BY <1>2, TreeShape DEF TreeOK
  <1>6. \A w \in ToSet(W) : box[w].w > 0 /\ box[w].h > 0 BY <1>3 DEF Roomy
  <1>7. Parted(area, d, 1 .. Len(W))
    <2>0. \A x \in Items(C, W) : Rect(box[x]) BY <1>3
    <2> DEFINE r == fr.tree.root
               orient == fr.tree.orient
               bias == fr.bias
    <2>1. /\ Tree(C, r, W, lo, hi) /\ Branching(C) /\ Oriented(C, orient)
          /\ bias \in [ToSet(W) -> Int] /\ Placed(C, r, orient, bias, area, box)
      BY <1>3, <1>4, <1>5
    <2> HIDE DEF C, W, r, orient, bias, area, box
    <2> QED BY <1>6, <2>0, <2>1, WindowsParted
  <1>8. DOMAIN W = 1 .. Len(W) /\ IsInjective(W) BY <1>2, TreeShape
  <1>9. \A j \in 1 .. Len(W) : d[j] = fr.box[W[j]] /\ W[j] \in ToSet(W)
    BY <1>3, <1>8 DEF ToSet
  <1>10. \A w \in ToSet(W) : \E j \in 1 .. Len(W) : w = W[j] BY <1>8 DEF ToSet
  <1>11. /\ area.x = 0 /\ area.y = 0 /\ area.w = fr.screen[1] /\ area.h = fr.screen[2] - 1
    BY <1>3, AreaIsRect
  <1> HIDE DEF W, area, box, d
  <1>12. \A w \in ToSet(W) : \A c : c \in Cells(w) <=> \E x, y \in Int : c = <<x, y>> /\ CellIn(fr.box[w], x, y)
    BY <1>3 DEF Cells, CellIn, Rect, Items
  <1> DEFINE screen == (0 .. fr.screen[1] - 1) \X (0 .. fr.screen[2] - 2)
  <1>13. \A x, y \in Int : CellIn(area, x, y) <=> <<x, y>> \in screen
    <2> DEFINE m == fr.screen[1]
               n == fr.screen[2]
    <2>1. m \in Int /\ n \in Int BY <1>3, TuiFrameAssumption
    <2>2. area.x = 0 /\ area.y = 0 /\ area.w = m /\ area.h = n - 1 BY <1>11
    <2> HIDE DEF m, n
    <2>3. 0 + m - 1 = m - 1 /\ 0 + (n - 1) - 1 = n - 2 BY <2>1
    <2>4. \A x, y \in Int : CellIn(area, x, y) <=> x \in 0 .. m - 1 /\ y \in 0 .. n - 2
      BY <2>2, <2>3 DEF CellIn
    <2> QED BY <2>4 DEF m, n
  <1>14. \A c \in screen : \E x, y \in Int : c = <<x, y>> OBVIOUS
  <1> HIDE DEF screen
  <1>15. ASSUME NEW v \in ToSet(W), NEW w \in ToSet(W), v # w PROVE Cells(v) \cap Cells(w) = {}
    <2> SUFFICES ASSUME NEW c, c \in Cells(v), c \in Cells(w) PROVE FALSE OBVIOUS
    <2>1. PICK i \in 1 .. Len(W) : v = W[i] BY <1>10
    <2>2. PICK j \in 1 .. Len(W) : w = W[j] BY <1>10
    <2>3. PICK x \in Int, y \in Int : c = <<x, y>> /\ CellIn(fr.box[v], x, y) BY <1>12
    <2>4. PICK x2 \in Int, y2 \in Int : c = <<x2, y2>> /\ CellIn(fr.box[w], x2, y2) BY <1>12
    <2>5. x2 = x /\ y2 = y BY <2>3, <2>4
    <2>6. CellIn(d[i], x, y) /\ CellIn(d[j], x, y) BY <1>9, <2>1, <2>2, <2>3, <2>4, <2>5
    <2>7. i = j BY <1>7, <2>6 DEF Parted
    <2> QED BY <1>15, <2>1, <2>2, <2>7
  <1> DEFINE used == UNION {Cells(w) : w \in ToSet(W)}
  <1>16. used \subseteq screen
    <2> SUFFICES ASSUME NEW w \in ToSet(W), NEW c \in Cells(w) PROVE c \in screen OBVIOUS
    <2>1. PICK j \in 1 .. Len(W) : w = W[j] BY <1>10
    <2>2. PICK x \in Int, y \in Int : c = <<x, y>> /\ CellIn(fr.box[w], x, y) BY <1>12
    <2>3. CellIn(d[j], x, y) BY <1>9, <2>1, <2>2
    <2>4. CellIn(area, x, y) BY <1>7, <2>3 DEF Parted
    <2> QED BY <1>13, <2>2, <2>4
  <1>17. ASSUME NEW c \in screen \ used
         PROVE \E w \in ToSet(W) : /\ c[1] = fr.box[w].x + fr.box[w].w
                                   /\ c[2] \in fr.box[w].y .. fr.box[w].y + fr.box[w].h - 1
    <2>1. PICK x \in Int, y \in Int : c = <<x, y>> BY <1>14
    <2>2. CellIn(area, x, y) BY <1>13, <2>1
    <2>3. PICK j \in 1 .. Len(W) : CellIn(d[j], x, y) \/ RightOf(d[j], x, y)
      BY <1>7, <2>2 DEF Parted
    <2>4. W[j] \in ToSet(W) /\ d[j] = fr.box[W[j]] BY <1>9
    <2>5. ~CellIn(d[j], x, y)
      <3> SUFFICES ASSUME CellIn(fr.box[W[j]], x, y) PROVE FALSE BY <2>4
      <3>1. c \in Cells(W[j]) BY <1>12, <2>1, <2>4
      <3> QED BY <2>4, <3>1
    <2>6. RightOf(fr.box[W[j]], x, y) BY <2>3, <2>4, <2>5
    <2>7. c[1] = x /\ c[2] = y BY <2>1
    <2> QED BY <2>4, <2>6, <2>7 DEF RightOf
  <1> QED BY <1>15, <1>16, <1>17 DEF Tiled, W, screen

\* Where every window has room, each cell above the echo area is in one window or
\* in the column right of one: whatever the splits, their shares, the biases and
\* the size of the terminal (window.ss split-tree-layout!).
THEOREM TuiFrameTiled == Spec => []Tiled
  <1>1. Init => TuiInv BY TuiInvInit
  <1>2. TuiInv /\ [Next]_fr => TuiInv' BY TuiInvStep
  <1>3. TuiInv => Tiled BY TuiInvTiled
  <1> QED BY <1>1, <1>2, <1>3, PTL DEF Spec
==============================================================================

----------------------------- MODULE Frame_proofs ----------------------------
(***************************************************************************)
(* Proofs about the Qt frame and winner mode, for any number of windows    *)
(* and any length of the history.  FrameOK is the invariant of a frame;    *)
(* each operation on a frame has a lemma that keeps it, and what it does   *)
(* to the windows and the selection.  Winner mode is built of the same     *)
(* operations, and its proofs are built of the same lemmas.                *)
(***************************************************************************)
EXTENDS Winner, SplitTree_proofs

------------------------------------------------------------------------------
(* The splitters below a node, innermost first.                            *)

\* A splitter comes after the splitters that are its children.
ChildrenFirst(C, s) ==
    \A j \in 1 .. Len(s) : \A x \in ToSet(C[s[j]]) \cap DOMAIN C :
        \E i \in 1 .. j - 1 : s[i] = x

Listed(C, s) == s \in Seq(DOMAIN C) /\ IsInjective(s) /\ ChildrenFirst(C, s)

LEMMA ListedConcat ==
  ASSUME NEW C, NEW s, NEW t, Listed(C, s), Listed(C, t), \A e \in ToSet(s) : e \notin ToSet(t)
  PROVE /\ Listed(C, s \o t)
        /\ \A e : e \in ToSet(s \o t) <=> e \in ToSet(s) \/ e \in ToSet(t)
  <1> DEFINE u == s \o t
             a == Len(s)
             b == Len(t)
  <1>1. s \in Seq(DOMAIN C) /\ t \in Seq(DOMAIN C) BY DEF Listed
  <1>2. /\ u \in Seq(DOMAIN C)
        /\ Len(u) = a + b
        /\ a \in Nat /\ b \in Nat
        /\ \A j \in 1 .. a : u[j] = s[j]
        /\ \A j \in 1 .. b : u[a + j] = t[j]
    BY <1>1
  <1>3. DOMAIN u = 1 .. a + b /\ DOMAIN s = 1 .. a /\ DOMAIN t = 1 .. b BY <1>1, <1>2
  <1> HIDE DEF u, a, b
  <1>4. ASSUME NEW j \in 1 .. a + b
        PROVE j \in 1 .. a \/ \E m \in 1 .. b : j = a + m
    <2>1. CASE j <= a BY <2>1
    <2>2. CASE j > a
      <3>1. j - a \in 1 .. b /\ j = a + (j - a) BY <1>2, <2>2
      <3> QED BY <3>1
    <2> QED BY <1>2, <2>1, <2>2
  <1>5. \A j \in 1 .. a : j \in 1 .. a + b BY <1>2
  <1>6. \A m \in 1 .. b : a + m \in 1 .. a + b BY <1>2
  <1>7. ToSet(u) = ToSet(s) \cup ToSet(t)
    <2>1. ToSet(u) \subseteq ToSet(s) \cup ToSet(t)
      <3> SUFFICES ASSUME NEW j \in 1 .. a + b PROVE u[j] \in ToSet(s) \cup ToSet(t)
        BY <1>3 DEF ToSet
      <3>1. CASE j \in 1 .. a BY <1>2, <1>3, <3>1 DEF ToSet
      <3>2. CASE \E m \in 1 .. b : j = a + m
        <4>1. PICK m \in 1 .. b : j = a + m BY <3>2
        <4>2. u[a + m] = t[m] BY <1>2
        <4> QED BY <1>3, <4>1, <4>2 DEF ToSet
      <3> QED BY <1>4, <3>1, <3>2
    <2>2. ToSet(s) \subseteq ToSet(u) BY <1>2, <1>3, <1>5 DEF ToSet
    <2>3. ToSet(t) \subseteq ToSet(u) BY <1>2, <1>3, <1>6 DEF ToSet
    <2> QED BY <2>1, <2>2, <2>3
  <1>8. IsInjective(u)
    <2>1. \A i, j \in 1 .. a : s[i] = s[j] => i = j BY <1>3 DEF Listed, IsInjective
    <2>2. \A i, j \in 1 .. b : t[i] = t[j] => i = j BY <1>3 DEF Listed, IsInjective
    <2>3. \A i \in 1 .. a, j \in 1 .. b : s[i] # t[j] BY <1>3 DEF ToSet
    <2> SUFFICES ASSUME NEW i \in 1 .. a + b, NEW j \in 1 .. a + b, u[i] = u[j] PROVE i = j
      BY <1>3 DEF IsInjective
    <2>4. CASE i \in 1 .. a /\ j \in 1 .. a
      <3>1. s[i] = s[j] BY <1>2, <2>4
      <3> QED BY <2>1, <2>4, <3>1
    <2>5. CASE i \in 1 .. a /\ \E m \in 1 .. b : j = a + m
      <3>1. PICK m \in 1 .. b : j = a + m BY <2>5
      <3>2. u[i] = s[i] /\ u[a + m] = t[m] BY <1>2, <2>5
      <3> QED BY <2>3, <2>5, <3>1, <3>2
    <2>6. CASE j \in 1 .. a /\ \E m \in 1 .. b : i = a + m
      <3>1. PICK m \in 1 .. b : i = a + m BY <2>6
      <3>2. u[j] = s[j] /\ u[a + m] = t[m] BY <1>2, <2>6
      <3> QED BY <2>3, <2>6, <3>1, <3>2
    <2>7. CASE (\E m \in 1 .. b : i = a + m) /\ (\E m \in 1 .. b : j = a + m)
      <3>1. PICK m \in 1 .. b : i = a + m BY <2>7
      <3>2. PICK n \in 1 .. b : j = a + n BY <2>7
      <3>3. u[a + m] = t[m] /\ u[a + n] = t[n] BY <1>2
      <3>4. m = n BY <2>2, <3>1, <3>2, <3>3
      <3> QED BY <3>1, <3>2, <3>4
    <2> QED BY <1>4, <2>4, <2>5, <2>6, <2>7
  <1>9. ChildrenFirst(C, u)
    <2>1. \A j \in 1 .. a : \A x \in ToSet(C[s[j]]) \cap DOMAIN C : \E i \in 1 .. j - 1 : s[i] = x
      BY DEF Listed, ChildrenFirst, a
    <2>2. \A j \in 1 .. b : \A x \in ToSet(C[t[j]]) \cap DOMAIN C : \E i \in 1 .. j - 1 : t[i] = x
      BY DEF Listed, ChildrenFirst, b
    <2> SUFFICES ASSUME NEW j \in 1 .. a + b, NEW x \in ToSet(C[u[j]]) \cap DOMAIN C
                 PROVE \E i \in 1 .. j - 1 : u[i] = x
      BY <1>2 DEF ChildrenFirst
    <2>3. CASE j \in 1 .. a
      <3>1. u[j] = s[j] BY <1>2, <2>3
      <3>2. PICK i \in 1 .. j - 1 : s[i] = x BY <2>1, <2>3, <3>1
      <3>3. i \in 1 .. a BY <1>2, <2>3
      <3> QED BY <1>2, <3>2, <3>3
    <2>4. CASE \E m \in 1 .. b : j = a + m
      <3>1. PICK m \in 1 .. b : j = a + m BY <2>4
      <3>2. u[j] = t[m] BY <1>2, <3>1
      <3>3. PICK i \in 1 .. m - 1 : t[i] = x BY <2>2, <3>2
      <3>4. i \in 1 .. b /\ a + i \in 1 .. j - 1 BY <1>2, <3>1
      <3>5. u[a + i] = t[i] BY <1>2, <3>4
      <3> QED BY <3>3, <3>4, <3>5
    <2> QED BY <1>4, <2>3, <2>4
  <1> QED BY <1>2, <1>7, <1>8, <1>9 DEF Listed, u

LEMMA ListedAppend ==
  ASSUME NEW C, NEW s, Listed(C, s), NEW m \in DOMAIN C, m \notin ToSet(s),
         ToSet(C[m]) \cap DOMAIN C \subseteq ToSet(s)
  PROVE Listed(C, Append(s, m)) /\ ToSet(Append(s, m)) = ToSet(s) \cup {m}
  <1> DEFINE u == Append(s, m)
             a == Len(s)
  <1>1. s \in Seq(DOMAIN C) /\ IsInjective(s) BY DEF Listed
  <1>2. /\ u \in Seq(DOMAIN C)
        /\ Len(u) = a + 1
        /\ u[a + 1] = m
        /\ \A j \in 1 .. a : u[j] = s[j]
        /\ ToSet(u) = ToSet(s) \cup {m}
        /\ IsInjective(u)
    BY <1>1, AppendElements
  <1>3. a \in Nat /\ DOMAIN s = 1 .. a BY <1>1
  <1>4. \A j \in 1 .. a : \A x \in ToSet(C[s[j]]) \cap DOMAIN C : \E i \in 1 .. j - 1 : s[i] = x
    BY DEF Listed, ChildrenFirst
  <1> HIDE DEF u, a
  <1>5. ChildrenFirst(C, u)
    <2> SUFFICES ASSUME NEW j \in 1 .. a + 1, NEW x \in ToSet(C[u[j]]) \cap DOMAIN C
                 PROVE \E i \in 1 .. j - 1 : u[i] = x
      BY <1>2 DEF ChildrenFirst
    <2>1. CASE j = a + 1
      <3>1. x \in ToSet(s) BY <1>2, <2>1
      <3>2. PICK i \in 1 .. a : s[i] = x BY <1>3, <3>1 DEF ToSet
      <3>3. i \in 1 .. j - 1 BY <1>3, <2>1
      <3> QED BY <1>2, <3>2, <3>3
    <2>2. CASE j # a + 1
      <3>1. j \in 1 .. a BY <1>3, <2>2
      <3>2. u[j] = s[j] BY <1>2, <3>1
      <3>3. PICK i \in 1 .. j - 1 : s[i] = x BY <1>4, <3>1, <3>2
      <3>4. i \in 1 .. a BY <1>3, <3>1
      <3> QED BY <1>2, <3>3, <3>4
    <2> QED BY <2>1, <2>2
  <1> QED BY <1>2, <1>5 DEF Listed, u

Sub(C, f, m) ==
    IF m \in DOMAIN C
      THEN Append(FlattenSeq([i \in DOMAIN C[m] |-> f[C[m][i]]]), m)
      ELSE <<>>

\* The function SubSplitters(C, r) applies to r.
SubMap(C) == CHOOSE f : f = [m \in Int |-> Sub(C, f, m)]

LEMMA SubMapEquation ==
  ASSUME NEW C, NEW r, NEW W, NEW lo, NEW hi, Tree(C, r, W, lo, hi), Branching(C)
  PROVE SubMap(C) = [m \in Int |-> Sub(C, SubMap(C), m)]
  <1> DEFINE Good(f, d) == \A m \in Int :
                (m \in DOMAIN C => hi[m] - lo[m] <= d) => f[m] = Sub(C, f, m)
             S == {d \in Nat : \E f : Good(f, d)}
  <1>1. \A m \in DOMAIN C : /\ lo[m] \in Int /\ hi[m] \in Int
                            /\ 1 <= lo[m] /\ lo[m] <= hi[m] /\ hi[m] <= Len(W)
                            /\ m \in Int
    BY DEF Tree, Spans, Shape, Items
  <1>2. ASSUME NEW m \in DOMAIN C, NEW i \in DOMAIN C[m]
        PROVE /\ C[m][i] \in Int
              /\ C[m][i] \in DOMAIN C => hi[C[m][i]] - lo[C[m][i]] < hi[m] - lo[m]
    <2>1. Shape(C, r, W) BY DEF Tree
    <2>2. C[m][i] \in Items(C, W) /\ i \in 1 .. Len(C[m]) BY <2>1, ChildIsItem
    <2>3. C[m][i] \in Int BY <2>1, <2>2, ItemsAreNumbers
    <2>4. Len(C[m]) >= 2 BY DEF Branching
    <2> QED BY <2>2, <2>3, <2>4, ChildSpanSmaller
  <1>3. 0 \in S
    <2> DEFINE f == [m \in Int |-> <<>>]
    <2>1. ASSUME NEW m \in Int, m \in DOMAIN C => hi[m] - lo[m] <= 0
          PROVE f[m] = Sub(C, f, m)
      <3>1. CASE m \in DOMAIN C
        <4>1. 1 \in DOMAIN C[m] /\ 1 \in 1 .. Len(C[m]) /\ Len(C[m]) >= 2
          BY <3>1, ChildIsItem DEF Tree, Branching
        <4>2. hi[C[m][1]] - lo[C[m][1]] < hi[m] - lo[m] BY <3>1, <4>1, ChildSpanSmaller
        <4>3. lo[C[m][1]] \in Int /\ hi[C[m][1]] \in Int /\ lo[C[m][1]] <= hi[C[m][1]]
          <5>1. C[m][1] \in Items(C, W) BY <3>1, <4>1, ChildIsItem DEF Tree
          <5> QED BY <5>1 DEF Tree, Spans
        <4> QED BY <1>1, <2>1, <3>1, <4>2, <4>3
      <3>2. CASE m \notin DOMAIN C BY <3>2 DEF Sub
      <3> QED BY <3>1, <3>2
    <2> HIDE DEF f
    <2>2. Good(f, 0) BY <2>1
    <2> QED BY <2>2
  <1>4. ASSUME NEW d \in Nat, d \in S PROVE d + 1 \in S
    <2>1. PICK f : Good(f, d) BY <1>4
    <2> DEFINE g == [m \in Int |-> IF m \in DOMAIN C /\ hi[m] - lo[m] = d + 1
                                     THEN Sub(C, f, m) ELSE f[m]]
    <2>2. ASSUME NEW m \in Int, m \in DOMAIN C => hi[m] - lo[m] <= d + 1
          PROVE g[m] = Sub(C, g, m)
      <3>1. CASE m \in DOMAIN C
        <4>1. ASSUME NEW i \in DOMAIN C[m] PROVE g[C[m][i]] = f[C[m][i]]
          <5>1. C[m][i] \in Int /\ (C[m][i] \in DOMAIN C => hi[C[m][i]] - lo[C[m][i]] < hi[m] - lo[m])
            BY <3>1, <1>2
          <5>2. CASE C[m][i] \in DOMAIN C
            <6> DEFINE c == C[m][i]
            <6>1. c \in DOMAIN C /\ hi[c] - lo[c] < hi[m] - lo[m] /\ c \in Int BY <5>1, <5>2
            <6> HIDE DEF c
            <6>2. lo[c] \in Int /\ hi[c] \in Int /\ lo[m] \in Int /\ hi[m] \in Int
              BY <1>1, <3>1, <6>1
            <6>3. hi[c] - lo[c] # d + 1 BY <2>2, <3>1, <6>1, <6>2
            <6>4. g[c] = f[c] BY <6>1, <6>3
            <6> QED BY <6>4 DEF c
          <5>3. CASE C[m][i] \notin DOMAIN C BY <5>1, <5>3
          <5> QED BY <5>2, <5>3
        <4>2. [i \in DOMAIN C[m] |-> g[C[m][i]]] = [i \in DOMAIN C[m] |-> f[C[m][i]]]
          BY <4>1
        <4>3. Sub(C, g, m) = Sub(C, f, m)
          <5> HIDE DEF g
          <5> QED BY <4>2, <3>1 DEF Sub
        <4>4. CASE hi[m] - lo[m] = d + 1
          <5>1. g[m] = Sub(C, f, m) BY <3>1, <4>4
          <5> QED BY <4>3, <5>1
        <4>5. CASE hi[m] - lo[m] # d + 1
          <5>1. g[m] = f[m] BY <4>5
          <5>2. hi[m] - lo[m] <= d BY <1>1, <2>2, <3>1, <4>5
          <5>3. f[m] = Sub(C, f, m) BY <2>1, <5>2
          <5> QED BY <4>3, <5>1, <5>3
        <4> QED BY <4>4, <4>5
      <3>2. CASE m \notin DOMAIN C
        <4>1. g[m] = f[m] /\ f[m] = Sub(C, f, m) BY <2>1, <3>2
        <4>2. Sub(C, f, m) = <<>> /\ Sub(C, g, m) = <<>> BY <3>2 DEF Sub
        <4> QED BY <4>1, <4>2
      <3> QED BY <3>1, <3>2
    <2> HIDE DEF g
    <2>3. Good(g, d + 1) BY <2>2
    <2> QED BY <2>3
  <1> HIDE DEF S
  <1>5. Nat \subseteq S BY <1>3, <1>4, InductionSet
  <1>6. Len(W) \in Nat BY DEF Tree, Shape
  <1>7. PICK f : Good(f, Len(W)) BY <1>5, <1>6 DEF S
  <1>8. \A m \in Int : f[m] = Sub(C, f, m)
    <2>1. \A m \in DOMAIN C : hi[m] - lo[m] <= Len(W) BY <1>1, <1>6
    <2> QED BY <1>7, <2>1
  <1> DEFINE F == [m \in Int |-> f[m]]
  <1>9. ASSUME NEW m \in Int PROVE Sub(C, F, m) = Sub(C, f, m)
    <2>1. CASE m \in DOMAIN C
      <3>1. \A i \in DOMAIN C[m] : F[C[m][i]] = f[C[m][i]] BY <1>2, <2>1
      <3> HIDE DEF F
      <3> QED BY <2>1, <3>1 DEF Sub
    <2>2. CASE m \notin DOMAIN C BY <2>2 DEF Sub
    <2> QED BY <2>1, <2>2
  <1>10. F = [m \in Int |-> Sub(C, F, m)]
    <2>1. \A m \in Int : F[m] = Sub(C, F, m) BY <1>8, <1>9
    <2>2. F = [m \in Int |-> F[m]] OBVIOUS
    <2> HIDE DEF F
    <2> QED BY <2>1, <2>2
  <1> HIDE DEF F
  <1> QED BY <1>10 DEF SubMap

\* What is collected below y: every splitter there once, after those below it.
Collected(C, lo, hi, y, s) ==
    /\ Listed(C, s)
    /\ \A e \in ToSet(s) : lo[y] <= lo[e] /\ hi[e] <= hi[y]
    /\ y \in DOMAIN C => y \in ToSet(s)

LEMMA CollectedBelow ==
  ASSUME NEW C, NEW r, NEW W, NEW lo, NEW hi, Tree(C, r, W, lo, hi), Branching(C),
         NEW y \in DOMAIN C, NEW F,
         \A i \in 1 .. Len(C[y]) : Collected(C, lo, hi, C[y][i], F[C[y][i]])
  PROVE Collected(C, lo, hi, y,
                  Append(FlattenSeq([i \in DOMAIN C[y] |-> F[C[y][i]]]), y))
  <1> DEFINE k == Len(C[y])
             ss == [i \in DOMAIN C[y] |-> F[C[y][i]]]
  <1>1. /\ k \in Nat \ {0} /\ k >= 2 /\ DOMAIN C[y] = 1 .. k
        /\ \A i \in 1 .. k : C[y][i] \in Items(C, W)
    BY ChildIsItem DEF Tree, Branching
  <1>2. Len(ss) = k /\ \A i \in 1 .. k : ss[i] = F[C[y][i]] BY <1>1
  <1> HIDE DEF ss, k
  <1>3. PICK g : /\ g[1] = ss[1]
                 /\ \A n \in 1 .. k - 1 : g[n + 1] = g[n] \o ss[n + 1]
                 /\ FlattenSeq(ss) = g[k]
    BY <1>1, <1>2, FlattenSeqSteps
  <1>4. \A x \in Items(C, W) : lo[x] \in Int /\ hi[x] \in Int /\ lo[x] <= hi[x]
    BY DEF Tree, Spans
  <1>5. \A i \in 1 .. k : /\ lo[y] <= lo[C[y][i]] /\ hi[C[y][i]] <= hi[y]
                          /\ hi[C[y][i]] - lo[C[y][i]] < hi[y] - lo[y]
    <2> SUFFICES ASSUME NEW i \in 1 .. k
                 PROVE /\ lo[y] <= lo[C[y][i]] /\ hi[C[y][i]] <= hi[y]
                       /\ hi[C[y][i]] - lo[C[y][i]] < hi[y] - lo[y]
      OBVIOUS
    <2>1. i \in 1 .. Len(C[y]) BY DEF k
    <2>2. lo[y] <= lo[C[y][i]] /\ hi[C[y][i]] <= hi[y] BY <2>1 DEF Tree, Spans
    <2>3. hi[C[y][i]] - lo[C[y][i]] < hi[y] - lo[y] BY <2>1, <1>1, ChildSpanSmaller DEF k
    <2> QED BY <2>2, <2>3
  <1>6. \A n \in 1 .. k - 1 : lo[C[y][n + 1]] = hi[C[y][n]] + 1 BY DEF Tree, Spans, k
  <1>7. y \in Items(C, W) BY DEF Items
  <1>8. \A i \in 1 .. k : Collected(C, lo, hi, C[y][i], ss[i]) BY <1>2 DEF k
  <1> DEFINE Upto(n) == /\ Listed(C, g[n])
                        /\ \A e \in ToSet(g[n]) : /\ lo[y] <= lo[e]
                                                  /\ hi[e] <= hi[C[y][n]]
                                                  /\ hi[e] - lo[e] < hi[y] - lo[y]
                        /\ \A i \in 1 .. n : C[y][i] \in DOMAIN C => C[y][i] \in ToSet(g[n])
             T == {n \in 1 .. k : Upto(n)}
  <1>9. ASSUME NEW i \in 1 .. k, NEW e \in ToSet(ss[i])
        PROVE /\ e \in DOMAIN C /\ e \in Items(C, W)
              /\ lo[e] \in Int /\ hi[e] \in Int /\ lo[e] <= hi[e]
              /\ lo[C[y][i]] <= lo[e] /\ hi[e] <= hi[C[y][i]]
              /\ lo[y] <= lo[e]
              /\ hi[e] - lo[e] < hi[y] - lo[y]
    <2>1. Listed(C, ss[i]) /\ lo[C[y][i]] <= lo[e] /\ hi[e] <= hi[C[y][i]]
      BY <1>8 DEF Collected
    <2>2. ss[i] \in Seq(DOMAIN C) BY <2>1 DEF Listed
    <2>3. e \in DOMAIN C BY <2>2 DEF ToSet
    <2>4. e \in Items(C, W) BY <2>3 DEF Items
    <2>5. lo[e] \in Int /\ hi[e] \in Int /\ lo[e] <= hi[e] BY <1>4, <2>4
    <2>6. /\ lo[C[y][i]] \in Int /\ hi[C[y][i]] \in Int
          /\ lo[y] <= lo[C[y][i]]
          /\ hi[C[y][i]] - lo[C[y][i]] < hi[y] - lo[y]
      BY <1>1, <1>4, <1>5
    <2>7. lo[y] \in Int /\ hi[y] \in Int BY <1>4, <1>7
    <2> DEFINE a == lo[C[y][i]]
               b == hi[C[y][i]]
    <2>8. a <= lo[e] /\ hi[e] <= b /\ a \in Int /\ b \in Int /\ lo[y] <= a /\ b - a < hi[y] - lo[y]
      BY <2>1, <2>6
    <2> HIDE DEF a, b
    <2>9. lo[y] <= lo[e] /\ hi[e] - lo[e] < hi[y] - lo[y] BY <2>5, <2>7, <2>8
    <2> QED BY <2>1, <2>3, <2>4, <2>5, <2>9
  <1>10. 1 \in T
    <2>1. 1 \in 1 .. k BY <1>1
    <2>2. Listed(C, g[1]) BY <1>3, <1>8, <2>1 DEF Collected
    <2>3. \A e \in ToSet(g[1]) : /\ lo[y] <= lo[e]
                                 /\ hi[e] <= hi[C[y][1]]
                                 /\ hi[e] - lo[e] < hi[y] - lo[y]
      BY <1>3, <1>9, <2>1
    <2>4. \A i \in 1 .. 1 : C[y][i] \in DOMAIN C => C[y][i] \in ToSet(g[1])
      <3>1. C[y][1] \in DOMAIN C => C[y][1] \in ToSet(ss[1]) BY <1>8, <2>1 DEF Collected
      <3> QED BY <1>3, <3>1
    <2> QED BY <2>1, <2>2, <2>3, <2>4
  <1>11. ASSUME NEW n \in 1 .. k - 1, n \in T PROVE n + 1 \in T
    <2>1. n \in 1 .. k /\ n + 1 \in 1 .. k BY <1>1
    <2>2. Upto(n) BY <1>11
    <2>3. g[n + 1] = g[n] \o ss[n + 1] BY <1>3
    <2>4. Listed(C, g[n]) /\ Listed(C, ss[n + 1]) BY <2>1, <2>2, <1>8 DEF Collected
    <2>5. \A e \in ToSet(g[n]) : e \notin ToSet(ss[n + 1])
      <3> SUFFICES ASSUME NEW e \in ToSet(g[n]), e \in ToSet(ss[n + 1]) PROVE FALSE OBVIOUS
      <3>1. hi[e] <= hi[C[y][n]] BY <2>2
      <3>2. lo[C[y][n + 1]] <= lo[e] /\ lo[e] <= hi[e] /\ lo[e] \in Int /\ hi[e] \in Int
        BY <1>9, <2>1
      <3>3. lo[C[y][n + 1]] = hi[C[y][n]] + 1 BY <1>6
      <3>4. hi[C[y][n]] \in Int BY <1>1, <1>4, <2>1
      <3> QED BY <3>1, <3>2, <3>3, <3>4
    <2>6. Listed(C, g[n + 1]) /\ ToSet(g[n + 1]) = ToSet(g[n]) \cup ToSet(ss[n + 1])
      <3> DEFINE a == g[n]
                 b == ss[n + 1]
      <3>1. Listed(C, a) /\ Listed(C, b) /\ \A e \in ToSet(a) : e \notin ToSet(b) BY <2>4, <2>5
      <3> HIDE DEF a, b
      <3>2. /\ Listed(C, a \o b)
            /\ \A e : e \in ToSet(a \o b) <=> e \in ToSet(a) \/ e \in ToSet(b)
        BY <3>1, ListedConcat
      <3> QED BY <2>3, <3>2 DEF a, b
    <2>7. ASSUME NEW e \in ToSet(g[n + 1])
          PROVE /\ lo[y] <= lo[e]
                /\ hi[e] <= hi[C[y][n + 1]]
                /\ hi[e] - lo[e] < hi[y] - lo[y]
      <3>1. CASE e \in ToSet(g[n])
        <4>1. lo[y] <= lo[e] /\ hi[e] <= hi[C[y][n]] /\ hi[e] - lo[e] < hi[y] - lo[y]
          BY <2>2, <3>1
        <4>2. g[n] \in Seq(DOMAIN C) BY <2>4 DEF Listed
        <4>3. e \in Items(C, W) BY <4>2, <3>1 DEF ToSet, Items
        <4>4. hi[e] \in Int BY <4>3, <1>4
        <4>5. lo[C[y][n + 1]] = hi[C[y][n]] + 1 BY <1>6
        <4>6. /\ hi[C[y][n]] \in Int
              /\ lo[C[y][n + 1]] \in Int /\ hi[C[y][n + 1]] \in Int
              /\ lo[C[y][n + 1]] <= hi[C[y][n + 1]]
          BY <1>1, <1>4, <2>1
        <4>7. hi[e] <= hi[C[y][n + 1]] BY <4>1, <4>4, <4>5, <4>6
        <4> QED BY <4>1, <4>7
      <3>2. CASE e \in ToSet(ss[n + 1]) BY <3>2, <1>9, <2>1
      <3> QED BY <2>6, <3>1, <3>2
    <2>8. ASSUME NEW i \in 1 .. n + 1, C[y][i] \in DOMAIN C PROVE C[y][i] \in ToSet(g[n + 1])
      <3>1. CASE i = n + 1 BY <2>1, <2>6, <2>8, <3>1, <1>8 DEF Collected
      <3>2. CASE i # n + 1
        <4>1. i \in 1 .. n BY <3>2
        <4> QED BY <2>2, <2>6, <2>8, <4>1
      <3> QED BY <3>1, <3>2
    <2> QED BY <2>1, <2>6, <2>7, <2>8
  <1> HIDE DEF T
  <1>12. 1 .. k \subseteq T BY <1>1, <1>10, <1>11, InductionUpTo
  <1>13. k \in 1 .. k BY <1>1
  <1>14. Upto(k) BY <1>12, <1>13 DEF T
  <1> DEFINE s == FlattenSeq(ss)
             t == Append(s, y)
  <1>15. /\ Listed(C, s)
         /\ \A e \in ToSet(s) : /\ lo[y] <= lo[e]
                                /\ hi[e] <= hi[C[y][k]]
                                /\ hi[e] - lo[e] < hi[y] - lo[y]
         /\ \A i \in 1 .. k : C[y][i] \in DOMAIN C => C[y][i] \in ToSet(s)
    BY <1>3, <1>14
  <1> HIDE DEF s
  <1>16. y \notin ToSet(s)
    <2>1. lo[y] \in Int /\ hi[y] \in Int BY <1>4, <1>7
    <2> QED BY <1>15, <2>1
  <1>17. ToSet(C[y]) \cap DOMAIN C \subseteq ToSet(s) BY <1>1, <1>15 DEF ToSet
  <1>18. Listed(C, t) /\ ToSet(t) = ToSet(s) \cup {y} BY <1>15, <1>16, <1>17, ListedAppend
  <1>19. ASSUME NEW e \in ToSet(t) PROVE lo[y] <= lo[e] /\ hi[e] <= hi[y]
    <2>0. lo[y] \in Int /\ hi[y] \in Int BY <1>4, <1>7
    <2>1. CASE e = y BY <2>0, <2>1
    <2>2. CASE e \in ToSet(s)
      <3>1. hi[C[y][k]] = hi[y] BY DEF Tree, Spans, k
      <3> QED BY <1>15, <2>2, <3>1
    <2> QED BY <1>18, <2>1, <2>2
  <1> QED BY <1>18, <1>19 DEF Collected, s, ss

\* Every splitter of a tree is collected once, those inside it before it.
LEMMA SubSplittersListed ==
  ASSUME NEW C, NEW r, NEW W, NEW lo, NEW hi, Tree(C, r, W, lo, hi), Branching(C)
  PROVE Listed(C, SubSplitters(C, r)) /\ ToSet(SubSplitters(C, r)) = DOMAIN C
  <1> DEFINE F == SubMap(C)
             Bad == {d \in Nat : \E y \in Items(C, W) :
                        hi[y] - lo[y] = d /\ ~ Collected(C, lo, hi, y, F[y])}
             s == SubSplitters(C, r)
  <1>1. F = [m \in Int |-> Sub(C, F, m)] BY SubMapEquation
  <1>2. SubSplitters(C, r) = F[r] BY DEF SubSplitters, SubMap, Sub
  <1> HIDE DEF F
  <1>3. \A y \in Items(C, W) : /\ hi[y] - lo[y] \in Nat /\ y \in Int
                               /\ hi[y] \in Int /\ lo[y] \in Int
                               /\ 1 <= lo[y] /\ lo[y] <= hi[y] /\ hi[y] <= Len(W)
    BY ItemsAreNumbers DEF Tree, Spans
  <1>4. ASSUME NEW y \in Items(C, W) PROVE Collected(C, lo, hi, y, F[y])
    <2> SUFFICES ASSUME ~ Collected(C, lo, hi, y, F[y]) PROVE FALSE OBVIOUS
    <2>1. hi[y] - lo[y] \in Bad BY <1>3
    <2>2. PICK d \in Bad : \A e \in Bad : d <= e BY <2>1, LeastElement
    <2>3. PICK x \in Items(C, W) : hi[x] - lo[x] = d /\ ~ Collected(C, lo, hi, x, F[x])
      BY <2>2
    <2>4. CASE x \in DOMAIN C
      <3>1. ASSUME NEW i \in 1 .. Len(C[x])
            PROVE Collected(C, lo, hi, C[x][i], F[C[x][i]])
        <4>1. Shape(C, r, W) /\ Len(C[x]) >= 2 BY <2>4 DEF Tree, Branching
        <4>2. C[x][i] \in Items(C, W) BY <4>1, <2>4, ChildIsItem
        <4>3. hi[C[x][i]] - lo[C[x][i]] < d
          <5>1. hi[C[x][i]] - lo[C[x][i]] < hi[x] - lo[x] BY <2>4, <4>1, ChildSpanSmaller
          <5>2. hi[x] - lo[x] = d BY <2>3
          <5> QED BY <5>1, <5>2
        <4>4. hi[C[x][i]] - lo[C[x][i]] \notin Bad
          <5> DEFINE b == hi[C[x][i]] - lo[C[x][i]]
          <5>1. b \in Nat /\ b < d BY <1>3, <4>2, <4>3
          <5>2. d \in Nat OBVIOUS
          <5> HIDE DEF b, Bad
          <5>3. b \notin Bad BY <2>2, <5>1, <5>2
          <5> QED BY <5>3 DEF b
        <4> QED BY <1>3, <4>2, <4>4
      <3>2. F[x] = Append(FlattenSeq([i \in DOMAIN C[x] |-> F[C[x][i]]]), x)
        BY <1>1, <1>3, <2>4 DEF Sub
      <3> QED BY <2>3, <2>4, <3>1, <3>2, CollectedBelow
    <2>5. CASE x \notin DOMAIN C
      <3>1. F[x] = <<>> BY <1>1, <1>3, <2>5 DEF Sub
      <3>2. Listed(C, <<>>) /\ ToSet(<<>>) = {}
        BY DEF Listed, ChildrenFirst, IsInjective, ToSet
      <3> QED BY <2>3, <2>5, <3>1, <3>2 DEF Collected
    <2> QED BY <2>4, <2>5
  <1>5. Collected(C, lo, hi, r, s) BY <1>2, <1>4 DEF Tree, Shape
  <1>6. Listed(C, s) /\ s \in Seq(DOMAIN C) /\ (r \in DOMAIN C => r \in ToSet(s))
    BY <1>5 DEF Collected, Listed
  <1> HIDE DEF s
  <1>7. ToSet(s) \subseteq DOMAIN C BY <1>6 DEF ToSet
  <1>8. DOMAIN C \subseteq ToSet(s)
    <2> DEFINE Missing == {d \in Nat : \E n \in DOMAIN C \ ToSet(s) : Len(W) - (hi[n] - lo[n]) = d}
    <2> SUFFICES ASSUME NEW n \in DOMAIN C, n \notin ToSet(s) PROVE FALSE OBVIOUS
    <2>1. \A x \in DOMAIN C : x \in Items(C, W) BY DEF Items
    <2>2. Len(W) \in Nat BY DEF Tree, Shape
    <2>3. \A x \in DOMAIN C : Len(W) - (hi[x] - lo[x]) \in Nat
      <3> SUFFICES ASSUME NEW x \in DOMAIN C PROVE Len(W) - (hi[x] - lo[x]) \in Nat OBVIOUS
      <3>1. /\ hi[x] \in Int /\ lo[x] \in Int
            /\ 1 <= lo[x] /\ lo[x] <= hi[x] /\ hi[x] <= Len(W)
        BY <1>3, <2>1
      <3> QED BY <2>2, <3>1
    <2>4. Missing # {} BY <2>3
    <2>5. PICK d \in Missing : \A e \in Missing : d <= e BY <2>4, LeastElement
    <2>6. PICK x \in DOMAIN C \ ToSet(s) : Len(W) - (hi[x] - lo[x]) = d BY <2>5
    <2>7. x # r /\ x \in Items(C, W) \ {r} BY <1>6, <2>1, <2>6
    <2>8. PICK p \in DOMAIN C : \E i \in 1 .. Len(C[p]) : C[p][i] = x BY <2>7 DEF Tree, Shape
    <2>9. PICK i \in 1 .. Len(C[p]) : C[p][i] = x BY <2>8
    <2>10. Len(C[p]) >= 2 /\ DOMAIN C[p] = 1 .. Len(C[p]) BY ChildIsItem, <2>9 DEF Tree, Branching
    <2>11. hi[x] - lo[x] < hi[p] - lo[p] BY <2>9, <2>10, ChildSpanSmaller
    <2>12. p \in ToSet(s)
      <3> SUFFICES ASSUME p \notin ToSet(s) PROVE FALSE OBVIOUS
      <3>1. Len(W) - (hi[p] - lo[p]) \in Missing BY <2>3
      <3>2. d <= Len(W) - (hi[p] - lo[p]) BY <2>5, <3>1
      <3>3. hi[p] \in Int /\ lo[p] \in Int /\ hi[x] \in Int /\ lo[x] \in Int BY <1>3, <2>1, <2>6
      <3> QED BY <2>2, <2>6, <2>11, <3>2, <3>3
    <2>13. PICK j \in 1 .. Len(s) : s[j] = p BY <1>6, <2>12 DEF ToSet
    <2>14. x \in ToSet(C[s[j]]) \cap DOMAIN C BY <2>6, <2>9, <2>10, <2>13 DEF ToSet
    <2>15. PICK m \in 1 .. j - 1 : s[m] = x BY <1>6, <2>14 DEF Listed, ChildrenFirst
    <2>16. m \in DOMAIN s BY <1>6
    <2> QED BY <2>6, <2>15, <2>16 DEF ToSet
  <1> QED BY <1>6, <1>7, <1>8 DEF s

------------------------------------------------------------------------------
(* The tree of widgets.                                                    *)

\* No splitter owns a widget twice.
Kids(kids) ==
    /\ kids = [s \in DOMAIN kids |-> kids[s]]
    /\ IsFiniteSet(DOMAIN kids)
    /\ \A s \in DOMAIN kids : kids[s] \in Seq(Int) /\ IsInjective(kids[s])

\* The widgets of X and those they own.
Wider(kids, X) == X \cup UNION {ToSet(kids[s]) : s \in X \cap DOMAIN kids}

Under(kids, w) == IF w \in DOMAIN kids THEN ToSet(kids[w]) ELSE {}

Reach(kids, w) ==
    CHOOSE f : f = [i \in 0 .. Cardinality(DOMAIN kids) |->
                      IF i = 0 THEN {w} ELSE Wider(kids, f[i - 1])]

\* A widget whose children own nothing owns only them.
LEMMA OwnedShallow ==
  ASSUME NEW kids, IsFiniteSet(DOMAIN kids), NEW w, Under(kids, w) \cap DOMAIN kids \subseteq {w}
  PROVE Owned(kids, w) = {w} \cup Under(kids, w)
  <1> DEFINE N == Cardinality(DOMAIN kids)
             Y == {w} \cup Under(kids, w)
             h == [i \in 0 .. N |-> IF i = 0 THEN {w} ELSE Y]
             F == Reach(kids, w)
  <1>1. N \in Nat BY FS_CardinalityType
  <1>2. Wider(kids, {w}) = Y
    <2>1. CASE w \in DOMAIN kids
      <3>1. {w} \cap DOMAIN kids = {w} BY <2>1
      <3>2. UNION {ToSet(kids[s]) : s \in {w}} = ToSet(kids[w]) OBVIOUS
      <3> QED BY <2>1, <3>1, <3>2 DEF Wider, Under
    <2>2. CASE w \notin DOMAIN kids
      <3>1. {w} \cap DOMAIN kids = {} BY <2>2
      <3> QED BY <2>2, <3>1 DEF Wider, Under
    <2> QED BY <2>1, <2>2
  <1>3. Wider(kids, Y) = Y
    <2>1. CASE w \in DOMAIN kids
      <3>1. Y \cap DOMAIN kids = {w} BY <2>1
      <3>2. UNION {ToSet(kids[s]) : s \in {w}} = ToSet(kids[w]) OBVIOUS
      <3>3. Under(kids, w) = ToSet(kids[w]) BY <2>1 DEF Under
      <3> HIDE DEF Y
      <3>4. Wider(kids, Y) = Y \cup ToSet(kids[w]) BY <3>1, <3>2 DEF Wider
      <3> QED BY <3>3, <3>4 DEF Y
    <2>2. CASE w \notin DOMAIN kids
      <3>1. Y = {w} BY <2>2 DEF Under
      <3> QED BY <1>2, <3>1
    <2> QED BY <2>1, <2>2
  <1> HIDE DEF Y
  <1>4. \A i \in 0 .. N : h[i] = IF i = 0 THEN {w} ELSE Wider(kids, h[i - 1])
    <2> SUFFICES ASSUME NEW i \in 0 .. N, i # 0 PROVE h[i] = Wider(kids, h[i - 1]) OBVIOUS
    <2>1. i - 1 \in 0 .. N BY <1>1
    <2>2. h[i - 1] = {w} \/ h[i - 1] = Y BY <2>1
    <2> HIDE DEF N
    <2>3. Wider(kids, h[i - 1]) = Y BY <1>2, <1>3, <2>2
    <2>4. h[i] = Y OBVIOUS
    <2> QED BY <2>3, <2>4
  <1>5. h = [i \in 0 .. N |-> IF i = 0 THEN {w} ELSE Wider(kids, h[i - 1])]
    <2>1. h = [i \in 0 .. N |-> h[i]] OBVIOUS
    <2> HIDE DEF h
    <2> QED BY <1>4, <2>1
  <1> HIDE DEF h
  <1>6. F = [i \in 0 .. N |-> IF i = 0 THEN {w} ELSE Wider(kids, F[i - 1])]
    BY <1>5 DEF Reach
  <1>7. Owned(kids, w) = F[N] BY DEF Owned, Reach, Wider
  <1> DEFINE S == {n \in Nat : n <= N => F[n] = IF n = 0 THEN {w} ELSE Y}
  <1> HIDE DEF F, N
  <1>8. 0 \in S
    <2>1. 0 \in 0 .. N BY <1>1
    <2>2. F[0] = {w} BY <1>6, <2>1
    <2> QED BY <2>2
  <1>9. ASSUME NEW n \in Nat, n \in S PROVE n + 1 \in S
    <2> SUFFICES ASSUME n + 1 <= N PROVE F[n + 1] = Y OBVIOUS
    <2>1. n + 1 \in 0 .. N /\ n + 1 # 0 /\ (n + 1) - 1 = n /\ n <= N BY <1>1
    <2>2. F[n + 1] = Wider(kids, F[n]) BY <1>6, <2>1
    <2>3. F[n] = {w} \/ F[n] = Y BY <1>9, <2>1
    <2> QED BY <1>2, <1>3, <2>2, <2>3
  <1> HIDE DEF S
  <1>10. Nat \subseteq S BY <1>8, <1>9, InductionSet
  <1>11. F[N] = IF N = 0 THEN {w} ELSE Y BY <1>1, <1>10 DEF S
  <1>12. CASE N = 0
    <2>1. DOMAIN kids = {} BY <1>12, FS_EmptySet DEF N
    <2>2. Under(kids, w) = {} BY <2>1 DEF Under
    <2> QED BY <1>7, <1>11, <1>12, <2>2
  <1>13. CASE N # 0 BY <1>7, <1>11, <1>13 DEF Y
  <1> QED BY <1>12, <1>13

\* A widget taken from its owner.
LEMMA DetachKids ==
  ASSUME NEW kids, Kids(kids), NEW w
  PROVE /\ Kids(Detach(kids, w))
        /\ DOMAIN Detach(kids, w) = DOMAIN kids
        /\ \A s \in DOMAIN kids :
              /\ ToSet(Detach(kids, w)[s]) = ToSet(kids[s]) \ {w}
              /\ Detach(kids, w)[s] = RemoveFirst(kids[s], w)
              /\ w \notin ToSet(kids[s]) => Detach(kids, w)[s] = kids[s]
              /\ w \in ToSet(kids[s]) => Len(Detach(kids, w)[s]) = Len(kids[s]) - 1
  <1> DEFINE d == Detach(kids, w)
  <1>1. d = [s \in DOMAIN kids |-> RemoveFirst(kids[s], w)] BY DEF Detach
  <1>2. ASSUME NEW s \in DOMAIN kids
        PROVE /\ d[s] \in Seq(Int) /\ IsInjective(d[s])
              /\ ToSet(d[s]) = ToSet(kids[s]) \ {w}
              /\ d[s] = RemoveFirst(kids[s], w)
              /\ w \notin ToSet(kids[s]) => d[s] = kids[s]
              /\ w \in ToSet(kids[s]) => Len(d[s]) = Len(kids[s]) - 1
    <2> DEFINE k == kids[s]
    <2>1. k \in Seq(Int) /\ IsInjective(k) BY DEF Kids
    <2>2. d[s] = RemoveFirst(k, w) BY <1>1
    <2> HIDE DEF k
    <2>3. /\ RemoveFirst(k, w) \in Seq(Int)
          /\ ToSet(RemoveFirst(k, w)) = ToSet(k) \ {w}
          /\ IsInjective(RemoveFirst(k, w))
          /\ w \in ToSet(k) => Len(RemoveFirst(k, w)) = Len(k) - 1
          /\ w \notin ToSet(k) => RemoveFirst(k, w) = k
      BY <2>1, RemoveFirstElements
    <2> QED BY <2>2, <2>3 DEF k
  <1>3. DOMAIN d = DOMAIN kids BY <1>1
  <1>4. Kids(d)
    <2>1. d = [s \in DOMAIN d |-> d[s]] BY <1>1
    <2>2. IsFiniteSet(DOMAIN d) BY <1>3 DEF Kids
    <2> QED BY <1>2, <1>3, <2>1, <2>2 DEF Kids
  <1> QED BY <1>2, <1>3, <1>4

\* The widgets of base without those of G.
Without(kids, base, G) ==
    /\ Kids(kids)
    /\ DOMAIN kids = DOMAIN base \ G
    /\ \A s \in DOMAIN kids : ToSet(kids[s]) = ToSet(base[s]) \ G

\* What is destroyed with a widget.
LEMMA DestroyOne ==
  ASSUME NEW f, NEW w, Kids(f.kids), w \in Widgets(f.kids),
         Under(f.kids, w) \cap DOMAIN f.kids \subseteq {w}
  PROVE Destroy(f, w) = [f EXCEPT !.kids = Drop(Detach(f.kids, w), {w} \cup Under(f.kids, w))]
  <1>1. Owned(f.kids, w) = {w} \cup Under(f.kids, w) BY OwnedShallow DEF Kids
  <1> QED BY <1>1 DEF Destroy

\* A record with the fields of the frame.
IsFrame(f) ==
    f = [root |-> f.root, children |-> f.children, orient |-> f.orient,
         windows |-> f.windows, current |-> f.current, buffer |-> f.buffer,
         map |-> f.map, kids |-> f.kids, made |-> f.made, twice |-> f.twice]

LEMMA KidsOfFrame ==
  ASSUME NEW f, IsFrame(f), NEW a, NEW b
  PROVE /\ [f EXCEPT !.kids = f.kids] = f
        /\ [f EXCEPT !.kids = a].kids = a
        /\ [[f EXCEPT !.kids = a] EXCEPT !.kids = b] = [f EXCEPT !.kids = b]
  <1>1. "kids" \in DOMAIN f /\ f = [x \in DOMAIN f |-> f[x]]
    <2> DEFINE g == [root |-> f.root, children |-> f.children, orient |-> f.orient,
                     windows |-> f.windows, current |-> f.current, buffer |-> f.buffer,
                     map |-> f.map, kids |-> f.kids, made |-> f.made, twice |-> f.twice]
    <2>1. "kids" \in DOMAIN g /\ g = [x \in DOMAIN g |-> g[x]] OBVIOUS
    <2>2. f = g BY DEF IsFrame
    <2> HIDE DEF g
    <2> QED BY <2>1, <2>2
  <1>2. [f EXCEPT !.kids = f.kids] = f BY <1>1
  <1>3. [f EXCEPT !.kids = a].kids = a BY <1>1
  <1>4. [[f EXCEPT !.kids = a] EXCEPT !.kids = b] = [f EXCEPT !.kids = b] BY <1>1
  <1> QED BY <1>2, <1>3, <1>4

LEMMA KidsTwice ==
  ASSUME NEW f, IsFrame(f), NEW a, NEW b
  PROVE [[f EXCEPT !.kids = a] EXCEPT !.kids = b] = [f EXCEPT !.kids = b]
  BY KidsOfFrame

LEMMA DropKids ==
  ASSUME NEW kids, Kids(kids), NEW X
  PROVE /\ Kids(Drop(kids, X))
        /\ DOMAIN Drop(kids, X) = DOMAIN kids \ X
        /\ \A s \in DOMAIN kids \ X : Drop(kids, X)[s] = kids[s]
  <1>1. DOMAIN Drop(kids, X) = DOMAIN kids \ X BY DEF Drop
  <1>2. \A s \in DOMAIN kids \ X : Drop(kids, X)[s] = kids[s] BY DEF Drop
  <1>3. IsFiniteSet(DOMAIN kids \ X) BY FS_Difference DEF Kids
  <1>4. Drop(kids, X) = [s \in DOMAIN Drop(kids, X) |-> Drop(kids, X)[s]] BY DEF Drop
  <1> QED BY <1>1, <1>2, <1>3, <1>4 DEF Kids

\* DestroyAll destroys the widgets of its list one after the other.
LEMMA DestroyAllSteps ==
  ASSUME NEW f, NEW ws, Len(ws) \in Nat
  PROVE \E after : /\ after[0] = f
                   /\ \A i \in 1 .. Len(ws) : after[i] = Destroy(after[i - 1], ws[i])
                   /\ DestroyAll(f, ws) = after[Len(ws)]
  <1> DEFINE N == Len(ws)
             Steps(n, g) == g[0] = f /\ \A i \in 1 .. n : g[i] = Destroy(g[i - 1], ws[i])
             S == {n \in Nat : \E g : Steps(n, g)}
  <1>1. 0 \in S
    <2> DEFINE g == [i \in 0 .. 0 |-> f]
    <2>1. g[0] = f OBVIOUS
    <2>2. \A i \in 1 .. 0 : FALSE OBVIOUS
    <2>3. Steps(0, g) BY <2>1, <2>2
    <2> HIDE DEF g
    <2> QED BY <2>3
  <1>2. ASSUME NEW n \in Nat, n \in S PROVE n + 1 \in S
    <2>1. PICK g : Steps(n, g) BY <1>2
    <2> DEFINE d == Destroy(g[n], ws[n + 1])
               h == [i \in 0 .. n + 1 |-> IF i = n + 1 THEN d ELSE g[i]]
    <2> HIDE DEF d
    <2>2. \A i \in 0 .. n : h[i] = g[i] OBVIOUS
    <2>3. h[n + 1] = d OBVIOUS
    <2>4. h[0] = f BY <2>1, <2>2
    <2> HIDE DEF h
    <2>5. ASSUME NEW i \in 1 .. n + 1 PROVE h[i] = Destroy(h[i - 1], ws[i])
      <3>1. i - 1 \in 0 .. n /\ h[i - 1] = g[i - 1] BY <2>2
      <3>2. CASE i = n + 1
        <4>1. i - 1 = n BY <3>2
        <4> QED BY <2>3, <3>1, <3>2, <4>1 DEF d
      <3>3. CASE i # n + 1
        <4>1. i \in 1 .. n /\ i \in 0 .. n BY <3>3
        <4>2. h[i] = g[i] BY <2>2, <4>1
        <4>3. g[i] = Destroy(g[i - 1], ws[i]) BY <2>1, <4>1
        <4> QED BY <3>1, <4>2, <4>3
      <3> QED BY <3>2, <3>3
    <2>6. Steps(n + 1, h) BY <2>4, <2>5
    <2> QED BY <2>6
  <1> HIDE DEF S
  <1>3. Nat \subseteq S BY <1>1, <1>2, InductionSet
  <1>4. PICK g : Steps(N, g) BY <1>3 DEF S
  <1> DEFINE F == CHOOSE after : after = [i \in 0 .. N |->
                      IF i = 0 THEN f ELSE Destroy(after[i - 1], ws[i])]
             h == [i \in 0 .. N |-> g[i]]
  <1>5. h = [i \in 0 .. N |-> IF i = 0 THEN f ELSE Destroy(h[i - 1], ws[i])]
    <2>1. \A i \in 0 .. N : h[i] = IF i = 0 THEN f ELSE Destroy(h[i - 1], ws[i])
      <3> SUFFICES ASSUME NEW i \in 0 .. N
                   PROVE h[i] = IF i = 0 THEN f ELSE Destroy(h[i - 1], ws[i])
        OBVIOUS
      <3>1. CASE i = 0 BY <1>4, <3>1
      <3>2. CASE i # 0
        <4>1. i \in 1 .. N /\ i - 1 \in 0 .. N BY <3>2
        <4>2. h[i] = g[i] /\ h[i - 1] = g[i - 1] BY <4>1
        <4> HIDE DEF h
        <4> QED BY <1>4, <3>2, <4>1, <4>2
      <3> QED BY <3>1, <3>2
    <2>2. h = [i \in 0 .. N |-> h[i]] OBVIOUS
    <2> HIDE DEF h
    <2> QED BY <2>1, <2>2
  <1> HIDE DEF h
  <1>6. F = [i \in 0 .. N |-> IF i = 0 THEN f ELSE Destroy(F[i - 1], ws[i])] BY <1>5
  <1>7. DestroyAll(f, ws) = F[Len(ws)] BY DEF DestroyAll
  <1> HIDE DEF F
  <1>8. F[0] = f
    <2>1. 0 \in 0 .. N OBVIOUS
    <2> QED BY <1>6, <2>1
  <1>9. ASSUME NEW i \in 1 .. N PROVE F[i] = Destroy(F[i - 1], ws[i])
    <2>1. i \in 0 .. N /\ i # 0 OBVIOUS
    <2> QED BY <1>6, <2>1
  <1> QED BY <1>7, <1>8, <1>9

\* When each of them owns only what was destroyed before it, exactly they go.
LEMMA DestroyAllWithout ==
  ASSUME NEW f, IsFrame(f), Kids(f.kids), NEW ws \in Seq(Int), IsInjective(ws),
         \A i \in 1 .. Len(ws) :
            /\ \E s \in DOMAIN f.kids : /\ ws[i] \in ToSet(f.kids[s])
                                        /\ \A j \in 1 .. i - 1 : ws[j] # s
            /\ \A x \in Under(f.kids, ws[i]) : \E j \in 1 .. i - 1 : ws[j] = x
  PROVE \E kids : DestroyAll(f, ws) = [f EXCEPT !.kids = kids] /\ Without(kids, f.kids, ToSet(ws))
  <1> DEFINE N == Len(ws)
             K == f.kids
             Gone(n) == {ws[j] : j \in 1 .. n}
  <1>1. N \in Nat /\ DOMAIN ws = 1 .. N OBVIOUS
  <1>2. PICK after : /\ after[0] = f
                     /\ \A i \in 1 .. N : after[i] = Destroy(after[i - 1], ws[i])
                     /\ DestroyAll(f, ws) = after[N]
    BY <1>1, DestroyAllSteps
  <1> DEFINE Done(n) == \E kids : after[n] = [f EXCEPT !.kids = kids] /\ Without(kids, K, Gone(n))
             S == {n \in Nat : n <= N => Done(n)}
  <1>3. 0 \in S
    <2>1. Gone(0) = {} OBVIOUS
    <2>2. Without(K, K, Gone(0)) BY <2>1 DEF Without
    <2>3. after[0] = [f EXCEPT !.kids = K] BY <1>2, KidsOfFrame
    <2>4. Done(0) BY <2>2, <2>3
    <2> QED BY <2>4
  <1>4. ASSUME NEW n \in Nat, n \in S PROVE n + 1 \in S
    <2>0. SUFFICES ASSUME n + 1 <= N PROVE Done(n + 1)
      <3> HIDE DEF Done, N
      <3> QED OBVIOUS
    <2>1. n <= N /\ n + 1 \in 1 .. N /\ (n + 1) - 1 = n BY <1>1, <2>0
    <2>2. PICK kids : after[n] = [f EXCEPT !.kids = kids] /\ Without(kids, K, Gone(n))
      BY <1>4, <2>1
    <2> DEFINE w == ws[n + 1]
               g == after[n]
               G == Gone(n)
    <2>3. g.kids = kids
      <3>1. [f EXCEPT !.kids = kids].kids = kids BY KidsOfFrame
      <3> QED BY <2>2, <3>1
    <2>4. after[n + 1] = Destroy(g, w) BY <1>2, <2>1
    <2>5. PICK s \in DOMAIN K : w \in ToSet(K[s]) /\ \A j \in 1 .. n : ws[j] # s BY <2>1
    <2>6. \A x \in Under(K, w) : \E j \in 1 .. n : ws[j] = x BY <2>1
    <2>7. w \notin G
      <3> SUFFICES ASSUME NEW j \in 1 .. n, ws[j] = w PROVE FALSE OBVIOUS
      <3>1. j \in DOMAIN ws /\ n + 1 \in DOMAIN ws /\ j # n + 1 BY <1>1, <2>1
      <3> QED BY <3>1 DEF IsInjective
    <2>8. s \notin G BY <2>5
    <2>9. Under(K, w) \subseteq G BY <2>6
    <2>10. Gone(n + 1) = G \cup {w}
      <3>1. \A j \in 1 .. n + 1 : j \in 1 .. n \/ j = n + 1 OBVIOUS
      <3>2. \A j \in 1 .. n : j \in 1 .. n + 1 OBVIOUS
      <3>3. n + 1 \in 1 .. n + 1 OBVIOUS
      <3>4. Gone(n + 1) \subseteq G \cup {w} BY <3>1
      <3>5. G \subseteq Gone(n + 1) BY <3>2
      <3>6. w \in Gone(n + 1) BY <3>3
      <3> QED BY <3>4, <3>5, <3>6
    <2> HIDE DEF w, G, K, g
    <2>11. Kids(kids) /\ DOMAIN kids = DOMAIN K \ G
           /\ \A x \in DOMAIN kids : ToSet(kids[x]) = ToSet(K[x]) \ G
      BY <2>2 DEF Without, G
    <2>12. Under(kids, w) = {}
      <3>1. CASE w \in DOMAIN kids
        <4>1. ToSet(kids[w]) = ToSet(K[w]) \ G /\ w \in DOMAIN K BY <2>11, <3>1
        <4>2. Under(K, w) = ToSet(K[w]) BY <4>1 DEF Under
        <4> QED BY <2>9, <3>1, <4>1, <4>2 DEF Under
      <3>2. CASE w \notin DOMAIN kids BY <3>2 DEF Under
      <3> QED BY <3>1, <3>2
    <2>13. w \in Widgets(kids)
      <3>1. s \in DOMAIN kids /\ w \in ToSet(kids[s]) BY <2>5, <2>7, <2>8, <2>11
      <3> QED BY <3>1 DEF Widgets
    <2> DEFINE d == Detach(kids, w)
               k2 == Drop(d, {w})
    <2>14. Destroy(g, w) = [g EXCEPT !.kids = k2]
      <3>1. Kids(g.kids) /\ w \in Widgets(g.kids) BY <2>3, <2>11, <2>13
      <3>2. Under(g.kids, w) \cap DOMAIN g.kids \subseteq {w} BY <2>3, <2>12
      <3>3. Destroy(g, w) = [g EXCEPT !.kids = Drop(Detach(g.kids, w), {w} \cup Under(g.kids, w))]
        BY <3>1, <3>2, DestroyOne
      <3>4. {w} \cup Under(g.kids, w) = {w} BY <2>3, <2>12
      <3> QED BY <2>3, <3>3, <3>4
    <2>15. after[n + 1] = [f EXCEPT !.kids = k2]
      <3>1. g = [f EXCEPT !.kids = kids] BY <2>2 DEF g
      <3> HIDE DEF k2
      <3>2. IsFrame(f) OBVIOUS
      <3>3. [[f EXCEPT !.kids = kids] EXCEPT !.kids = k2] = [f EXCEPT !.kids = k2]
        BY <3>2, KidsTwice
      <3>4. [g EXCEPT !.kids = k2] = [f EXCEPT !.kids = k2] BY <3>1, <3>3
      <3> QED BY <2>4, <2>14, <3>4
    <2>16. Kids(d) /\ DOMAIN d = DOMAIN kids
           /\ \A x \in DOMAIN kids : ToSet(d[x]) = ToSet(kids[x]) \ {w}
      BY <2>11, DetachKids
    <2> HIDE DEF d
    <2>17. Kids(k2) /\ DOMAIN k2 = DOMAIN d \ {w} /\ \A x \in DOMAIN d \ {w} : k2[x] = d[x]
      BY <2>16, DropKids
    <2> HIDE DEF k2
    <2>18. DOMAIN k2 = DOMAIN K \ (G \cup {w}) BY <2>11, <2>16, <2>17
    <2>19. ASSUME NEW x \in DOMAIN k2 PROVE ToSet(k2[x]) = ToSet(K[x]) \ (G \cup {w})
      <3>1. x \in DOMAIN d \ {w} /\ x \in DOMAIN kids BY <2>16, <2>17
      <3>2. k2[x] = d[x] BY <2>17, <3>1
      <3>3. ToSet(d[x]) = ToSet(kids[x]) \ {w} BY <2>16, <3>1
      <3>4. ToSet(kids[x]) = ToSet(K[x]) \ G BY <2>11, <3>1
      <3> QED BY <3>2, <3>3, <3>4
    <2>20. Without(k2, K, Gone(n + 1)) BY <2>10, <2>17, <2>18, <2>19 DEF Without
    <2> QED BY <2>15, <2>20
  <1> HIDE DEF S
  <1>5. Nat \subseteq S BY <1>3, <1>4, InductionSet
  <1>6. Done(N)
    <2> HIDE DEF Done, N
    <2>1. N \in S /\ N <= N BY <1>1, <1>5
    <2> QED BY <2>1 DEF S
  <1>7. Gone(N) = ToSet(ws) BY <1>1 DEF ToSet
  <1> QED BY <1>2, <1>6, <1>7

LEMMA AddWidgetKids ==
  ASSUME NEW kids, Kids(kids), NEW s \in DOMAIN kids, NEW w \in Int
  PROVE /\ Kids(AddWidget(kids, s, w))
        /\ DOMAIN AddWidget(kids, s, w) = DOMAIN kids
        /\ AddWidget(kids, s, w)[s] = Append(RemoveFirst(kids[s], w), w)
        /\ \A n \in DOMAIN kids \ {s} : AddWidget(kids, s, w)[n] = RemoveFirst(kids[n], w)
  <1> DEFINE d == Detach(kids, w)
             a == AddWidget(kids, s, w)
             e == w
  <1>1. /\ Kids(d) /\ DOMAIN d = DOMAIN kids
        /\ \A n \in DOMAIN kids : d[n] = RemoveFirst(kids[n], w)
        /\ ToSet(d[s]) = ToSet(kids[s]) \ {e}
    BY DetachKids
  <1>2. a = [d EXCEPT ![s] = Append(d[s], e)] BY DEF AddWidget
  <1> HIDE DEF d, a
  <1>3. DOMAIN a = DOMAIN kids /\ a[s] = Append(d[s], e)
        /\ \A n \in DOMAIN kids \ {s} : a[n] = d[n]
    BY <1>1, <1>2
  <1>4. Append(d[s], e) \in Seq(Int) /\ IsInjective(Append(d[s], e))
    <2> DEFINE x == d[s]
    <2>1. x \in Seq(Int) /\ IsInjective(x) /\ e \notin ToSet(x) /\ e \in Int BY <1>1 DEF Kids
    <2> HIDE DEF x, e
    <2>2. Append(x, e) \in Seq(Int) /\ IsInjective(Append(x, e)) BY <2>1, AppendElements
    <2> QED BY <2>2 DEF x
  <1>5. Kids(a)
    <2>1. a = [n \in DOMAIN a |-> a[n]] BY <1>2
    <2>2. IsFiniteSet(DOMAIN a) BY <1>3 DEF Kids
    <2>3. \A n \in DOMAIN a : a[n] \in Seq(Int) /\ IsInjective(a[n])
      BY <1>1, <1>3, <1>4 DEF Kids
    <2> QED BY <2>1, <2>2, <2>3 DEF Kids
  <1> QED BY <1>1, <1>3, <1>5 DEF a

LEMMA InsertWidgetKids ==
  ASSUME NEW kids, Kids(kids), NEW s \in DOMAIN kids, NEW i \in 1 .. Len(kids[s]) + 1, NEW w \in Int,
         w \notin ToSet(kids[s])
  PROVE /\ Kids(InsertWidget(kids, s, i, w))
        /\ DOMAIN InsertWidget(kids, s, i, w) = DOMAIN kids
        /\ InsertWidget(kids, s, i, w)[s] = InsertAt(kids[s], i, w)
        /\ \A n \in DOMAIN kids \ {s} : InsertWidget(kids, s, i, w)[n] = RemoveFirst(kids[n], w)
  <1> DEFINE d == Detach(kids, w)
             a == InsertWidget(kids, s, i, w)
             e == w
             j == i
             x == kids[s]
  <1>1. /\ Kids(d) /\ DOMAIN d = DOMAIN kids
        /\ \A n \in DOMAIN kids : d[n] = RemoveFirst(kids[n], w)
        /\ d[s] = x
    BY DetachKids
  <1>2. a = [d EXCEPT ![s] = InsertAt(d[s], j, e)] BY DEF InsertWidget
  <1>3. x \in Seq(Int) /\ IsInjective(x) /\ e \notin ToSet(x) /\ e \in Int
        /\ j \in 1 .. Len(x) + 1
    BY DEF Kids
  <1> HIDE DEF d, a, x, j, e
  <1>5. DOMAIN a = DOMAIN kids /\ a[s] = InsertAt(x, j, e)
        /\ \A n \in DOMAIN kids \ {s} : a[n] = d[n]
    BY <1>1, <1>2
  <1>6. InsertAt(x, j, e) \in Seq(Int) /\ IsInjective(InsertAt(x, j, e))
    <2>1. InsertAt(x, j, e) \in Seq(Int) BY <1>3, InsertAtElements
    <2>2. IsInjective(InsertAt(x, j, e)) BY <1>3, InsertAtInjective
    <2> QED BY <2>1, <2>2
  <1>7. Kids(a)
    <2>1. a = [n \in DOMAIN a |-> a[n]] BY <1>2
    <2>2. IsFiniteSet(DOMAIN a) BY <1>5 DEF Kids
    <2>3. \A n \in DOMAIN a : a[n] \in Seq(Int) /\ IsInjective(a[n])
      BY <1>1, <1>5, <1>6 DEF Kids
    <2> QED BY <2>1, <2>2, <2>3 DEF Kids
  <1> QED BY <1>1, <1>5, <1>7 DEF a, x, j, e

------------------------------------------------------------------------------
(* The invariant of a frame.                                               *)

\* The widgets on the screen are those of the tree.
Mirrors(kids, C, r) ==
    /\ Kids(kids)
    /\ DOMAIN kids = DOMAIN C \cup {Root}
    /\ kids[Root] = <<r>>
    /\ \A n \in DOMAIN C : Len(kids[n]) = Len(C[n]) /\ ToSet(kids[n]) = ToSet(C[n])

\* The invariant of a frame.
FrameOK(f) ==
    /\ IsFrame(f)
    /\ LeavesAre(f.children, f.root, f.windows)
    /\ Oriented(f.children, f.orient)
    /\ Numbered(f.children, f.windows, f.made)
    /\ f.current \in 0 .. Len(f.windows) - 1
    /\ f.buffer \in [ToSet(f.windows) -> Buffers]
    /\ f.map = ToSet(f.windows)
    /\ Mirrors(f.kids, f.children, f.root)
    /\ f.twice = FALSE

\* What it says of the list of windows.
LEMMA FrameShape ==
  ASSUME NEW f, FrameOK(f)
  PROVE /\ Shape(f.children, f.root, f.windows)
        /\ Branching(f.children)
        /\ f.windows = Flatten(f.children, f.root)
        /\ f.windows \in Seq(Nat \ {0})
        /\ IsInjective(f.windows)
        /\ DOMAIN f.windows = 1 .. Len(f.windows)
        /\ Len(f.windows) \in Nat \ {0}
        /\ f.current + 1 \in 1 .. Len(f.windows)
        /\ Current(f) \in ToSet(f.windows)
        /\ Current(f) = f.windows[f.current + 1]
  <1>1. PICK lo, hi : Tree(f.children, f.root, f.windows, lo, hi) BY DEF FrameOK, LeavesAre
  <1>2. Shape(f.children, f.root, f.windows) BY <1>1 DEF Tree
  <1>3. Branching(f.children) BY DEF FrameOK, LeavesAre
  <1>4. f.windows = Flatten(f.children, f.root) BY <1>1, <1>3, FlattenTree
  <1>5. IsInjective(f.windows) BY <1>1, WindowsInjective
  <1>6. f.windows \in Seq(Nat \ {0}) BY <1>2 DEF Shape
  <1>7. DOMAIN f.windows = 1 .. Len(f.windows) /\ Len(f.windows) \in Nat BY <1>6
  <1>8. f.current \in 0 .. Len(f.windows) - 1 BY DEF FrameOK
  <1>9. f.current + 1 \in 1 .. Len(f.windows) /\ Len(f.windows) # 0 BY <1>7, <1>8
  <1>10. Current(f) \in ToSet(f.windows) BY <1>7, <1>9 DEF Current, ToSet
  <1> QED BY <1>2, <1>3, <1>4, <1>5, <1>6, <1>7, <1>9, <1>10 DEF Current

\* Every widget below the root splitter is an item of the tree.
LEMMA MirroredWidget ==
  ASSUME NEW C, NEW r, NEW W, Shape(C, r, W), NEW kids, Mirrors(kids, C, r),
         NEW x, x \notin Items(C, W)
  PROVE \A s \in DOMAIN kids : x \notin ToSet(kids[s])
  <1> SUFFICES ASSUME NEW s \in DOMAIN kids, x \in ToSet(kids[s]) PROVE FALSE OBVIOUS
  <1>1. CASE s = Root
    <2>1. ToSet(<<r>>) = {r} BY DEF ToSet
    <2>2. kids[Root] = <<r>> BY DEF Mirrors
    <2>3. r \in Items(C, W) BY DEF Shape
    <2> QED BY <1>1, <2>1, <2>2, <2>3
  <1>2. CASE s # Root
    <2>1. s \in DOMAIN C /\ x \in ToSet(C[s]) BY <1>2 DEF Mirrors
    <2>2. PICK i \in DOMAIN C[s] : C[s][i] = x BY <2>1 DEF ToSet
    <2>3. i \in 1 .. Len(C[s]) BY <2>1, <2>2, ChildrenInjective
    <2> QED BY <2>1, <2>2, <2>3, ChildIsItem
  <1> QED BY <1>1, <1>2

\* A widget is in one splitter: that of its parent, or the root splitter.
LEMMA MirroredOnce ==
  ASSUME NEW C, NEW r, NEW W, Shape(C, r, W), NEW kids, Mirrors(kids, C, r),
         NEW x \in Items(C, W)
  PROVE LET outer == IF Parents(C, x) = {} THEN Root ELSE CHOOSE p \in Parents(C, x) : TRUE IN
        /\ outer \in DOMAIN kids
        /\ x \in ToSet(kids[outer])
        /\ \A s \in DOMAIN kids \ {outer} : x \notin ToSet(kids[s])
        /\ x = r => outer = Root
        /\ x # r => outer \in DOMAIN C /\ Parents(C, x) = {outer} /\ x \in ToSet(C[outer])
  <1> DEFINE outer == IF Parents(C, x) = {} THEN Root ELSE CHOOSE p \in Parents(C, x) : TRUE
  <1>0. ToSet(<<r>>) = {r} BY DEF ToSet
  <1>1. Root \in DOMAIN kids /\ ToSet(kids[Root]) = {r} BY <1>0 DEF Mirrors
  <1>2. Root \notin DOMAIN C BY DEF Shape, Root
  <1>3. \A s \in DOMAIN kids \ {Root} : s \in DOMAIN C /\ ToSet(kids[s]) = ToSet(C[s])
    BY DEF Mirrors
  <1>4. CASE x = r
    <2>1. Parents(C, x) = {} BY <1>4, ParentsOfRoot
    <2>2. outer = Root BY <2>1
    <2>3. \A s \in DOMAIN kids \ {Root} : x \notin ToSet(kids[s]) BY <1>3, <2>1 DEF Parents
    <2> QED BY <1>1, <1>4, <2>2, <2>3
  <1>5. CASE x # r
    <2>1. PICK p \in DOMAIN C : \E q \in 1 .. Len(C[p]) :
             C[p][q] = x /\ Parents(C, x) = {p} /\ q \in DOMAIN C[p]
      BY <1>5, ParentExists
    <2>2. outer = p /\ Parents(C, x) = {p} BY <2>1
    <2>3. x \in ToSet(C[p]) BY <2>1 DEF ToSet
    <2>4. p \in DOMAIN kids /\ p # Root BY <1>2 DEF Mirrors
    <2>5. x \in ToSet(kids[p]) BY <1>3, <2>3, <2>4
    <2>6. \A s \in DOMAIN kids \ {p} : x \notin ToSet(kids[s])
      <3> SUFFICES ASSUME NEW s \in DOMAIN kids \ {p}, x \in ToSet(kids[s]) PROVE FALSE OBVIOUS
      <3>1. CASE s = Root BY <1>1, <1>5, <3>1
      <3>2. CASE s # Root
        <4>1. s \in Parents(C, x) BY <1>3, <3>2 DEF Parents
        <4> QED BY <2>2, <4>1
      <3> QED BY <3>1, <3>2
    <2> QED BY <1>5, <2>2, <2>3, <2>4, <2>5, <2>6
  <1> QED BY <1>4, <1>5

------------------------------------------------------------------------------
(* A split.                                                                *)

LEMMA NewBufferKnown ==
  ASSUME NEW f, FrameOK(f)
  PROVE NewBuffer(f) \in Buffers
  <1>1. f.buffer[Current(f)] \in Buffers BY FrameShape DEF FrameOK
  <1>2. Scratch \in Buffers BY QtFrameAssumption
  <1> QED BY <1>1, <1>2 DEF NewBuffer

\* The record of a frame, opaque to the provers where only its fields matter.
Made(root, children, orient, windows, current, buffer, map, kids, made, twice) ==
    [root |-> root, children |-> children, orient |-> orient, windows |-> windows,
     current |-> current, buffer |-> buffer, map |-> map, kids |-> kids, made |-> made,
     twice |-> twice]

LEMMA MadeFields ==
  ASSUME NEW r, NEW c, NEW o, NEW w, NEW u, NEW b, NEW p, NEW k, NEW m, NEW t
  PROVE LET g == Made(r, c, o, w, u, b, p, k, m, t) IN
        /\ IsFrame(g)
        /\ g.root = r /\ g.children = c /\ g.orient = o /\ g.windows = w /\ g.current = u
        /\ g.buffer = b /\ g.map = p /\ g.kids = k /\ g.made = m /\ g.twice = t
  BY DEF Made, IsFrame

LEMMA FrameExcept ==
  ASSUME NEW f, IsFrame(f), NEW x
  PROVE /\ [f EXCEPT !.root = x]
             = Made(x, f.children, f.orient, f.windows, f.current, f.buffer, f.map, f.kids, f.made, f.twice)
        /\ [f EXCEPT !.children = x]
             = Made(f.root, x, f.orient, f.windows, f.current, f.buffer, f.map, f.kids, f.made, f.twice)
        /\ [f EXCEPT !.orient = x]
             = Made(f.root, f.children, x, f.windows, f.current, f.buffer, f.map, f.kids, f.made, f.twice)
        /\ [f EXCEPT !.windows = x]
             = Made(f.root, f.children, f.orient, x, f.current, f.buffer, f.map, f.kids, f.made, f.twice)
        /\ [f EXCEPT !.current = x]
             = Made(f.root, f.children, f.orient, f.windows, x, f.buffer, f.map, f.kids, f.made, f.twice)
        /\ [f EXCEPT !.buffer = x]
             = Made(f.root, f.children, f.orient, f.windows, f.current, x, f.map, f.kids, f.made, f.twice)
        /\ [f EXCEPT !.map = x]
             = Made(f.root, f.children, f.orient, f.windows, f.current, f.buffer, x, f.kids, f.made, f.twice)
        /\ [f EXCEPT !.kids = x]
             = Made(f.root, f.children, f.orient, f.windows, f.current, f.buffer, f.map, x, f.made, f.twice)
        /\ [f EXCEPT !.made = x]
             = Made(f.root, f.children, f.orient, f.windows, f.current, f.buffer, f.map, f.kids, x, f.twice)
        /\ [f EXCEPT !.twice = x]
             = Made(f.root, f.children, f.orient, f.windows, f.current, f.buffer, f.map, f.kids, f.made, x)
  <1> DEFINE r == f.root
             c == f.children
             o == f.orient
             w == f.windows
             u == f.current
             b == f.buffer
             p == f.map
             k == f.kids
             m == f.made
             t == f.twice
  <1>1. f = Made(r, c, o, w, u, b, p, k, m, t) BY DEF IsFrame, Made
  <1> HIDE DEF r, c, o, w, u, b, p, k, m, t
  <1>2. [f EXCEPT !.root = x] = Made(x, c, o, w, u, b, p, k, m, t) BY <1>1 DEF Made
  <1>3. [f EXCEPT !.children = x] = Made(r, x, o, w, u, b, p, k, m, t) BY <1>1 DEF Made
  <1>4. [f EXCEPT !.orient = x] = Made(r, c, x, w, u, b, p, k, m, t) BY <1>1 DEF Made
  <1>5. [f EXCEPT !.windows = x] = Made(r, c, o, x, u, b, p, k, m, t) BY <1>1 DEF Made
  <1>6. [f EXCEPT !.current = x] = Made(r, c, o, w, x, b, p, k, m, t) BY <1>1 DEF Made
  <1>7. [f EXCEPT !.buffer = x] = Made(r, c, o, w, u, x, p, k, m, t) BY <1>1 DEF Made
  <1>8. [f EXCEPT !.map = x] = Made(r, c, o, w, u, b, x, k, m, t) BY <1>1 DEF Made
  <1>9. [f EXCEPT !.kids = x] = Made(r, c, o, w, u, b, p, x, m, t) BY <1>1 DEF Made
  <1>10. [f EXCEPT !.made = x] = Made(r, c, o, w, u, b, p, k, x, t) BY <1>1 DEF Made
  <1>11. [f EXCEPT !.twice = x] = Made(r, c, o, w, u, b, p, k, m, x) BY <1>1 DEF Made
  <1> QED BY <1>2, <1>3, <1>4, <1>5, <1>6, <1>7, <1>8, <1>9, <1>10, <1>11
           DEF r, c, o, w, u, b, p, k, m, t

\* A frame after the changes a split makes before the list is rebuilt.
Changed(f, r, C, o, kids, b) ==
    Made(r, C, o, f.windows, f.current, b, f.map, kids, f.made, f.twice)

\* After the list is rebuilt from a tree with the new window, that is selected.
LEMMA SelectNewFrame ==
  ASSUME NEW f, FrameOK(f), NEW r, NEW C, NEW o, NEW kids,
         LeavesAre(C, r, InsertAt(f.windows, f.current + 2, f.made + 1)),
         Oriented(C, o), DOMAIN C \subseteq (-(f.made + 1)) .. -1, Mirrors(kids, C, r)
  PROVE LET w == f.made + 1
            g == SelectNew(Changed(f, r, C, o, kids, Put(f.buffer, w, NewBuffer(f))), w)
        IN /\ FrameOK(g)
           /\ g.windows = InsertAt(f.windows, f.current + 2, w)
           /\ g.current = f.current + 1
           /\ g.made = w
  <1> DEFINE w == f.made + 1
             W == f.windows
             j == f.current + 2
             V == InsertAt(W, j, w)
             c == Changed(f, r, C, o, kids, Put(f.buffer, w, NewBuffer(f)))
             g == SelectNew(c, w)
  <1>1. /\ f.made \in Nat \ {0}
        /\ ToSet(W) \subseteq 1 .. f.made
        /\ f.buffer \in [ToSet(W) -> Buffers]
        /\ f.map = ToSet(W)
        /\ f.twice = FALSE
        /\ f.current \in Int
    <2>1. f.current \in 0 .. Len(f.windows) - 1 BY DEF FrameOK
    <2>2. Len(f.windows) \in Nat BY FrameShape
    <2> QED BY <2>1, <2>2 DEF FrameOK, Numbered
  <1>2. /\ W \in Seq(Nat \ {0}) /\ IsInjective(W) /\ Len(W) \in Nat
        /\ f.current + 1 \in 1 .. Len(W)
    BY FrameShape
  <1>3. w \in Nat \ {0} /\ w \notin ToSet(W) /\ j \in 1 .. Len(W) + 1
    <2>1. w \in Nat \ {0} BY <1>1
    <2>2. w \notin 1 .. f.made BY <1>1
    <2>3. j \in 1 .. Len(W) + 1 BY <1>1, <1>2
    <2> QED BY <1>1, <2>1, <2>2, <2>3
  <1>4. /\ V \in Seq(Nat \ {0})
        /\ Len(V) = Len(W) + 1
        /\ V[j] = w
        /\ ToSet(V) = ToSet(W) \cup {w}
        /\ IsInjective(V)
    <2> DEFINE S == Nat \ {0}
               e == w
               i == j
    <2>1. W \in Seq(S) /\ e \in S /\ i \in 1 .. Len(W) + 1 /\ IsInjective(W) /\ e \notin ToSet(W)
      BY <1>2, <1>3
    <2> HIDE DEF S, e, i, W, V, c, g, w, j
    <2>2. /\ InsertAt(W, i, e) \in Seq(S)
          /\ Len(InsertAt(W, i, e)) = Len(W) + 1
          /\ InsertAt(W, i, e)[i] = e
          /\ ToSet(InsertAt(W, i, e)) = ToSet(W) \cup {e}
          /\ IsInjective(InsertAt(W, i, e))
      BY <2>1, InsertNew
    <2> QED BY <2>2 DEF S, e, i, W, V
  <1>5. PICK lo, hi : Tree(C, r, V, lo, hi) BY DEF LeavesAre
  <1>6. Flatten(C, r) = V BY <1>5, FlattenTree DEF LeavesAre
  <1>7. IndexOf(V, w) = j
    <2>1. j \in DOMAIN V BY <1>3, <1>4
    <2>2. IndexOf(V, V[j]) = j BY <1>4, <2>1, IndexOfElement
    <2> QED BY <1>4, <2>2
  <1>8. g = [root |-> r, children |-> C, orient |-> o,
             windows |-> V, current |-> j - 1, buffer |-> Put(f.buffer, w, NewBuffer(f)),
             map |-> ToSet(V), kids |-> kids, made |-> w, twice |-> FALSE]
    <2>1. c.children = C /\ c.root = r BY DEF Changed, Made
    <2>2. g = [c EXCEPT !.windows = V, !.current = j - 1, !.made = w, !.map = @ \cup {w}]
      <3> HIDE DEF V, c, w, j
      <3> QED BY <1>6, <1>7, <2>1 DEF SelectNew
    <2>3. f.map \cup {w} = ToSet(V) BY <1>1, <1>4
    <2> HIDE DEF V, w, j
    <2> QED BY <1>1, <2>2, <2>3 DEF Changed, Made
  <1>9. Put(f.buffer, w, NewBuffer(f)) \in [ToSet(V) -> Buffers]
    <2>1. NewBuffer(f) \in Buffers BY NewBufferKnown
    <2> DEFINE b == NewBuffer(f)
    <2> HIDE DEF b, V, w, W
    <2>2. Put(f.buffer, w, b) \in [ToSet(W) \cup {w} -> Buffers] BY <1>1, <2>1 DEF Put, b
    <2> QED BY <1>4, <2>2 DEF b
  <1>10. Numbered(C, V, w)
    <2>1. ToSet(V) \subseteq 1 .. w BY <1>1, <1>4
    <2> QED BY <1>3, <2>1 DEF Numbered
  <1>11. j - 1 \in 0 .. Len(V) - 1 /\ j - 1 = f.current + 1
    <2>1. Len(V) = Len(W) + 1 /\ Len(W) \in Nat /\ f.current \in Int BY <1>1, <1>2, <1>4
    <2>2. f.current + 1 >= 1 /\ f.current + 1 <= Len(W) BY <1>2, <2>1
    <2> HIDE DEF V, W
    <2> QED BY <2>1, <2>2
  <1> HIDE DEF V, w, j, g
  <1>12. /\ g.root = r /\ g.children = C /\ g.orient = o /\ g.windows = V
         /\ g.current = j - 1 /\ g.buffer = Put(f.buffer, w, NewBuffer(f))
         /\ g.map = ToSet(V) /\ g.kids = kids /\ g.made = w /\ g.twice = FALSE
         /\ IsFrame(g)
    BY <1>8 DEF IsFrame
  <1>13. LeavesAre(C, r, V) BY DEF V, j, w
  <1>14. FrameOK(g) BY <1>9, <1>10, <1>11, <1>12, <1>13 DEF FrameOK
  <1> QED BY <1>11, <1>12, <1>14 DEF g, V, w, j

\* A split in the direction of the split the window is in.
LEMMA SplitSiblingFrame ==
  ASSUME NEW f, FrameOK(f), NEW p \in Parents(f.children, Current(f))
  PROVE LET w == f.made + 1
            g == SplitSibling(f, w, p)
        IN /\ FrameOK(g)
           /\ g.windows = InsertAt(f.windows, f.current + 2, w)
           /\ g.current = f.current + 1
           /\ g.made = w
  <1> DEFINE w == f.made + 1
             C == f.children
             W == f.windows
             r == f.root
             cur == Current(f)
             k == f.current + 1
             q == IndexOf(C[p], cur)
             D == InsertChild(C, p, cur, w)
             kids == AddWidget(f.kids, p, w)
  <1>1. /\ Shape(C, r, W) /\ Branching(C) /\ W \in Seq(Nat \ {0})
        /\ k \in 1 .. Len(W) /\ cur = W[k] /\ Len(W) \in Nat
    BY FrameShape
  <1>2. /\ f.made \in Nat \ {0} /\ ToSet(W) \subseteq 1 .. f.made
        /\ DOMAIN C \subseteq (-f.made) .. -1
        /\ Mirrors(f.kids, C, r) /\ Oriented(C, f.orient)
        /\ IsFrame(f)
    BY DEF FrameOK, Numbered
  <1>3. w \in Nat \ {0} /\ w \notin ToSet(W) /\ w \notin Items(C, W) /\ w \in Int
    BY <1>2 DEF Items
  <1>4. p \in DOMAIN C /\ cur \in ToSet(C[p]) BY DEF Parents
  <1>5. /\ C[p] \in Seq(Items(C, W)) /\ IsInjective(C[p])
        /\ DOMAIN C[p] = 1 .. Len(C[p]) /\ Len(C[p]) \in Nat
    BY <1>1, <1>4, ChildrenInjective
  <1>6. q \in 1 .. Len(C[p]) /\ C[p][q] = cur
    <2>1. PICK i \in DOMAIN C[p] : C[p][i] = cur BY <1>4 DEF ToSet
    <2>2. IndexOf(C[p], C[p][i]) = i BY <1>5, IndexOfElement
    <2> QED BY <1>5, <2>1, <2>2
  <1>7. D = [C EXCEPT ![p] = InsertAt(C[p], q + 1, w)] BY DEF InsertChild
  <1> HIDE DEF D, q, w, kids, k, cur
  <1>9. DOMAIN D = DOMAIN C /\ D[p] = InsertAt(C[p], q + 1, w)
        /\ \A n \in DOMAIN C \ {p} : D[n] = C[n]
    BY <1>4, <1>7
  <1>10. PICK lo, hi : Tree(C, r, W, lo, hi) BY DEF FrameOK, LeavesAre
  <1>11. \E lo2, hi2 : Tree(D, r, InsertAt(W, k + 1, w), lo2, hi2)
    BY <1>1, <1>3, <1>4, <1>6, <1>9, <1>10, TreeInsert
  <1>12. /\ Len(D[p]) = Len(C[p]) + 1
         /\ ToSet(D[p]) = ToSet(C[p]) \cup {w}
    <2> DEFINE s == C[p]
               S == Items(C, W) \cup {w}
               i == q + 1
    <2>1. s \in Seq(S) BY <1>5, SeqMonotonic
    <2>2. i \in 1 .. Len(s) + 1 BY <1>5, <1>6
    <2>3. w \in S OBVIOUS
    <2> HIDE DEF s, S, i
    <2>4. /\ Len(InsertAt(s, i, w)) = Len(s) + 1
          /\ ToSet(InsertAt(s, i, w)) = ToSet(s) \cup {w}
      BY <2>1, <2>2, <2>3, InsertAtElements
    <2> QED BY <1>9, <2>4 DEF s, i
  <1>13. Branching(D)
    <2> SUFFICES ASSUME NEW n \in DOMAIN D PROVE Len(D[n]) >= 2 BY DEF Branching
    <2>1. CASE n = p
      <3>1. Len(C[p]) >= 2 BY <1>1, <1>4 DEF Branching
      <3> QED BY <1>5, <1>12, <2>1, <3>1
    <2>2. CASE n # p
      <3>1. n \in DOMAIN C /\ D[n] = C[n] BY <1>9, <2>2
      <3> QED BY <1>1, <3>1 DEF Branching
    <2> QED BY <2>1, <2>2
  <1>14. Mirrors(kids, D, r)
    <2>1. Kids(f.kids) /\ p \in DOMAIN f.kids /\ DOMAIN f.kids = DOMAIN C \cup {Root}
          /\ f.kids[Root] = <<r>>
      BY <1>2, <1>4 DEF Mirrors
    <2>2. \A s \in DOMAIN f.kids : w \notin ToSet(f.kids[s])
      BY <1>1, <1>2, <1>3, MirroredWidget
    <2>3. \A s \in DOMAIN f.kids : RemoveFirst(f.kids[s], w) = f.kids[s]
      BY <2>1, <2>2, RemoveFirstElements DEF Kids
    <2>4. /\ Kids(kids) /\ DOMAIN kids = DOMAIN f.kids
          /\ kids[p] = Append(RemoveFirst(f.kids[p], w), w)
          /\ \A n \in DOMAIN f.kids \ {p} : kids[n] = RemoveFirst(f.kids[n], w)
      <3>1. w \in Int BY <1>3
      <3>2. Kids(f.kids) /\ p \in DOMAIN f.kids BY <2>1
      <3> QED BY <3>1, <3>2, AddWidgetKids, Zenon DEF kids
    <2>5. Root # p BY <1>1, <1>4 DEF Shape, Root
    <2>6. kids[Root] = <<r>> BY <2>1, <2>3, <2>4, <2>5
    <2>7. Len(kids[p]) = Len(D[p]) /\ ToSet(kids[p]) = ToSet(D[p])
      <3> DEFINE s == f.kids[p]
      <3>1. s \in Seq(Int) /\ IsInjective(s) /\ w \notin ToSet(s) BY <2>1, <2>2 DEF Kids
      <3>2. kids[p] = Append(s, w) BY <2>1, <2>3, <2>4
      <3>3. Len(s) = Len(C[p]) /\ ToSet(s) = ToSet(C[p]) BY <1>2, <1>4 DEF Mirrors
      <3> HIDE DEF s
      <3>4. Len(Append(s, w)) = Len(s) + 1 /\ ToSet(Append(s, w)) = ToSet(s) \cup {w}
        BY <1>3, <3>1, AppendElements
      <3> QED BY <1>12, <3>2, <3>3, <3>4
    <2>8. ASSUME NEW n \in DOMAIN D, n # p PROVE Len(kids[n]) = Len(D[n]) /\ ToSet(kids[n]) = ToSet(D[n])
      <3>1. n \in DOMAIN C /\ n \in DOMAIN f.kids \ {p} /\ D[n] = C[n] BY <1>9, <2>1, <2>8
      <3>2. kids[n] = f.kids[n] BY <2>3, <2>4, <3>1
      <3> QED BY <1>2, <3>1, <3>2 DEF Mirrors
    <2> QED BY <1>9, <2>1, <2>4, <2>6, <2>7, <2>8 DEF Mirrors
  <1>15. DOMAIN D \subseteq (-w) .. -1 BY <1>2, <1>9 DEF w
  <1>16. Oriented(D, f.orient) BY <1>2, <1>9 DEF Oriented
  <1>17. k + 1 = f.current + 2
    <2>1. k - 1 \in Int /\ f.current \in Int
      <3>1. f.current \in 0 .. Len(f.windows) - 1 BY DEF FrameOK
      <3> QED BY <1>1, <3>1
    <2> QED BY <2>1 DEF k
  <1>18. LeavesAre(D, r, InsertAt(W, f.current + 2, w)) BY <1>11, <1>13, <1>17 DEF LeavesAre
  <1>19. SplitSibling(f, w, p) = SelectNew(Changed(f, r, D, f.orient, kids, Put(f.buffer, w, NewBuffer(f))), w)
    <2> DEFINE b == Put(f.buffer, w, NewBuffer(f))
               g1 == [f EXCEPT !.kids = kids]
               g2 == [g1 EXCEPT !.children = D]
               g3 == [g2 EXCEPT !.buffer = b]
    <2>1. [f EXCEPT !.kids = kids, !.children = D, !.buffer = b] = g3 OBVIOUS
    <2> HIDE DEF g1, g2, g3, b, C, r
    <2>2. g1 = Made(f.root, f.children, f.orient, f.windows, f.current, f.buffer, f.map, kids,
                    f.made, f.twice)
      BY <1>2, FrameExcept DEF g1
    <2>3. g2 = Made(f.root, D, f.orient, f.windows, f.current, f.buffer, f.map, kids,
                    f.made, f.twice)
      BY <2>2 DEF Made, g2
    <2>4. g3 = Changed(f, r, D, f.orient, kids, b) BY <2>3 DEF Made, Changed, g3, r
    <2>5. SplitSibling(f, w, p) = SelectNew(g3, w)
      BY <2>1 DEF SplitSibling, D, kids, cur, b, C
    <2> QED BY <2>4, <2>5 DEF b
  <1> QED BY <1>14, <1>15, <1>16, <1>18, <1>19, SelectNewFrame DEF w

\* The widgets after the same split.
LEMMA NestedKids ==
  ASSUME NEW C, NEW r, NEW W, Shape(C, r, W), NEW kids, Mirrors(kids, C, r),
         NEW x, x \in ToSet(W), NEW w, w \in Nat \ {0}, w \notin ToSet(W),
         NEW s, s \in Int, s < 0, s \notin DOMAIN C,
         NEW outer, outer \in DOMAIN kids, x \in ToSet(kids[outer]),
         \A n \in DOMAIN kids \ {outer} : x \notin ToSet(kids[n]),
         x = r => outer = Root,
         x # r => outer \in DOMAIN C /\ Parents(C, x) = {outer} /\ x \in ToSet(C[outer]),
         NEW D, DOMAIN D = DOMAIN C \cup {s}, Pair(D[s], x, w),
         \A n \in DOMAIN C : D[n] = ReplaceAll(C[n], x, s),
         \A n \in DOMAIN C : x \notin ToSet(C[n]) => D[n] = C[n],
         NEW inner, inner = AddWidget(AddWidget(Put(kids, s, <<>>), s, x), s, w)
  PROVE Mirrors(InsertWidget(inner, outer, IndexOf(kids[outer], x), s), D,
                NestedRoot(r, x, s))
  <1> DEFINE K0 == Put(kids, s, <<>>)
             K1 == AddWidget(K0, s, x)
             at == IndexOf(kids[outer], x)
             K3 == InsertWidget(inner, outer, at, s)
             r1 == NestedRoot(r, x, s)
             e == x
             u == w
             n0 == s
  <1>1. x \in Items(C, W) /\ w \notin Items(C, W) /\ s \notin Items(C, W)
    BY DEF Items, Shape, ToSet
  <1>2. x \in Int /\ w \in Int /\ x # w /\ x # s /\ w # s /\ s # Root /\ x > 0
    BY <1>1, ItemsAreNumbers DEF Root
  <1>3. /\ Kids(kids) /\ DOMAIN kids = DOMAIN C \cup {Root} /\ kids[Root] = <<r>>
        /\ \A n \in DOMAIN C : Len(kids[n]) = Len(C[n]) /\ ToSet(kids[n]) = ToSet(C[n])
    BY DEF Mirrors
  <1>4. /\ outer \in DOMAIN kids /\ x \in ToSet(kids[outer])
        /\ \A n \in DOMAIN kids \ {outer} : x \notin ToSet(kids[n])
        /\ x = r => outer = Root
        /\ x # r => outer \in DOMAIN C /\ Parents(C, x) = {outer} /\ x \in ToSet(C[outer])
    OBVIOUS
  <1>5. \A n \in DOMAIN kids : w \notin ToSet(kids[n]) BY <1>1, MirroredWidget
  <1>6. \A n \in DOMAIN kids : s \notin ToSet(kids[n]) BY <1>1, MirroredWidget
  <1>7. s \notin DOMAIN kids /\ outer # s BY <1>2, <1>3, <1>4
  <1>8. \A n \in DOMAIN kids : kids[n] \in Seq(Int) /\ IsInjective(kids[n]) BY <1>3 DEF Kids
  <1> DEFINE old == kids[outer]
  <1>9. old \in Seq(Int) /\ IsInjective(old) /\ x \in ToSet(old) /\ s \notin ToSet(old)
    BY <1>4, <1>6, <1>8
  <1>10. at \in 1 .. Len(old) /\ old[at] = x /\ Len(old) \in Nat
    <2>1. DOMAIN old = 1 .. Len(old) /\ Len(old) \in Nat BY <1>9
    <2>2. PICK i \in DOMAIN old : old[i] = x BY <1>9 DEF ToSet
    <2>3. IndexOf(old, old[i]) = i BY <1>9, <2>2, IndexOfElement
    <2> QED BY <2>1, <2>2, <2>3
  <1>11. /\ Kids(K0) /\ DOMAIN K0 = DOMAIN kids \cup {s} /\ K0[s] = <<>>
         /\ \A n \in DOMAIN kids : K0[n] = kids[n]
    <2> DEFINE none == <<>>
    <2>0. none \in Seq(Int) /\ IsInjective(none) BY DEF IsInjective
    <2>1. DOMAIN K0 = DOMAIN kids \cup {s} /\ K0[s] = none /\ \A n \in DOMAIN kids : K0[n] = kids[n]
      <3> HIDE DEF none
      <3>1. K0 = Put(kids, s, none) BY DEF none
      <3> HIDE DEF K0
      <3> QED BY <1>7, <3>1 DEF Put
    <2>2. K0 = [n \in DOMAIN K0 |-> K0[n]] BY DEF Put
    <2>3. IsFiniteSet(DOMAIN K0)
      <3>1. IsFiniteSet(DOMAIN kids) BY <1>3 DEF Kids
      <3> QED BY <2>1, <3>1, FS_AddElement
    <2> HIDE DEF none, K0
    <2>4. \A n \in DOMAIN K0 : K0[n] \in Seq(Int) /\ IsInjective(K0[n]) BY <1>8, <2>0, <2>1
    <2> QED BY <2>1, <2>2, <2>3, <2>4 DEF Kids, none
  <1> HIDE DEF K0, at, old, e, u, n0
  <1>12. RemoveFirst(<<>>, x) = <<>> /\ Append(<<>>, x) = <<x>>
    <2> DEFINE none == <<>>
    <2>1. none \in Seq(Int) /\ x \notin ToSet(none) BY DEF ToSet
    <2> HIDE DEF none
    <2>2. RemoveFirst(none, x) = none BY <2>1, RemoveFirstAbsent
    <2> QED BY <2>2 DEF none
  <1>13. /\ Kids(K1) /\ DOMAIN K1 = DOMAIN kids \cup {s}
         /\ K1[s] = <<x>>
         /\ K1[outer] = RemoveFirst(old, x)
         /\ \A n \in DOMAIN kids \ {outer} : K1[n] = kids[n]
    <2>1. s \in DOMAIN K0 /\ e \in Int /\ n0 \in DOMAIN K0 BY <1>2, <1>11 DEF e, n0
    <2>2. /\ Kids(AddWidget(K0, n0, e))
          /\ DOMAIN AddWidget(K0, n0, e) = DOMAIN K0
          /\ AddWidget(K0, n0, e)[n0] = Append(RemoveFirst(K0[n0], e), e)
          /\ \A n \in DOMAIN K0 \ {n0} : AddWidget(K0, n0, e)[n] = RemoveFirst(K0[n], e)
      BY <1>11, <2>1, AddWidgetKids
    <2>3. K1 = AddWidget(K0, n0, e) BY DEF e, n0
    <2>4. K1[s] = Append(RemoveFirst(<<>>, x), x) BY <1>11, <2>2, <2>3 DEF e, n0
    <2>5. \A n \in DOMAIN kids \ {outer} : RemoveFirst(kids[n], x) = kids[n]
      BY <1>4, <1>8, RemoveFirstAbsent
    <2>6. \A n \in DOMAIN kids : K1[n] = RemoveFirst(kids[n], x)
      BY <1>7, <1>11, <2>2, <2>3 DEF e, n0
    <2>7. K1[outer] = RemoveFirst(old, x) BY <1>4, <2>6 DEF old
    <2> HIDE DEF K1
    <2> QED BY <1>11, <1>12, <2>2, <2>3, <2>4, <2>5, <2>6, <2>7
  <1> HIDE DEF K1
  <1>14. /\ Kids(inner) /\ DOMAIN inner = DOMAIN kids \cup {s}
         /\ Len(inner[s]) = 2 /\ ToSet(inner[s]) = {x, w}
         /\ inner[outer] = RemoveFirst(old, x)
         /\ \A n \in DOMAIN kids \ {outer} : inner[n] = kids[n]
    <2>1. u \in Int /\ n0 \in DOMAIN K1 BY <1>2, <1>13 DEF u, n0
    <2>2. /\ Kids(AddWidget(K1, n0, u))
          /\ DOMAIN AddWidget(K1, n0, u) = DOMAIN K1
          /\ AddWidget(K1, n0, u)[n0] = Append(RemoveFirst(K1[n0], u), u)
          /\ \A n \in DOMAIN K1 \ {n0} : AddWidget(K1, n0, u)[n] = RemoveFirst(K1[n], u)
      BY <1>13, <2>1, AddWidgetKids
    <2>3. inner = AddWidget(K1, n0, u) BY DEF u, n0, K1, K0
    <2>4. \A n \in DOMAIN kids : inner[n] = RemoveFirst(K1[n], w)
      BY <1>7, <1>13, <2>2, <2>3 DEF u, n0
    <2>5. \A n \in DOMAIN kids \ {outer} : inner[n] = kids[n]
      <3>1. \A n \in DOMAIN kids : RemoveFirst(kids[n], w) = kids[n]
        BY <1>5, <1>8, RemoveFirstAbsent
      <3> QED BY <1>13, <2>4, <3>1
    <2>6. inner[outer] = RemoveFirst(old, x)
      <3> DEFINE t == RemoveFirst(old, x)
      <3>1. t \in Seq(Int) /\ ToSet(t) = ToSet(old) \ {x} BY <1>9, RemoveFirstElements
      <3>2. w \notin ToSet(t) BY <1>4, <1>5, <3>1 DEF old
      <3> HIDE DEF t
      <3>3. RemoveFirst(t, w) = t BY <3>1, <3>2, RemoveFirstAbsent
      <3> QED BY <1>4, <1>13, <2>4, <3>3 DEF t
    <2>7. Len(inner[s]) = 2 /\ ToSet(inner[s]) = {x, w}
      <3> DEFINE one == <<x>>
      <3>1. one \in Seq(Int) /\ IsInjective(one) /\ ToSet(one) = {x} /\ Len(one) = 1
        BY <1>2 DEF IsInjective, ToSet
      <3>2. u \notin ToSet(one) /\ u \in Int BY <1>2, <3>1 DEF u
      <3>3. K1[n0] = one BY <1>13 DEF n0
      <3> HIDE DEF one
      <3>4. RemoveFirst(one, u) = one BY <3>1, <3>2, RemoveFirstAbsent
      <3>5. /\ Append(one, u) \in Seq(Int)
            /\ Len(Append(one, u)) = Len(one) + 1
            /\ Append(one, u)[Len(one) + 1] = u
            /\ \A j \in 1 .. Len(one) : Append(one, u)[j] = one[j]
            /\ ToSet(Append(one, u)) = ToSet(one) \cup {u}
            /\ IsInjective(Append(one, u))
        BY <3>1, <3>2, AppendElements
      <3>6. inner[n0] = Append(one, u) BY <2>2, <2>3, <3>3, <3>4
      <3> DEFINE t == Append(one, u)
      <3>7. Len(t) = 2 /\ ToSet(t) = {x, w} BY <3>1, <3>5 DEF u
      <3> HIDE DEF t
      <3>8. inner[n0] = t BY <3>6 DEF t
      <3> QED BY <3>7, <3>8 DEF n0
    <2> QED BY <1>13, <2>2, <2>3, <2>5, <2>6, <2>7
  <1>15. /\ Kids(K3) /\ DOMAIN K3 = DOMAIN kids \cup {s}
         /\ K3[outer] = InsertAt(RemoveFirst(old, x), at, s)
         /\ \A n \in DOMAIN kids \ {outer} : K3[n] = kids[n]
         /\ K3[s] = inner[s]
    <2> DEFINE o == outer
    <2>0. inner[o] = RemoveFirst(old, x) /\ o \in DOMAIN inner BY <1>4, <1>14
    <2>1. Len(inner[o]) = Len(old) - 1 /\ ToSet(inner[o]) = ToSet(old) \ {x}
      BY <1>9, <2>0, RemoveFirstElements
    <2>2. at \in 1 .. Len(inner[o]) + 1 BY <1>10, <2>1
    <2>3. n0 \in Int /\ n0 \notin ToSet(inner[o]) BY <1>9, <2>1 DEF n0
    <2> HIDE DEF o
    <2>4. /\ Kids(InsertWidget(inner, o, at, n0))
          /\ DOMAIN InsertWidget(inner, o, at, n0) = DOMAIN inner
          /\ InsertWidget(inner, o, at, n0)[o] = InsertAt(inner[o], at, n0)
          /\ \A n \in DOMAIN inner \ {o} : InsertWidget(inner, o, at, n0)[n] = RemoveFirst(inner[n], n0)
      BY <1>14, <2>0, <2>2, <2>3, InsertWidgetKids
    <2>5. K3 = InsertWidget(inner, o, at, n0) BY DEF o, n0
    <2>6. \A n \in DOMAIN kids : RemoveFirst(kids[n], n0) = kids[n]
      BY <1>6, <1>8, RemoveFirstAbsent DEF n0
    <2>7. RemoveFirst(inner[s], n0) = inner[s]
      <3>1. inner[s] \in Seq(Int) BY <1>14 DEF Kids
      <3>2. n0 \notin ToSet(inner[s]) BY <1>2, <1>14 DEF n0
      <3> QED BY <3>1, <3>2, RemoveFirstAbsent
    <2> HIDE DEF K3
    <2>8. K3[outer] = InsertAt(RemoveFirst(old, x), at, s) BY <2>0, <2>4, <2>5 DEF o, n0
    <2>9. K3[s] = inner[s] BY <1>7, <1>14, <2>4, <2>5, <2>7 DEF o
    <2>10. \A n \in DOMAIN kids \ {outer} : K3[n] = kids[n]
      BY <1>14, <2>4, <2>5, <2>6 DEF o
    <2> QED BY <1>14, <2>4, <2>5, <2>8, <2>9, <2>10
  <1> HIDE DEF K3
  <1>16. /\ K3[outer] \in Seq(Int) /\ IsInjective(K3[outer])
         /\ Len(K3[outer]) = Len(old)
         /\ ToSet(K3[outer]) = (ToSet(old) \ {x}) \cup {s}
    <2>1. old \in Seq(Int) /\ at \in 1 .. Len(old) /\ n0 \in Int /\ IsInjective(old)
          /\ n0 \notin ToSet(old)
      BY <1>9, <1>10 DEF n0
    <2> DEFINE t == InsertAt(RemoveFirst(old, old[at]), at, n0)
    <2>2. /\ t \in Seq(Int) /\ Len(t) = Len(old)
          /\ ToSet(t) = (ToSet(old) \ {old[at]}) \cup {n0}
          /\ IsInjective(t)
      BY <2>1, RemoveThenInsert
    <2>3. K3[outer] = t BY <1>10, <1>15 DEF n0
    <2> QED BY <1>10, <2>2, <2>3 DEF n0
  <1>17. K3[Root] = <<r1>>
    <2>1. CASE x = r
      <3>1. outer = Root /\ old = <<r>> BY <1>3, <1>4, <2>1 DEF old
      <3>2. ToSet(old) = {r} BY <3>1 DEF ToSet
      <3>3. K3[Root] \in Seq(Int) /\ IsInjective(K3[Root]) /\ ToSet(K3[Root]) = {s}
        BY <1>16, <2>1, <3>1, <3>2
      <3>4. K3[Root] = <<s>> BY <3>3, OnlyElement
      <3> QED BY <2>1, <3>4 DEF NestedRoot
    <2>2. CASE x # r
      <3>0. Root \notin DOMAIN C BY DEF Shape, Root
      <3>1. outer # Root BY <1>4, <2>2, <3>0
      <3>2. K3[Root] = kids[Root] BY <1>3, <1>15, <3>1
      <3> QED BY <1>3, <2>2, <3>2 DEF NestedRoot
    <2> QED BY <2>1, <2>2
  <1>18. ASSUME NEW n \in DOMAIN D
         PROVE Len(K3[n]) = Len(D[n]) /\ ToSet(K3[n]) = ToSet(D[n])
    <2>1. CASE n = s BY <1>14, <1>15, <2>1 DEF Pair
    <2>2. CASE n # s /\ x \notin ToSet(C[n])
      <3>1. n \in DOMAIN C /\ D[n] = C[n] BY <2>2
      <3>2. n # outer BY <1>3, <1>4, <2>2, <3>1
      <3>3. K3[n] = kids[n] BY <1>3, <1>15, <3>1, <3>2
      <3> QED BY <1>3, <3>1, <3>3
    <2>3. CASE n # s /\ x \in ToSet(C[n])
      <3>1. n \in DOMAIN C /\ D[n] = ReplaceAll(C[n], x, s) BY <2>3
      <3>2. n = outer BY <1>3, <1>4, <2>3, <3>1
      <3> DEFINE c == C[n]
                 S == Items(C, W) \cup {s}
      <3>3. c \in Seq(Items(C, W)) /\ IsInjective(c) /\ DOMAIN c = 1 .. Len(c)
        BY <3>1, ChildrenInjective
      <3>4. c \in Seq(S) /\ n0 \in S BY <3>3, SeqMonotonic DEF n0
      <3>5. x \in ToSet(c) BY <2>3
      <3>6. ToSet(c) = ToSet(old) /\ Len(c) = Len(old) BY <1>3, <3>1, <3>2 DEF old
      <3> HIDE DEF c, S
      <3>7. Len(ReplaceAll(c, e, n0)) = Len(c)
            /\ ToSet(ReplaceAll(c, e, n0)) = (ToSet(c) \ {e}) \cup {n0}
        BY <3>3, <3>4, <3>5, Replaced DEF e
      <3>8. D[n] = ReplaceAll(c, e, n0) BY <3>1 DEF c, n0, e
      <3> QED BY <1>16, <3>2, <3>6, <3>7, <3>8 DEF n0, e
    <2> QED BY <2>1, <2>2, <2>3
  <1>19. DOMAIN K3 = DOMAIN D \cup {Root} BY <1>3, <1>15
  <1>20. Mirrors(K3, D, r1) BY <1>15, <1>17, <1>18, <1>19 DEF Mirrors
  <1> QED BY <1>20 DEF K3, at

\* A split in the other direction, or of the only window.
LEMMA SplitNestedFrame ==
  ASSUME NEW f, FrameOK(f), NEW o \in Orientations
  PROVE LET w == f.made + 1
            g == SplitNested(f, o, w)
        IN /\ FrameOK(g)
           /\ g.windows = InsertAt(f.windows, f.current + 2, w)
           /\ g.current = f.current + 1
           /\ g.made = w
  <1> DEFINE w == f.made + 1
             C == f.children
             W == f.windows
             r == f.root
             x == Current(f)
             k == f.current + 1
             ps == Parents(C, x)
             s == -w
             outer == IF ps = {} THEN Root ELSE CHOOSE p \in ps : TRUE
             inner == AddWidget(AddWidget(Put(f.kids, s, <<>>), s, x), s, w)
             kids == InsertWidget(inner, outer, IndexOf(f.kids[outer], x), s)
             D == Nested(C, r, x, outer, s, w)
             r1 == NestedRoot(r, x, s)
             b == Put(f.buffer, w, NewBuffer(f))
             orient == Put(f.orient, s, o)
  <1>0. Shape(C, r, W) BY FrameShape
  <1>1. /\ Branching(C) /\ k \in 1 .. Len(W) /\ At(W, k, x) /\ x \in ToSet(W)
    BY FrameShape DEF At
  <1>2. /\ f.made \in Nat \ {0} /\ ToSet(W) \subseteq 1 .. f.made
        /\ DOMAIN C \subseteq (-f.made) .. -1
        /\ Oriented(C, f.orient)
        /\ IsFrame(f)
    BY DEF FrameOK, Numbered
  <1>m. Mirrors(f.kids, C, r) BY DEF FrameOK
  <1>3. PICK lo, hi : Tree(C, r, W, lo, hi) BY DEF FrameOK, LeavesAre
  <1>4. /\ w \in Nat \ {0} /\ w \notin ToSet(W)
        /\ s \in Int /\ s < 0 /\ s \notin DOMAIN C /\ s \in (-w) .. -1
    BY <1>2
  <1>5. x \in Items(C, W) BY <1>1 DEF Items
  <1>6. ps = {} <=> x = r
    <2> HIDE DEF x, C, W, r
    <2>1. x = r => ps = {} BY <1>0, ParentsOfRoot
    <2>2. x # r => ps # {} BY <1>0, <1>5, ParentExists
    <2> QED BY <2>1, <2>2
  <1>7. /\ outer \in DOMAIN f.kids
        /\ x \in ToSet(f.kids[outer])
        /\ \A n \in DOMAIN f.kids \ {outer} : x \notin ToSet(f.kids[n])
        /\ x = r => outer = Root
        /\ x # r => outer \in DOMAIN C /\ Parents(C, x) = {outer} /\ x \in ToSet(C[outer])
    BY <1>0, <1>m, <1>5, MirroredOnce
  <1> HIDE DEF s, w, outer, ps, k, x, C, W, r
  <1>8. /\ LeavesAre(D, r1, InsertAt(W, k + 1, w))
        /\ \A e : e \in DOMAIN D <=> e \in DOMAIN C \/ e = s
        /\ Pair(D[s], x, w)
        /\ \A n \in DOMAIN C : D[n] = ReplaceAll(C[n], x, s)
        /\ \A n \in DOMAIN C : x \notin ToSet(C[n]) => D[n] = C[n]
    BY <1>1, <1>3, <1>4, <1>7, NestedTree
  <1> HIDE DEF D, inner
  <1>9. DOMAIN D = DOMAIN C \cup {s} BY <1>8
  <1>11. Mirrors(kids, D, r1)
    <2>1. inner = AddWidget(AddWidget(Put(f.kids, s, <<>>), s, x), s, w) BY DEF inner
    <2> QED BY <1>0, <1>1, <1>m, <1>4, <1>7, <1>8, <1>9, <2>1, NestedKids
  <1> HIDE DEF kids, r1, b, orient
  <1>12. DOMAIN D \subseteq (-w) .. -1
    <2>1. (-f.made) .. -1 \subseteq (-w) .. -1 BY <1>2 DEF w
    <2> QED BY <1>2, <1>4, <1>9, <2>1
  <1>13. Oriented(D, orient) BY <1>2, <1>9 DEF Oriented, orient, Put
  <1>14. k + 1 = f.current + 2
    <2>1. f.current \in Int
      <3>1. f.current \in 0 .. Len(f.windows) - 1 BY DEF FrameOK
      <3>2. Len(f.windows) \in Nat BY FrameShape
      <3> QED BY <3>1, <3>2
    <2> QED BY <2>1 DEF k
  <1>15. SplitNested(f, o, w) = SelectNew(Changed(f, r1, D, orient, kids, b), w)
    <2> DEFINE g1 == [f EXCEPT !.kids = kids]
               g2 == [g1 EXCEPT !.root = r1]
               g3 == [g2 EXCEPT !.children = D]
               g4 == [g3 EXCEPT !.orient = orient]
               g5 == [g4 EXCEPT !.buffer = b]
    <2>1. SplitNested(f, o, w)
            = SelectNew([f EXCEPT !.kids = kids, !.root = r1, !.children = D,
                                  !.orient = orient, !.buffer = b], w)
      BY <1>6 DEF SplitNested, kids, r1, NestedRoot, D, Nested, orient, b, inner, outer, ps, s, x, C, r
    <2>2. [f EXCEPT !.kids = kids, !.root = r1, !.children = D, !.orient = orient, !.buffer = b]
            = g5
      OBVIOUS
    <2> HIDE DEF g1, g2, g3, g4, g5
    <2>3. g1 = Made(f.root, f.children, f.orient, f.windows, f.current, f.buffer, f.map, kids,
                    f.made, f.twice)
      BY <1>2, FrameExcept DEF g1
    <2>4. g2 = Made(r1, f.children, f.orient, f.windows, f.current, f.buffer, f.map, kids,
                    f.made, f.twice)
      BY <2>3 DEF Made, g2
    <2>5. g3 = Made(r1, D, f.orient, f.windows, f.current, f.buffer, f.map, kids,
                    f.made, f.twice)
      BY <2>4 DEF Made, g3
    <2>6. g4 = Made(r1, D, orient, f.windows, f.current, f.buffer, f.map, kids,
                    f.made, f.twice)
      BY <2>5 DEF Made, g4
    <2>7. g5 = Made(r1, D, orient, f.windows, f.current, b, f.map, kids, f.made, f.twice)
      BY <2>6 DEF Made, g5
    <2> QED BY <2>1, <2>2, <2>7 DEF Changed
  <1>16. LeavesAre(D, r1, InsertAt(f.windows, f.current + 2, f.made + 1))
    BY <1>8, <1>14 DEF W, w
  <1>17. DOMAIN D \subseteq (-(f.made + 1)) .. -1 BY <1>12 DEF w
  <1> QED BY <1>11, <1>13, <1>15, <1>16, <1>17, SelectNewFrame DEF w, b

\* A split keeps the invariant, puts the new window after the selected one and
\* selects it.
LEMMA SplitFrameOK ==
  ASSUME NEW f, FrameOK(f), NEW o \in Orientations
  PROVE LET g == SplitFrame(f, o)
        IN /\ FrameOK(g)
           /\ g.windows = InsertAt(f.windows, f.current + 2, f.made + 1)
           /\ g.current = f.current + 1
           /\ g.made = f.made + 1
  <1> DEFINE same == {p \in Parents(f.children, Current(f)) : f.orient[p] = o}
             p == CHOOSE q \in same : TRUE
  <1>1. CASE same # {}
    <2>1. p \in Parents(f.children, Current(f)) BY <1>1
    <2>2. SplitFrame(f, o) = SplitSibling(f, f.made + 1, p) BY <1>1 DEF SplitFrame
    <2> HIDE DEF p, same
    <2> QED BY <2>1, <2>2, SplitSiblingFrame
  <1>2. CASE same = {}
    <2>1. SplitFrame(f, o) = SplitNested(f, o, f.made + 1) BY <1>2 DEF SplitFrame
    <2> QED BY <2>1, SplitNestedFrame
  <1> QED BY <1>1, <1>2

------------------------------------------------------------------------------
(* A deletion.                                                             *)

\* The conditions under which a record of those fields is a frame.
LEMMA MadeOK ==
  ASSUME NEW r, NEW C, NEW o, NEW W, NEW cur, NEW b, NEW kids, NEW made,
         LeavesAre(C, r, W), Oriented(C, o), Numbered(C, W, made), cur \in 0 .. Len(W) - 1,
         b \in [ToSet(W) -> Buffers], Mirrors(kids, C, r)
  PROVE FrameOK(Made(r, C, o, W, cur, b, ToSet(W), kids, made, FALSE))
  <1> DEFINE g == Made(r, C, o, W, cur, b, ToSet(W), kids, made, FALSE)
  <1>1. /\ IsFrame(g)
        /\ g.root = r /\ g.children = C /\ g.orient = o /\ g.windows = W /\ g.current = cur
        /\ g.buffer = b /\ g.map = ToSet(W) /\ g.kids = kids /\ g.made = made /\ g.twice = FALSE
    BY DEF Made, IsFrame
  <1> HIDE DEF g
  <1>2. FrameOK(g) BY <1>1 DEF FrameOK
  <1> QED BY <1>2 DEF g

\* The widgets when a window leaves a splitter that keeps several.
LEMMA NarrowKids ==
  ASSUME NEW C, NEW r, NEW W, Shape(C, r, W), NEW kids, Mirrors(kids, C, r),
         NEW p, p \in DOMAIN C, NEW w, w \in ToSet(W), w \in ToSet(C[p]), w # r,
         NEW D, DOMAIN D = DOMAIN C, D[p] = RemoveFirst(C[p], w),
         \A n \in DOMAIN C \ {p} : D[n] = C[n]
  PROVE /\ w \in Widgets(kids)
        /\ w \notin DOMAIN kids
        /\ Mirrors(Drop(Detach(kids, w), {w}), D, r)
  <1> DEFINE K == Drop(Detach(kids, w), {w})
  <1>1. /\ Kids(kids) /\ DOMAIN kids = DOMAIN C \cup {Root} /\ kids[Root] = <<r>>
        /\ \A n \in DOMAIN C : Len(kids[n]) = Len(C[n]) /\ ToSet(kids[n]) = ToSet(C[n])
    BY DEF Mirrors
  <1>2. w \in ToSet(kids[p]) /\ p \in DOMAIN kids BY <1>1
  <1>3. w \in Widgets(kids) BY <1>2 DEF Widgets
  <1>4. w \in Items(C, W) BY DEF Items
  <1>5. w \notin DOMAIN C /\ w # Root
    <2>1. w > 0 BY <1>4, ItemsAreNumbers
    <2>2. \A n \in DOMAIN C : n < 0 BY DEF Shape
    <2>3. w \in Int BY <1>4, ItemsAreNumbers
    <2> QED BY <2>1, <2>2, <2>3 DEF Root
  <1>6. w \notin DOMAIN kids BY <1>1, <1>5
  <1>7. Parents(C, w) = {p}
    <2>1. PICK a \in DOMAIN C : \E q \in 1 .. Len(C[a]) :
             C[a][q] = w /\ Parents(C, w) = {a} /\ q \in DOMAIN C[a]
      BY <1>4, ParentExists
    <2>2. p \in Parents(C, w) BY DEF Parents
    <2> QED BY <2>1, <2>2
  <1>8. \A n \in DOMAIN C \ {p} : w \notin ToSet(C[n]) BY <1>7 DEF Parents
  <1>9. /\ Kids(Detach(kids, w)) /\ DOMAIN Detach(kids, w) = DOMAIN kids
        /\ \A n \in DOMAIN kids :
              /\ ToSet(Detach(kids, w)[n]) = ToSet(kids[n]) \ {w}
              /\ Detach(kids, w)[n] = RemoveFirst(kids[n], w)
              /\ w \notin ToSet(kids[n]) => Detach(kids, w)[n] = kids[n]
              /\ w \in ToSet(kids[n]) => Len(Detach(kids, w)[n]) = Len(kids[n]) - 1
    BY <1>1, DetachKids
  <1>10. /\ Kids(K) /\ DOMAIN K = DOMAIN kids
         /\ \A n \in DOMAIN kids : K[n] = Detach(kids, w)[n]
    <2> DEFINE d == Detach(kids, w)
               X == {w}
    <2>1. Kids(d) /\ DOMAIN d \ X = DOMAIN kids /\ DOMAIN d = DOMAIN kids BY <1>6, <1>9
    <2> HIDE DEF d, X
    <2>2. /\ Kids(Drop(d, X)) /\ DOMAIN Drop(d, X) = DOMAIN d \ X
          /\ \A n \in DOMAIN d \ X : Drop(d, X)[n] = d[n]
      BY <2>1, DropKids
    <2>3. K = Drop(d, X) BY DEF d, X
    <2> HIDE DEF K
    <2> QED BY <2>1, <2>2, <2>3 DEF d
  <1> HIDE DEF K
  <1>11. K[Root] = <<r>>
    <2>1. ToSet(<<r>>) = {r} BY DEF ToSet
    <2>2. w \notin ToSet(kids[Root]) BY <1>1, <2>1
    <2>3. Root \in DOMAIN kids BY <1>1
    <2>4. K[Root] = kids[Root] BY <1>9, <1>10, <2>2, <2>3
    <2> QED BY <1>1, <2>4
  <1>12. ASSUME NEW n \in DOMAIN D PROVE Len(K[n]) = Len(D[n]) /\ ToSet(K[n]) = ToSet(D[n])
    <2>0. n \in DOMAIN kids BY <1>1
    <2>1. CASE n = p
      <3> DEFINE c == C[p]
                 S == Items(C, W)
      <3>1. c \in Seq(S) /\ IsInjective(c) BY ChildrenInjective
      <3>2. w \in ToSet(c) /\ Len(c) = Len(kids[p]) /\ ToSet(c) = ToSet(kids[p]) BY <1>1
      <3> HIDE DEF c, S
      <3>3. ToSet(RemoveFirst(c, w)) = ToSet(c) \ {w} /\ Len(RemoveFirst(c, w)) = Len(c) - 1
        BY <3>1, <3>2, RemoveFirstElements
      <3>4. D[n] = RemoveFirst(c, w) BY <2>1 DEF c
      <3>5. ToSet(K[n]) = ToSet(kids[p]) \ {w} /\ Len(K[n]) = Len(kids[p]) - 1
        BY <1>2, <1>9, <1>10, <2>1
      <3> QED BY <3>2, <3>3, <3>4, <3>5
    <2>2. CASE n # p
      <3>1. n \in DOMAIN C /\ D[n] = C[n] /\ w \notin ToSet(C[n]) BY <1>8, <2>2
      <3>2. K[n] = kids[n] BY <1>1, <1>9, <1>10, <2>0, <3>1
      <3> QED BY <1>1, <3>1, <3>2
    <2> QED BY <2>1, <2>2
  <1>13. Mirrors(K, D, r) BY <1>1, <1>10, <1>11, <1>12 DEF Mirrors
  <1> QED BY <1>3, <1>6, <1>13 DEF K

\* A splitter p left with the child only and the window w that is deleted; outer
\* is the splitter that holds p, and D the tree without p.
Unwrapping(C, r, W, kids, p, w, only, outer, D) ==
    /\ Shape(C, r, W)
    /\ Mirrors(kids, C, r)
    /\ p \in DOMAIN C
    /\ w > 0
    /\ only \in Int /\ only # p /\ only # w
    /\ Pair(C[p], w, only)
    /\ \A n \in DOMAIN kids \ {p} : only \notin ToSet(kids[n])
    /\ outer \in DOMAIN kids /\ outer # p /\ p \in ToSet(kids[outer])
    /\ \A n \in DOMAIN kids \ {outer} : p \notin ToSet(kids[n])
    /\ p = r => outer = Root
    /\ p # r => outer \in DOMAIN C /\ p \in ToSet(C[outer])
    /\ DOMAIN D = DOMAIN C \ {p}
    /\ \A n \in DOMAIN D : D[n] = ReplaceAll(C[n], p, only)

\* The widgets when such a splitter is destroyed: its child goes to the splitter
\* that held p, and the window w, which p still owns, with p.
LEMMA UnwrapKids ==
  ASSUME NEW C, NEW r, NEW W, NEW kids, NEW p, NEW w, NEW only, NEW outer, NEW D,
         Unwrapping(C, r, W, kids, p, w, only, outer, D)
  PROVE LET K1 == InsertWidget(kids, outer, IndexOf(kids[outer], p), only) IN
        /\ p \in Widgets(K1)
        /\ Kids(K1)
        /\ Under(K1, p) \cap DOMAIN K1 \subseteq {p}
        /\ Mirrors(Drop(Detach(K1, p), {p} \cup Under(K1, p)), D, NestedRoot(r, p, only))
  <1>0. /\ Shape(C, r, W)
        /\ Mirrors(kids, C, r)
        /\ p \in DOMAIN C
        /\ w > 0
        /\ only \in Int /\ only # p /\ only # w
        /\ Pair(C[p], w, only)
        /\ \A n \in DOMAIN kids \ {p} : only \notin ToSet(kids[n])
        /\ outer \in DOMAIN kids /\ outer # p /\ p \in ToSet(kids[outer])
        /\ \A n \in DOMAIN kids \ {outer} : p \notin ToSet(kids[n])
        /\ p = r => outer = Root
        /\ p # r => outer \in DOMAIN C /\ p \in ToSet(C[outer])
        /\ DOMAIN D = DOMAIN C \ {p}
        /\ \A n \in DOMAIN D : D[n] = ReplaceAll(C[n], p, only)
    BY DEF Unwrapping
  <1> USE <1>0
  <1> DEFINE K1 == InsertWidget(kids, outer, IndexOf(kids[outer], p), only)
  <1>k. K1 = InsertWidget(kids, outer, IndexOf(kids[outer], p), only) OBVIOUS
  <1> HIDE DEF K1
  <1> USE <1>k
  <1> DEFINE at == IndexOf(kids[outer], p)
             old == kids[outer]
             K == Drop(Detach(K1, p), {p} \cup Under(K1, p))
             r1 == NestedRoot(r, p, only)
             d == only
  <1>1. /\ Kids(kids) /\ DOMAIN kids = DOMAIN C \cup {Root} /\ kids[Root] = <<r>>
        /\ \A n \in DOMAIN C : Len(kids[n]) = Len(C[n]) /\ ToSet(kids[n]) = ToSet(C[n])
    BY DEF Mirrors
  <1>2. DOMAIN C \subseteq {n \in Int : n < 0} /\ p \in Int /\ p < 0 /\ p # Root
        /\ Root \notin DOMAIN C
    BY DEF Shape, Root
  <1>3. w \notin DOMAIN kids /\ w # p
    <2>1. \A n \in DOMAIN C : n \in Int /\ n < 0 BY <1>2
    <2>2. w # 0 BY DEF Root
    <2>3. \A n \in DOMAIN C : w # n BY <2>1
    <2> QED BY <1>1, <2>2, <2>3 DEF Root
  <1>4. p \in DOMAIN kids /\ Len(kids[p]) = 2 /\ ToSet(kids[p]) = {w, only}
    <2>1. Len(C[p]) = 2 /\ ToSet(C[p]) = {w, only} BY DEF Pair
    <2> QED BY <1>1, <2>1
  <1>5. old \in Seq(Int) /\ IsInjective(old) /\ p \in ToSet(old) /\ only \notin ToSet(old)
    BY <1>1 DEF Kids
  <1>6. at \in 1 .. Len(old) /\ old[at] = p /\ Len(old) \in Nat
    <2>1. DOMAIN old = 1 .. Len(old) /\ Len(old) \in Nat BY <1>5
    <2>2. PICK i \in DOMAIN old : old[i] = p BY <1>5 DEF ToSet
    <2>3. IndexOf(old, old[i]) = i BY <1>5, <2>2, IndexOfElement
    <2> QED BY <2>1, <2>2, <2>3
  <1> HIDE DEF at, old, d
  <1>7. /\ Kids(K1) /\ DOMAIN K1 = DOMAIN kids
        /\ K1[outer] = InsertAt(old, at, only)
        /\ \A n \in DOMAIN kids \ {outer} : K1[n] = RemoveFirst(kids[n], only)
    <2> DEFINE o == outer
    <2>1. o \in DOMAIN kids /\ at \in 1 .. Len(kids[o]) + 1 /\ d \in Int /\ d \notin ToSet(kids[o])
      BY <1>5, <1>6 DEF old, d
    <2> HIDE DEF o
    <2>2. /\ Kids(InsertWidget(kids, o, at, d))
          /\ DOMAIN InsertWidget(kids, o, at, d) = DOMAIN kids
          /\ InsertWidget(kids, o, at, d)[o] = InsertAt(kids[o], at, d)
          /\ \A n \in DOMAIN kids \ {o} : InsertWidget(kids, o, at, d)[n] = RemoveFirst(kids[n], d)
      BY <1>1, <2>1, InsertWidgetKids
    <2>3. K1 = InsertWidget(kids, o, at, d) BY DEF o, at, d
    <2> QED BY <2>2, <2>3 DEF o, d, old
  <1>8. K1[p] \in Seq(Int) /\ ToSet(K1[p]) = {w}
    <2> DEFINE s == kids[p]
    <2>1. s \in Seq(Int) /\ IsInjective(s) BY <1>1, <1>4 DEF Kids
    <2>2. ToSet(s) = {w, only} BY <1>4
    <2>3. K1[p] = RemoveFirst(s, only) BY <1>4, <1>7
    <2> HIDE DEF s
    <2>4. RemoveFirst(s, only) \in Seq(Int) /\ ToSet(RemoveFirst(s, only)) = ToSet(s) \ {only}
      BY <2>1, RemoveFirstElements
    <2> QED BY <2>2, <2>3, <2>4
  <1>9. \A n \in DOMAIN kids \ {outer, p} : K1[n] = kids[n]
    <2>1. \A n \in DOMAIN kids \ {p} : RemoveFirst(kids[n], only) = kids[n]
      BY <1>1, RemoveFirstAbsent DEF Kids
    <2> QED BY <1>7, <2>1
  <1>10. p \in Widgets(K1) BY <1>4, <1>7 DEF Widgets
  <1>11. Under(K1, p) = {w} BY <1>4, <1>7, <1>8 DEF Under
  <1>12. Under(K1, p) \cap DOMAIN K1 \subseteq {p} BY <1>3, <1>7, <1>11
  <1>13. /\ Kids(Detach(K1, p)) /\ DOMAIN Detach(K1, p) = DOMAIN kids
         /\ \A n \in DOMAIN kids :
               /\ Detach(K1, p)[n] = RemoveFirst(K1[n], p)
               /\ p \notin ToSet(K1[n]) => Detach(K1, p)[n] = K1[n]
    <2>1. /\ Kids(Detach(K1, p)) /\ DOMAIN Detach(K1, p) = DOMAIN K1
          /\ \A n \in DOMAIN K1 :
                /\ ToSet(Detach(K1, p)[n]) = ToSet(K1[n]) \ {p}
                /\ Detach(K1, p)[n] = RemoveFirst(K1[n], p)
                /\ p \notin ToSet(K1[n]) => Detach(K1, p)[n] = K1[n]
                /\ p \in ToSet(K1[n]) => Len(Detach(K1, p)[n]) = Len(K1[n]) - 1
      BY <1>7, DetachKids
    <2> QED BY <1>7, <2>1
  <1>14. /\ Kids(K) /\ DOMAIN K = DOMAIN kids \ {p}
         /\ \A n \in DOMAIN kids \ {p} : K[n] = Detach(K1, p)[n]
    <2> DEFINE e == Detach(K1, p)
               X == {p} \cup Under(K1, p)
    <2>1. Kids(e) /\ DOMAIN e \ X = DOMAIN kids \ {p} /\ DOMAIN e = DOMAIN kids
      BY <1>3, <1>11, <1>13
    <2> HIDE DEF e, X
    <2>2. /\ Kids(Drop(e, X)) /\ DOMAIN Drop(e, X) = DOMAIN e \ X
          /\ \A n \in DOMAIN e \ X : Drop(e, X)[n] = e[n]
      BY <2>1, DropKids
    <2>3. K = Drop(e, X) BY DEF e, X
    <2> HIDE DEF K
    <2> QED BY <2>1, <2>2, <2>3 DEF e
  <1> HIDE DEF K
  <1>15. \A n \in DOMAIN kids \ {outer, p} : K[n] = kids[n] BY <1>9, <1>13, <1>14
  <1>16. /\ K[outer] \in Seq(Int) /\ IsInjective(K[outer]) /\ Len(K[outer]) = Len(old)
         /\ ToSet(K[outer]) = (ToSet(old) \ {p}) \cup {only}
    <2>1. old \in Seq(Int) /\ at \in 1 .. Len(old) /\ d \in Int /\ IsInjective(old)
          /\ d \notin ToSet(old)
      BY <1>5, <1>6 DEF d
    <2> DEFINE t == RemoveFirst(InsertAt(old, at, d), old[at])
    <2>2. /\ t \in Seq(Int) /\ Len(t) = Len(old)
          /\ ToSet(t) = (ToSet(old) \ {old[at]}) \cup {d}
          /\ IsInjective(t)
      BY <2>1, InsertThenRemove
    <2>3. K[outer] = t BY <1>6, <1>7, <1>13, <1>14 DEF d
    <2> QED BY <1>6, <2>2, <2>3 DEF d
  <1>17. K[Root] = <<r1>>
    <2>1. CASE p = r
      <3>1. outer = Root /\ old = <<r>> BY <1>1, <2>1 DEF old
      <3>2. ToSet(old) = {r} BY <3>1 DEF ToSet
      <3>3. K[Root] \in Seq(Int) /\ IsInjective(K[Root]) /\ ToSet(K[Root]) = {only}
        BY <1>16, <2>1, <3>1, <3>2
      <3>4. K[Root] = <<only>> BY <3>3, OnlyElement
      <3> QED BY <2>1, <3>4 DEF NestedRoot
    <2>2. CASE p # r
      <3>1. outer # Root BY <1>2, <2>2
      <3>2. K[Root] = kids[Root] BY <1>1, <1>2, <1>15, <3>1
      <3> QED BY <1>1, <2>2, <3>2 DEF NestedRoot
    <2> QED BY <2>1, <2>2
  <1>18. ASSUME NEW n \in DOMAIN D PROVE Len(K[n]) = Len(D[n]) /\ ToSet(K[n]) = ToSet(D[n])
    <2>0. n \in DOMAIN C /\ n # p /\ n \in DOMAIN kids /\ D[n] = ReplaceAll(C[n], p, only)
      BY <1>1
    <2> DEFINE c == C[n]
               S == Items(C, W) \cup {d}
               e == p
    <2>1. c \in Seq(S) /\ d \in S
      <3>1. c \in Seq(Items(C, W)) BY <2>0, ChildrenInjective
      <3> QED BY <3>1, SeqMonotonic
    <2>2. ToSet(c) = ToSet(kids[n]) /\ Len(c) = Len(kids[n]) BY <1>1, <2>0
    <2>3. D[n] = ReplaceAll(c, e, d) BY <2>0 DEF d
    <2> HIDE DEF c, S, e
    <2>4. CASE n = outer
      <3>1. e \in ToSet(c) BY <1>5, <2>2, <2>4 DEF old, e
      <3>2. Len(ReplaceAll(c, e, d)) = Len(c)
            /\ ToSet(ReplaceAll(c, e, d)) = (ToSet(c) \ {e}) \cup {d}
        BY <2>1, <3>1, Replaced
      <3> QED BY <1>16, <2>2, <2>3, <2>4, <3>2 DEF d, e, old
    <2>5. CASE n # outer
      <3>1. e \notin ToSet(c) BY <2>0, <2>2, <2>5 DEF e
      <3>2. ReplaceAll(c, e, d) = c BY <2>1, <3>1, ReplaceAllAbsent
      <3>3. K[n] = kids[n] BY <1>15, <2>0, <2>5
      <3> QED BY <2>2, <2>3, <3>2, <3>3
    <2> QED BY <2>4, <2>5
  <1>19. DOMAIN K = DOMAIN D \cup {Root} BY <1>1, <1>2, <1>14
  <1>20. Mirrors(K, D, r1) BY <1>14, <1>17, <1>18, <1>19 DEF Mirrors
  <1> QED BY <1>7, <1>10, <1>12, <1>20 DEF K, K1

\* The frame g is f without the window w in the tree and among the widgets; V
\* are the windows left.
Deleted(f, w, V, g) ==
    \E r, C, o, kids :
       /\ g = Made(r, C, o, f.windows, f.current, f.buffer, f.map \ {w}, kids, f.made, f.twice)
       /\ LeavesAre(C, r, V)
       /\ Oriented(C, o)
       /\ DOMAIN C \subseteq DOMAIN f.children
       /\ Mirrors(kids, C, r)

\* The containers without window w, which p holds.
Cut(f, w, p) ==
    [f EXCEPT !.map = @ \ {w}, !.children[p] = RemoveFirst(f.children[p], w)]

LEMMA CutFrame ==
  ASSUME NEW f, FrameOK(f), NEW w, NEW p
  PROVE Cut(f, w, p)
          = Made(f.root, [f.children EXCEPT ![p] = RemoveFirst(f.children[p], w)], f.orient,
                 f.windows, f.current, f.buffer, f.map \ {w}, f.kids, f.made, f.twice)
  <1> DEFINE m == f.map \ {w}
             D == [f.children EXCEPT ![p] = RemoveFirst(f.children[p], w)]
             g1 == [f EXCEPT !.map = m]
             g2 == [g1 EXCEPT !.children = D]
  <1>0. IsFrame(f) BY DEF FrameOK
  <1>1. g1 = Made(f.root, f.children, f.orient, f.windows, f.current, f.buffer, m,
                  f.kids, f.made, f.twice)
    <2> HIDE DEF m
    <2> QED BY <1>0, FrameExcept
  <1>2. Cut(f, w, p) = [f EXCEPT !.map = m, !.children = D] BY DEF Cut
  <1>3. [f EXCEPT !.map = m, !.children = D] = g2
    <2> HIDE DEF m, D
    <2> QED OBVIOUS
  <1> HIDE DEF g1, m, D
  <1>4. g2 = Made(f.root, D, f.orient, f.windows, f.current, f.buffer, m, f.kids, f.made,
                  f.twice)
    BY <1>1 DEF Made
  <1> QED BY <1>2, <1>3, <1>4 DEF m, D

\* The facts a deletion starts from.
LEMMA DeleteFacts ==
  ASSUME NEW f, FrameOK(f), NEW k, k \in 1 .. Len(f.windows), Len(f.windows) >= 2,
         NEW w, At(f.windows, k, w)
  PROVE /\ w \in ToSet(f.windows) /\ w # f.root /\ w \in Items(f.children, f.windows)
        /\ \E p \in DOMAIN f.children : Parents(f.children, w) = {p} /\ w \in ToSet(f.children[p])
  <1> DEFINE C == f.children
             W == f.windows
             r == f.root
  <1>0. w = W[k] BY DEF At
  <1>1. PICK lo, hi : Tree(C, r, W, lo, hi) BY DEF FrameOK, LeavesAre
  <1>2. Shape(C, r, W) BY <1>1 DEF Tree
  <1>3. W[k] # r /\ W[k] \in Items(C, W) BY <1>1, WindowNotRoot
  <1>4. w \in ToSet(W)
    <2>1. DOMAIN W = 1 .. Len(W) BY FrameShape
    <2> QED BY <1>0, <2>1 DEF ToSet
  <1>5. w \in Items(C, W) /\ w # r BY <1>0, <1>3
  <1> HIDE DEF C, W, r
  <1>6. PICK p \in DOMAIN C : \E q \in 1 .. Len(C[p]) :
           C[p][q] = w /\ Parents(C, w) = {p} /\ q \in DOMAIN C[p]
    BY <1>2, <1>5, ParentExists
  <1>7. w \in ToSet(C[p]) BY <1>6 DEF ToSet
  <1> QED BY <1>4, <1>5, <1>6, <1>7 DEF C, W, r

\* A deletion from a split of three or more.
LEMMA NarrowFrame ==
  ASSUME NEW f, FrameOK(f), NEW k, k \in 1 .. Len(f.windows), Len(f.windows) >= 2,
         NEW w, At(f.windows, k, w), NEW p, p \in DOMAIN f.children, w \in ToSet(f.children[p]),
         Len(RemoveFirst(f.children[p], w)) # 1
  PROVE Deleted(f, w, RemoveAt(f.windows, k), Destroy(Cut(f, w, p), w))
  <1> DEFINE C == f.children
             W == f.windows
             r == f.root
             D == [C EXCEPT ![p] = RemoveFirst(C[p], w)]
             V == RemoveAt(W, k)
             m == f.map \ {w}
             cut == Cut(f, w, p)
             K == Drop(Detach(f.kids, w), {w})
  <1>1. cut = Made(r, D, f.orient, f.windows, f.current, f.buffer, m, f.kids, f.made, f.twice)
    BY CutFrame
  <1>2. w \in ToSet(W) /\ w # r BY DeleteFacts
  <1>3. PICK lo, hi : Tree(C, r, W, lo, hi) BY DEF FrameOK, LeavesAre
  <1>4. Branching(C) /\ Mirrors(f.kids, C, r) /\ Oriented(C, f.orient) BY DEF FrameOK, LeavesAre
  <1>5. DOMAIN D = DOMAIN C /\ D[p] = RemoveFirst(C[p], w) /\ \A n \in DOMAIN C \ {p} : D[n] = C[n]
    OBVIOUS
  <1>6. p \in DOMAIN C /\ w \in ToSet(C[p]) /\ k \in 1 .. Len(W) /\ At(W, k, w) /\ Len(D[p]) # 1
    BY <1>5
  <1>7. Shape(C, r, W) BY <1>3 DEF Tree
  <1>8. Len(C[p]) \in Nat /\ Len(C[p]) >= 2 BY <1>4, <1>6, <1>7, ChildrenInjective DEF Branching
  <1> HIDE DEF C, W, r, D, m, cut
  <1>9. /\ \E lo2, hi2 : Tree(D, r, RemoveAt(W, k), lo2, hi2)
        /\ D[p] \in Seq(Items(C, W)) /\ IsInjective(D[p])
        /\ Len(D[p]) = Len(C[p]) - 1
        /\ \A e : e \in ToSet(D[p]) <=> e \in ToSet(C[p]) /\ e # w
    BY <1>3, <1>4, <1>5, <1>6, DeleteTree
  <1>10. Branching(D)
    <2> SUFFICES ASSUME NEW n \in DOMAIN D PROVE Len(D[n]) >= 2 BY DEF Branching
    <2>1. CASE n = p BY <1>6, <1>8, <1>9, <2>1
    <2>2. CASE n # p BY <1>4, <1>5, <2>2 DEF Branching
    <2> QED BY <2>1, <2>2
  <1>11. LeavesAre(D, r, V) BY <1>9, <1>10 DEF LeavesAre
  <1>12. w \in Widgets(f.kids) /\ w \notin DOMAIN f.kids /\ Mirrors(K, D, r)
    BY <1>2, <1>4, <1>5, <1>6, <1>7, NarrowKids
  <1>13. Oriented(D, f.orient) BY <1>4, <1>5 DEF Oriented
  <1>14. /\ IsFrame(cut) /\ cut.root = r /\ cut.children = D /\ cut.orient = f.orient
         /\ cut.windows = f.windows /\ cut.current = f.current /\ cut.buffer = f.buffer
         /\ cut.map = m /\ cut.kids = f.kids /\ cut.made = f.made /\ cut.twice = f.twice
    BY <1>1 DEF Made, IsFrame
  <1>15. Kids(cut.kids) BY <1>4, <1>14 DEF Mirrors
  <1>16. Under(cut.kids, w) = {} BY <1>12, <1>14 DEF Under
  <1>17. Destroy(cut, w) = [cut EXCEPT !.kids = Drop(Detach(cut.kids, w), {w} \cup Under(cut.kids, w))]
    BY <1>12, <1>14, <1>15, <1>16, DestroyOne
  <1>18. Drop(Detach(cut.kids, w), {w} \cup Under(cut.kids, w)) = K
    <2>1. {w} \cup Under(cut.kids, w) = {w} BY <1>16
    <2> QED BY <1>14, <2>1
  <1> HIDE DEF K
  <1>19. Destroy(cut, w) = [cut EXCEPT !.kids = K] BY <1>17, <1>18
  <1>20. [cut EXCEPT !.kids = K]
           = Made(r, D, f.orient, f.windows, f.current, f.buffer, m, K, f.made, f.twice)
    BY <1>1 DEF Made
  <1>21. DOMAIN D \subseteq DOMAIN f.children BY <1>5 DEF C
  <1> QED BY <1>11, <1>12, <1>13, <1>19, <1>20, <1>21 DEF Deleted, m, cut, W

\* A deletion from a split of two, which goes.
LEMMA UnwrapFrame ==
  ASSUME NEW f, FrameOK(f), NEW k, k \in 1 .. Len(f.windows), Len(f.windows) >= 2,
         NEW w, At(f.windows, k, w), NEW p, p \in DOMAIN f.children, w \in ToSet(f.children[p]),
         Len(RemoveFirst(f.children[p], w)) = 1,
         NEW only, At(RemoveFirst(f.children[p], w), 1, only)
  PROVE Deleted(f, w, RemoveAt(f.windows, k), Unwrap(Cut(f, w, p), p, only))
  <1> DEFINE C == f.children
             W == f.windows
             r == f.root
             D == [C EXCEPT ![p] = RemoveFirst(C[p], w)]
             V == RemoveAt(W, k)
             m == f.map \ {w}
             cut == Cut(f, w, p)
             gs == Parents(C, p)
             outer == IF gs = {} THEN Root ELSE CHOOSE a \in gs : TRUE
             U == Unwrapped(D, r, p, outer, only)
             r1 == NestedRoot(r, p, only)
             o1 == Drop(f.orient, {p})
             K1 == InsertWidget(f.kids, outer, IndexOf(f.kids[outer], p), only)
             K == Drop(Detach(K1, p), {p} \cup Under(K1, p))
  <1>1. cut = Made(r, D, f.orient, f.windows, f.current, f.buffer, m, f.kids, f.made, f.twice)
    BY CutFrame
  <1>2. w \in ToSet(W) /\ w # r /\ w \in Items(C, W) BY DeleteFacts
  <1>3. PICK lo, hi : Tree(C, r, W, lo, hi) BY DEF FrameOK, LeavesAre
  <1>4. Branching(C) /\ Mirrors(f.kids, C, r) /\ Oriented(C, f.orient) BY DEF FrameOK, LeavesAre
  <1>5. DOMAIN D = DOMAIN C /\ D[p] = RemoveFirst(C[p], w) /\ \A n \in DOMAIN C \ {p} : D[n] = C[n]
    OBVIOUS
  <1>6. p \in DOMAIN C /\ w \in ToSet(C[p]) /\ k \in 1 .. Len(W) /\ At(W, k, w) OBVIOUS
  <1>o. Len(D[p]) = 1 /\ At(D[p], 1, only) BY <1>5
  <1>7. Shape(C, r, W) BY <1>3 DEF Tree
  <1>8. p \in Items(C, W) BY <1>6 DEF Items
  <1> HIDE DEF C, W, r, D, m, cut
  <1>9. /\ \E lo2, hi2 : Tree(D, r, RemoveAt(W, k), lo2, hi2)
        /\ D[p] \in Seq(Items(C, W)) /\ IsInjective(D[p])
        /\ Len(D[p]) = Len(C[p]) - 1
        /\ \A e : e \in ToSet(D[p]) <=> e \in ToSet(C[p]) /\ e # w
    BY <1>3, <1>4, <1>5, <1>6, DeleteTree
  <1>10. PICK lo2, hi2 : Tree(D, r, V, lo2, hi2) BY <1>9
  <1>11. /\ outer \in DOMAIN f.kids
         /\ p \in ToSet(f.kids[outer])
         /\ \A n \in DOMAIN f.kids \ {outer} : p \notin ToSet(f.kids[n])
         /\ p = r => outer = Root
         /\ p # r => outer \in DOMAIN C /\ Parents(C, p) = {outer} /\ p \in ToSet(C[outer])
    BY <1>4, <1>7, <1>8, MirroredOnce
  <1>12. gs = {} <=> p = r
    <2>1. p = r => gs = {} BY <1>7, ParentsOfRoot
    <2>2. p # r => gs # {} BY <1>11
    <2> QED BY <2>1, <2>2
  <1>13. Parents(D, p) = gs
    <2>1. p \notin ToSet(C[p])
      <3> SUFFICES ASSUME p \in ToSet(C[p]) PROVE FALSE OBVIOUS
      <3> DEFINE e == p
      <3>1. e \in ToSet(C[p]) OBVIOUS
      <3> HIDE DEF e
      <3>2. e # p BY <1>3, <1>4, <1>6, <3>1, ChildNotSelf
      <3> QED BY <3>2 DEF e
    <2>2. p \notin ToSet(D[p]) BY <1>9, <2>1
    <2>3. \A n \in DOMAIN C : p \in ToSet(D[n]) <=> p \in ToSet(C[n]) BY <1>5, <2>1, <2>2
    <2> QED BY <1>5, <2>3 DEF Parents
  <1> HIDE DEF V, gs, outer
  <1>14. /\ LeavesAre(U, r1, V)
         /\ \A e : e \in DOMAIN U <=> e \in DOMAIN C /\ e # p
         /\ \A n \in DOMAIN C \ {p} : U[n] = ReplaceAll(C[n], p, only)
         /\ Pair(C[p], w, only)
         /\ only # p /\ only # w /\ only \in Items(C, W) /\ only \in ToSet(C[p])
    BY <1>3, <1>4, <1>5, <1>6, <1>o, <1>9, <1>10, <1>11, UnwrapTree
  <1> HIDE DEF U
  <1>15. DOMAIN U = DOMAIN C \ {p} BY <1>14
  <1>16. \A n \in DOMAIN f.kids \ {p} : only \notin ToSet(f.kids[n])
    <2> DEFINE e == only
               out == IF Parents(C, e) = {} THEN Root ELSE CHOOSE a \in Parents(C, e) : TRUE
    <2>1. e \in Items(C, W) /\ e \in ToSet(C[p]) BY <1>14
    <2> HIDE DEF e
    <2>2. p \in Parents(C, e) BY <1>6, <2>1 DEF Parents
    <2>3. e # r BY <1>7, <2>2, ParentsOfRoot
    <2>4. /\ \A n \in DOMAIN f.kids \ {out} : e \notin ToSet(f.kids[n])
          /\ e # r => out \in DOMAIN C /\ Parents(C, e) = {out} /\ e \in ToSet(C[out])
      BY <1>4, <1>7, <2>1, MirroredOnce
    <2> HIDE DEF out
    <2>5. out = p BY <2>2, <2>3, <2>4
    <2> QED BY <2>4, <2>5 DEF e
  <1>17. outer # p
    <2>1. CASE p = r
      <3>1. Root \notin DOMAIN C BY <1>7 DEF Shape, Root
      <3> QED BY <1>6, <1>11, <2>1, <3>1
    <2>2. CASE p # r
      <3> SUFFICES ASSUME outer = p PROVE FALSE OBVIOUS
      <3> DEFINE e == p
      <3>1. e \in ToSet(C[p]) BY <1>11, <2>2
      <3> HIDE DEF e
      <3>2. e # p BY <1>3, <1>4, <1>6, <3>1, ChildNotSelf
      <3> QED BY <3>2 DEF e
    <2> QED BY <2>1, <2>2
  <1>18. w > 0 /\ only \in Int BY <1>2, <1>7, <1>14, ItemsAreNumbers DEF Items
  <1> HIDE DEF r1
  <1>19. /\ p \in Widgets(K1)
         /\ Kids(K1)
         /\ Under(K1, p) \cap DOMAIN K1 \subseteq {p}
         /\ Mirrors(K, U, r1)
    <2>1. \A n \in DOMAIN U : U[n] = ReplaceAll(C[n], p, only) BY <1>14, <1>15
    <2>2. Unwrapping(C, r, W, f.kids, p, w, only, outer, U)
      BY <1>4, <1>6, <1>7, <1>11, <1>14, <1>15, <1>16, <1>17, <1>18, <2>1 DEF Unwrapping
    <2> QED BY <2>2, UnwrapKids DEF r1
  <1> HIDE DEF K1, o1
  <1> DEFINE g1 == [cut EXCEPT !.kids = K1]
             g2 == [g1 EXCEPT !.root = r1]
             g3 == [g2 EXCEPT !.children = U]
             g4 == [g3 EXCEPT !.orient = o1]
             g5 == [g4 EXCEPT !.kids = K]
  <1>20. /\ IsFrame(cut) /\ cut.root = r /\ cut.children = D /\ cut.orient = f.orient
         /\ cut.windows = f.windows /\ cut.current = f.current /\ cut.buffer = f.buffer
         /\ cut.map = m /\ cut.kids = f.kids /\ cut.made = f.made /\ cut.twice = f.twice
    BY <1>1 DEF Made, IsFrame
  <1>21. Unwrap(cut, p, only) = Destroy([cut EXCEPT !.kids = K1, !.root = r1, !.children = U,
                                                    !.orient = o1], p)
    BY <1>12, <1>13, <1>20 DEF Unwrap, K1, r1, NestedRoot, U, Unwrapped, o1, outer, gs
  <1>22. [cut EXCEPT !.kids = K1, !.root = r1, !.children = U, !.orient = o1] = g4 OBVIOUS
  <1> HIDE DEF g1, g2, g3, g4, g5, K
  <1>23. g1 = Made(r, D, f.orient, f.windows, f.current, f.buffer, m, K1, f.made, f.twice)
    BY <1>1 DEF Made, g1
  <1>24. g2 = Made(r1, D, f.orient, f.windows, f.current, f.buffer, m, K1, f.made, f.twice)
    BY <1>23 DEF Made, g2
  <1>25. g3 = Made(r1, U, f.orient, f.windows, f.current, f.buffer, m, K1, f.made, f.twice)
    BY <1>24 DEF Made, g3
  <1>26. g4 = Made(r1, U, o1, f.windows, f.current, f.buffer, m, K1, f.made, f.twice)
    BY <1>25 DEF Made, g4
  <1>27. g4.kids = K1 BY <1>26 DEF Made
  <1>28. Destroy(g4, p) = [g4 EXCEPT !.kids = Drop(Detach(g4.kids, p), {p} \cup Under(g4.kids, p))]
    BY <1>19, <1>27, DestroyOne
  <1>29. Destroy(g4, p) = g5 BY <1>27, <1>28 DEF g5, K
  <1>30. g5 = Made(r1, U, o1, f.windows, f.current, f.buffer, m, K, f.made, f.twice)
    BY <1>26 DEF Made, g5
  <1>31. Oriented(U, o1) BY <1>4, <1>15 DEF Oriented, o1, Drop
  <1>32. DOMAIN U \subseteq DOMAIN f.children BY <1>15 DEF C
  <1> QED BY <1>14, <1>19, <1>21, <1>22, <1>29, <1>30, <1>31, <1>32 DEF Deleted, m, cut, V, W

\* A deletion keeps the invariant and takes the window and its buffer away.
LEMMA DeleteFrameOK ==
  ASSUME NEW f, FrameOK(f), NEW i, i \in 0 .. Len(f.windows) - 1, Len(f.windows) >= 2
  PROVE LET g == DeleteFrame(f, i)
        IN /\ FrameOK(g)
           /\ g.windows = RemoveAt(f.windows, i + 1)
           /\ g.current = SelectAfter(i, Len(f.windows) - 1)
           /\ g.buffer = Drop(f.buffer, {f.windows[i + 1]})
           /\ g.made = f.made
  <1> DEFINE k == i + 1
             W == f.windows
             w == W[k]
             ps == Parents(f.children, w)
             p == CHOOSE q \in ps : TRUE
             rest == RemoveFirst(f.children[p], w)
             cut == Cut(f, w, p)
             h == IF Len(rest) = 1 THEN Unwrap(cut, p, rest[1]) ELSE Destroy(cut, w)
             V == RemoveAt(W, k)
             m == f.map \ {w}
             cur == SelectAfter(i, Len(V))
             b == Drop(f.buffer, {w})
  <1>1. W \in Seq(Nat \ {0}) /\ IsInjective(W) /\ Len(W) \in Nat /\ DOMAIN W = 1 .. Len(W)
    BY FrameShape
  <1>2. k \in 1 .. Len(W) /\ k \in Int /\ i \in Int BY <1>1
  <1>3. /\ f.made \in Nat \ {0} /\ ToSet(W) \subseteq 1 .. f.made
        /\ DOMAIN f.children \subseteq (-f.made) .. -1
        /\ f.buffer \in [ToSet(W) -> Buffers] /\ f.map = ToSet(W) /\ f.twice = FALSE
    BY DEF FrameOK, Numbered
  <1>4. At(W, k, w) BY DEF At
  <1> HIDE DEF k, w
  <1>5. w \in ToSet(W) /\ \E q \in DOMAIN f.children : ps = {q} /\ w \in ToSet(f.children[q])
    BY <1>2, <1>4, DeleteFacts
  <1>6. p \in DOMAIN f.children /\ w \in ToSet(f.children[p]) BY <1>5
  <1> HIDE DEF p, ps
  <1>7. Deleted(f, w, RemoveAt(f.windows, k), h)
    <2>1. CASE Len(rest) = 1
      <3> DEFINE only == rest[1]
      <3>1. At(RemoveFirst(f.children[p], w), 1, only) BY DEF At
      <3>2. h = Unwrap(cut, p, only) BY <2>1
      <3> HIDE DEF only
      <3>3. Deleted(f, w, RemoveAt(f.windows, k), Unwrap(Cut(f, w, p), p, only))
        BY <1>2, <1>4, <1>6, <2>1, <3>1, UnwrapFrame
      <3> QED BY <3>2, <3>3
    <2>2. CASE Len(rest) # 1
      <3>1. h = Destroy(cut, w) BY <2>2
      <3>2. Deleted(f, w, RemoveAt(f.windows, k), Destroy(Cut(f, w, p), w))
        BY <1>2, <1>4, <1>6, <2>2, NarrowFrame
      <3> QED BY <3>1, <3>2
    <2> QED BY <2>1, <2>2
  <1>8. PICK r, C, o, kids :
           /\ h = Made(r, C, o, f.windows, f.current, f.buffer, f.map \ {w}, kids, f.made, f.twice)
           /\ LeavesAre(C, r, RemoveAt(f.windows, k))
           /\ Oriented(C, o)
           /\ DOMAIN C \subseteq DOMAIN f.children
           /\ Mirrors(kids, C, r)
    BY <1>7 DEF Deleted
  <1> HIDE DEF h
  <1> DEFINE g == DeleteFrame(f, i)
             g1 == [h EXCEPT !.windows = V]
             g2 == [g1 EXCEPT !.buffer = b]
             g3 == [g2 EXCEPT !.current = cur]
  <1>9. g = [h EXCEPT !.windows = V, !.buffer = Drop(@, {w}), !.current = cur]
    BY DEF DeleteFrame, h, Cut, p, ps, w, k
  <1>10. h.buffer = f.buffer BY <1>8 DEF Made
  <1>11. g = [h EXCEPT !.windows = V, !.buffer = b, !.current = cur] BY <1>9, <1>10
  <1>12. [h EXCEPT !.windows = V, !.buffer = b, !.current = cur] = g3
    <2> HIDE DEF V, b, cur
    <2> QED OBVIOUS
  <1>13. /\ V \in Seq(Nat \ {0}) /\ Len(V) = Len(W) - 1
         /\ \A e : e \in ToSet(V) <=> e \in ToSet(W) /\ e # w
    <2> DEFINE S == Nat \ {0}
               j == k
    <2>0. W \in Seq(S) /\ j \in 1 .. Len(W) BY <1>1, <1>2
    <2> HIDE DEF S, j, W
    <2>1. /\ RemoveAt(W, j) \in Seq(S)
          /\ Len(RemoveAt(W, j)) = Len(W) - 1
          /\ \A n \in 1 .. j - 1 : RemoveAt(W, j)[n] = W[n]
          /\ \A n \in j .. Len(W) - 1 : RemoveAt(W, j)[n] = W[n + 1]
          /\ ToSet(RemoveAt(W, j)) = ToSet(W) \ {W[j]}
          /\ IsInjective(RemoveAt(W, j))
      BY <1>1, <2>0, RemoveAtElements
    <2>2. W[j] = w BY <1>4 DEF At, j
    <2>3. RemoveAt(W, j) = V BY DEF j
    <2> QED BY <2>1, <2>2, <2>3 DEF S
  <1> HIDE DEF g, g1, g2, g3, b, cur, V, W, m
  <1>14. g1 = Made(r, C, o, V, f.current, f.buffer, m, kids, f.made, f.twice)
    <2>1. h = Made(r, C, o, f.windows, f.current, f.buffer, m, kids, f.made, f.twice) BY <1>8 DEF m
    <2> QED BY <2>1 DEF Made, g1
  <1>15. g2 = Made(r, C, o, V, f.current, b, m, kids, f.made, f.twice) BY <1>14 DEF Made, g2
  <1>16. g3 = Made(r, C, o, V, cur, b, m, kids, f.made, f.twice) BY <1>15 DEF Made, g3
  <1>17. m = ToSet(V) BY <1>3, <1>13 DEF W, m
  <1>18. g = Made(r, C, o, V, cur, b, ToSet(V), kids, f.made, FALSE)
    BY <1>3, <1>11, <1>12, <1>16, <1>17
  <1>19. Len(W) - 1 \in Nat \ {0} /\ cur \in 0 .. Len(V) - 1 /\ cur = SelectAfter(i, Len(W) - 1)
    <2>1. Len(V) = Len(W) - 1 /\ Len(W) \in Nat /\ Len(W) >= 2 /\ i \in 0 .. Len(W) - 1
      BY <1>1, <1>13 DEF W
    <2>2. cur = SelectAfter(i, Len(V)) BY DEF cur
    <2> HIDE DEF V, W
    <2> DEFINE nv == Len(V)
               nw == Len(W)
    <2>3. nv = nw - 1 /\ nw \in Nat /\ nw >= 2 /\ i \in 0 .. nw - 1 BY <2>1
    <2> HIDE DEF nv, nw
    <2>4. SelectAfter(i, nv) \in 0 .. nv - 1 BY <2>3 DEF SelectAfter
    <2> QED BY <2>2, <2>3, <2>4 DEF nv, nw
  <1>20. b \in [ToSet(V) -> Buffers]
    <2>1. ToSet(V) = ToSet(W) \ {w} BY <1>13
    <2> QED BY <1>3, <2>1 DEF b, Drop, W
  <1>21. Numbered(C, V, f.made) BY <1>3, <1>8, <1>13 DEF Numbered, W
  <1>22. LeavesAre(C, r, V) BY <1>8 DEF V, W
  <1>23. FrameOK(g) BY <1>8, <1>18, <1>19, <1>20, <1>21, <1>22, MadeOK
  <1>24. g.windows = V /\ g.current = cur /\ g.buffer = b /\ g.made = f.made BY <1>18 DEF Made
  <1> QED BY <1>19, <1>23, <1>24 DEF g, V, W, w, k, b

------------------------------------------------------------------------------
(* One window kept, the others deleted.                                    *)

\* The widgets once the current window is moved to the root splitter: the other
\* windows can be destroyed, and own nothing.
MovedTo(kids, C, r, cur) ==
    /\ Kids(kids)
    /\ DOMAIN kids = DOMAIN C \cup {Root}
    /\ \A n \in DOMAIN C : ToSet(kids[n]) = ToSet(C[n]) \ {cur}
    /\ ToSet(kids[Root]) = {r, cur}

LEMMA MovedKids ==
  ASSUME NEW C, NEW r, NEW W, Shape(C, r, W), NEW kids, Mirrors(kids, C, r),
         NEW cur, cur \in ToSet(W)
  PROVE MovedTo(AddWidget(kids, Root, cur), C, r, cur)
  <1> DEFINE K == AddWidget(kids, Root, cur)
  <1>1. /\ Kids(kids) /\ DOMAIN kids = DOMAIN C \cup {Root} /\ kids[Root] = <<r>>
        /\ \A n \in DOMAIN C : ToSet(kids[n]) = ToSet(C[n])
    BY DEF Mirrors
  <1>2. cur \in Int BY ItemsAreNumbers DEF Items
  <1>3. Root \in DOMAIN kids BY <1>1
  <1>4. /\ Kids(K) /\ DOMAIN K = DOMAIN kids
        /\ K[Root] = Append(RemoveFirst(kids[Root], cur), cur)
        /\ \A n \in DOMAIN kids \ {Root} : K[n] = RemoveFirst(kids[n], cur)
    BY <1>1, <1>2, <1>3, AddWidgetKids
  <1> HIDE DEF K
  <1>5. ASSUME NEW n \in DOMAIN kids
        PROVE /\ RemoveFirst(kids[n], cur) \in Seq(Int)
              /\ ToSet(RemoveFirst(kids[n], cur)) = ToSet(kids[n]) \ {cur}
              /\ IsInjective(RemoveFirst(kids[n], cur))
    <2> DEFINE s == kids[n]
               e == cur
    <2>1. s \in Seq(Int) /\ IsInjective(s) BY <1>1 DEF Kids
    <2> HIDE DEF s, e
    <2>2. /\ RemoveFirst(s, e) \in Seq(Int)
          /\ ToSet(RemoveFirst(s, e)) = ToSet(s) \ {e}
          /\ IsInjective(RemoveFirst(s, e))
      BY <2>1, RemoveFirstElements
    <2> QED BY <2>2 DEF s, e
  <1>6. ASSUME NEW n \in DOMAIN C PROVE ToSet(K[n]) = ToSet(C[n]) \ {cur}
    <2>1. n # Root BY DEF Shape, Root
    <2>2. n \in DOMAIN kids \ {Root} BY <1>1, <2>1
    <2> QED BY <1>1, <1>4, <1>5, <2>2
  <1>7. ToSet(K[Root]) = {r, cur}
    <2> DEFINE s == RemoveFirst(kids[Root], cur)
               e == cur
    <2>1. ToSet(<<r>>) = {r} BY DEF ToSet
    <2>2. s \in Seq(Int) /\ ToSet(s) = {r} \ {cur} /\ IsInjective(s) BY <1>1, <1>3, <1>5, <2>1
    <2>3. e \in Int /\ e \notin ToSet(s) BY <1>2, <2>2
    <2> HIDE DEF s, e
    <2>4. ToSet(Append(s, e)) = ToSet(s) \cup {e} BY <2>2, <2>3, AppendElements
    <2> QED BY <1>4, <2>2, <2>4 DEF s, e
  <1> QED BY <1>1, <1>4, <1>6, <1>7 DEF MovedTo, K

\* A frame with other widgets.
WithKids(f, kids) == [f EXCEPT !.kids = kids]

\* The windows of W other than the current one.
AllBut(X, W, cur) == \A e : e \in X <=> e \in ToSet(W) /\ e # cur

HasKids(f, kids) == IsFrame(f) /\ f.kids = kids

\* The other windows destroyed one after the other.
LEMMA OthersDestroyed ==
  ASSUME NEW C, NEW r, NEW W, Shape(C, r, W), NEW base, Mirrors(base, C, r),
         NEW cur, NEW moved, MovedTo(moved, C, r, cur), NEW f, HasKids(f, moved),
         NEW ws, ws \in Seq(Nat \ {0}), IsInjective(ws),
         AllBut(ToSet(ws), W, cur)
  PROVE \E kids : DestroyAll(f, ws) = WithKids(f, kids) /\ Without(kids, moved, ToSet(ws))
  <1> DEFINE K == f.kids
  <1>1. ws \in Seq(Int) /\ DOMAIN ws = 1 .. Len(ws)
    <2>1. Nat \ {0} \subseteq Int OBVIOUS
    <2> QED BY <2>1
  <1>2. /\ Kids(K) /\ DOMAIN K = DOMAIN C \cup {Root}
        /\ \A n \in DOMAIN C : ToSet(K[n]) = ToSet(C[n]) \ {cur}
        /\ ToSet(K[Root]) = {r, cur}
    BY DEF MovedTo, HasKids
  <1>3. \A n \in DOMAIN C : n \in Int /\ n < 0 BY DEF Shape
  <1> HIDE DEF K
  <1>4. ASSUME NEW i \in 1 .. Len(ws)
        PROVE /\ \E s \in DOMAIN K : /\ ws[i] \in ToSet(K[s])
                                     /\ \A j \in 1 .. i - 1 : ws[j] # s
              /\ \A x \in Under(K, ws[i]) : \E j \in 1 .. i - 1 : ws[j] = x
    <2> DEFINE w == ws[i]
               outer == IF Parents(C, w) = {} THEN Root ELSE CHOOSE p \in Parents(C, w) : TRUE
    <2>1. w \in ToSet(ws) BY <1>1 DEF ToSet
    <2>2. w \in ToSet(W) /\ w # cur BY <2>1 DEF AllBut
    <2>3. w \in Items(C, W) BY <2>2 DEF Items
    <2>4. /\ w = r => outer = Root
          /\ w # r => outer \in DOMAIN C /\ w \in ToSet(C[outer])
      <3> HIDE DEF w
      <3> QED BY <2>3, MirroredOnce
    <2>5. w > 0 /\ w \in Int BY <2>2, <2>3, ItemsAreNumbers
    <2> HIDE DEF w, outer
    <2>6. outer \in DOMAIN K /\ w \in ToSet(K[outer])
      <3>1. CASE w = r BY <1>2, <2>4, <3>1
      <3>2. CASE w # r BY <1>2, <2>2, <2>4, <3>2
      <3> QED BY <3>1, <3>2
    <2>7. \A n \in DOMAIN K : n \in Int /\ n <= 0 BY <1>2, <1>3 DEF Root
    <2>8. \A j \in 1 .. i - 1 : ws[j] # outer
      <3>1. ASSUME NEW j \in 1 .. i - 1 PROVE ws[j] \in Int /\ ws[j] > 0
        <4>1. j \in 1 .. Len(ws) OBVIOUS
        <4>2. ws[j] \in Nat \ {0} BY <4>1
        <4> QED BY <4>2
      <3> QED BY <2>6, <2>7, <3>1
    <2>9. Under(K, w) = {} BY <2>5, <2>7 DEF Under
    <2>10. \A x \in Under(K, w) : \E j \in 1 .. i - 1 : ws[j] = x BY <2>9
    <2> QED BY <2>6, <2>8, <2>10 DEF w
  <1>5. \E kids : DestroyAll(f, ws) = [f EXCEPT !.kids = kids] /\ Without(kids, f.kids, ToSet(ws))
    <2> DEFINE v == ws
    <2>1. v \in Seq(Int) /\ IsInjective(v) BY <1>1
    <2>2. \A i \in 1 .. Len(v) :
            /\ \E s \in DOMAIN f.kids : /\ v[i] \in ToSet(f.kids[s])
                                        /\ \A j \in 1 .. i - 1 : v[j] # s
            /\ \A x \in Under(f.kids, v[i]) : \E j \in 1 .. i - 1 : v[j] = x
      BY <1>4 DEF K
    <2>3. Kids(f.kids) /\ IsFrame(f) BY <1>2 DEF K, HasKids
    <2> HIDE DEF v
    <2>4. \E kids : DestroyAll(f, v) = [f EXCEPT !.kids = kids] /\ Without(kids, f.kids, ToSet(v))
      BY <2>1, <2>2, <2>3, DestroyAllWithout
    <2> QED BY <2>4 DEF v
  <1> QED BY <1>5 DEF WithKids, HasKids

\* The splitters destroyed after them, innermost first.
LEMMA SplittersDestroyed ==
  ASSUME NEW C, NEW r, NEW W, NEW lo, NEW hi, Tree(C, r, W, lo, hi), Branching(C),
         NEW base, Mirrors(base, C, r), NEW cur, cur \in ToSet(W),
         NEW moved, MovedTo(moved, C, r, cur),
         NEW X, AllBut(X, W, cur), NEW bare, Without(bare, moved, X),
         NEW f, HasKids(f, bare)
  PROVE \E kids : /\ DestroyAll(f, SubSplitters(C, r)) = WithKids(f, kids)
                  /\ Mirrors(kids, <<>>, cur)
  <1> DEFINE ws == SubSplitters(C, r)
             K == f.kids
  <1>1. Shape(C, r, W) BY DEF Tree
  <1>2. Listed(C, ws) /\ ToSet(ws) = DOMAIN C BY SubSplittersListed
  <1>3. ws \in Seq(DOMAIN C) /\ IsInjective(ws) /\ ChildrenFirst(C, ws) BY <1>2 DEF Listed
  <1>4. \A n \in DOMAIN C : n \in Int /\ n < 0 BY <1>1 DEF Shape
  <1>5. \A e \in ToSet(W) : e > 0 /\ e \in Int BY <1>1, ItemsAreNumbers DEF Items
  <1>6. /\ Kids(K)
        /\ DOMAIN K = DOMAIN C \cup {Root}
        /\ \A n \in DOMAIN C : ToSet(K[n]) = (ToSet(C[n]) \ {cur}) \ X
        /\ ToSet(K[Root]) = {r, cur} \ X
    <2>1. \A n \in DOMAIN C \cup {Root} : n \notin X BY <1>4, <1>5 DEF Root, AllBut
    <2>2. DOMAIN K = DOMAIN C \cup {Root} BY <2>1 DEF Without, MovedTo, HasKids
    <2> QED BY <2>2 DEF Without, MovedTo, HasKids
  <1>7. \A i \in 1 .. Len(ws) : ws[i] \in DOMAIN C BY <1>3
  <1>8. DOMAIN ws = 1 .. Len(ws) /\ ws \in Seq(Int) /\ Len(ws) \in Nat BY <1>3, <1>4
  <1> HIDE DEF ws, K
  <1>9. ASSUME NEW i \in 1 .. Len(ws)
        PROVE /\ \E s \in DOMAIN K : /\ ws[i] \in ToSet(K[s])
                                     /\ \A j \in 1 .. i - 1 : ws[j] # s
              /\ \A x \in Under(K, ws[i]) : \E j \in 1 .. i - 1 : ws[j] = x
    <2> DEFINE w == ws[i]
               outer == IF Parents(C, w) = {} THEN Root ELSE CHOOSE p \in Parents(C, w) : TRUE
    <2>1. w \in DOMAIN C BY <1>7
    <2>2. w \in Items(C, W) BY <2>1 DEF Items
    <2>3. /\ w = r => outer = Root
          /\ w # r => outer \in DOMAIN C /\ w \in ToSet(C[outer])
      <3> HIDE DEF w
      <3> QED BY <1>1, <2>2, MirroredOnce
    <2>4. w \notin X /\ w # cur BY <1>4, <1>5, <2>1 DEF AllBut
    <2>5. \A j \in 1 .. Len(ws) : \A x \in ToSet(C[ws[j]]) \cap DOMAIN C :
             \E m \in 1 .. j - 1 : ws[m] = x
      BY <1>3 DEF ChildrenFirst
    <2>6. outer \in DOMAIN K /\ w \in ToSet(K[outer])
      <3> HIDE DEF w, outer
      <3>1. CASE w = r BY <1>6, <2>3, <2>4, <3>1
      <3>2. CASE w # r BY <1>6, <2>3, <2>4, <3>2
      <3> QED BY <3>1, <3>2
    <2>7. ASSUME NEW j \in 1 .. i - 1, ws[j] = outer PROVE FALSE
      <3>1. j \in 1 .. Len(ws) BY <1>8
      <3>2. outer \in DOMAIN C BY <1>7, <2>7, <3>1
      <3>3. outer # Root BY <1>4, <3>2 DEF Root
      <3>4. w \in ToSet(C[ws[j]]) \cap DOMAIN C BY <2>1, <2>3, <2>7, <3>3
      <3>5. PICK m \in 1 .. j - 1 : ws[m] = w BY <2>5, <3>1, <3>4
      <3>6. m \in DOMAIN ws /\ i \in DOMAIN ws /\ m # i BY <1>8, <3>1
      <3> QED BY <1>3, <3>5, <3>6 DEF IsInjective
    <2>8. ASSUME NEW x \in Under(K, w) PROVE \E j \in 1 .. i - 1 : ws[j] = x
      <3>1. x \in ToSet(C[w]) /\ x # cur /\ x \notin X BY <1>6, <2>1, <2>8 DEF Under, AllBut
      <3>2. x \in Items(C, W)
        <4>1. PICK q \in DOMAIN C[w] : C[w][q] = x BY <3>1 DEF ToSet
        <4>2. q \in 1 .. Len(C[w])
          <5>1. C[w] \in Seq(Items(C, W)) BY <1>1, <2>1 DEF Shape
          <5> QED BY <4>1, <5>1
        <4> HIDE DEF w
        <4> QED BY <1>1, <2>1, <4>1, <4>2, ChildIsItem
      <3>3. x \in DOMAIN C BY <3>1, <3>2 DEF Items, AllBut
      <3> QED BY <2>5, <3>1, <3>3
    <2> QED BY <2>6, <2>7, <2>8
  <1>10. PICK kids : DestroyAll(f, ws) = [f EXCEPT !.kids = kids] /\ Without(kids, K, ToSet(ws))
    <2> DEFINE v == ws
    <2>1. v \in Seq(Int) /\ IsInjective(v) BY <1>3, <1>8
    <2>2. \A i \in 1 .. Len(v) :
            /\ \E s \in DOMAIN f.kids : /\ v[i] \in ToSet(f.kids[s])
                                        /\ \A j \in 1 .. i - 1 : v[j] # s
            /\ \A x \in Under(f.kids, v[i]) : \E j \in 1 .. i - 1 : v[j] = x
      BY <1>9 DEF K
    <2>3. Kids(f.kids) /\ IsFrame(f) BY <1>6 DEF K, HasKids
    <2> HIDE DEF v
    <2>4. \E kids : DestroyAll(f, v) = [f EXCEPT !.kids = kids] /\ Without(kids, f.kids, ToSet(v))
      BY <2>1, <2>2, <2>3, DestroyAllWithout
    <2> QED BY <2>4 DEF v, K
  <1>11. Kids(kids) /\ DOMAIN kids = {Root} /\ ToSet(kids[Root]) = {cur}
    <2>1. Root \notin DOMAIN C BY <1>4 DEF Root
    <2>2. DOMAIN kids = {Root} BY <1>2, <1>6, <1>10, <2>1 DEF Without
    <2>3. ToSet(kids[Root]) = ({r, cur} \ X) \ DOMAIN C BY <1>2, <1>6, <1>10, <2>2 DEF Without
    <2>4. r \in DOMAIN C \/ r \in ToSet(W) BY <1>1 DEF Shape, Items
    <2>5. cur \notin X /\ cur \notin DOMAIN C BY <1>4, <1>5 DEF AllBut
    <2>6. r = cur \/ r \in X \/ r \in DOMAIN C BY <2>4 DEF AllBut
    <2> QED BY <1>10, <2>2, <2>3, <2>5, <2>6 DEF Without
  <1>12. kids[Root] = <<cur>>
    <2> DEFINE k == kids[Root]
    <2>1. k \in Seq(Int) /\ IsInjective(k) /\ ToSet(k) = {cur} BY <1>11 DEF Kids
    <2> HIDE DEF k
    <2>2. k = <<cur>> BY <2>1, OnlyElement
    <2> QED BY <2>2 DEF k
  <1>13. Mirrors(kids, <<>>, cur)
    <2>1. DOMAIN <<>> = {} OBVIOUS
    <2> DEFINE D == <<>>
    <2>2. DOMAIN D = {} OBVIOUS
    <2> HIDE DEF D
    <2>3. Mirrors(kids, D, cur) BY <1>11, <1>12, <2>2 DEF Mirrors
    <2> QED BY <2>3 DEF D
  <1> QED BY <1>10, <1>13 DEF ws, WithKids

\* A frame with one window.
LEMMA OneWindowFrame ==
  ASSUME NEW cur \in Nat \ {0}, NEW b, NEW kids, NEW made,
         made \in Nat, cur <= made, b \in [{cur} -> Buffers], Mirrors(kids, <<>>, cur)
  PROVE FrameOK(Made(cur, <<>>, <<>>, <<cur>>, 0, b, {cur}, kids, made, FALSE))
  <1> DEFINE W == <<cur>>
             C == <<>>
             o == <<>>
             u == 0
  <1>1. ToSet(W) = {cur} /\ Len(W) = 1 BY DEF ToSet
  <1>2. DOMAIN C = {} /\ DOMAIN o = {} OBVIOUS
  <1>3. LeavesAre(C, cur, W) BY OneWindow
  <1>4. u \in 0 .. Len(W) - 1 OBVIOUS
  <1> HIDE DEF W, C, o, u
  <1>5. Oriented(C, o) BY <1>2 DEF Oriented
  <1>6. Numbered(C, W, made) BY <1>1, <1>2 DEF Numbered
  <1>7. b \in [ToSet(W) -> Buffers] /\ Mirrors(kids, C, cur) BY <1>1 DEF C
  <1>8. FrameOK(Made(cur, C, o, W, u, b, ToSet(W), kids, made, FALSE))
    BY <1>3, <1>4, <1>5, <1>6, <1>7, MadeOK
  <1> QED BY <1>1, <1>8 DEF W, C, o, u

\* Keeping one window keeps the invariant.
LEMMA DeleteOthersFrameOK ==
  ASSUME NEW f, FrameOK(f)
  PROVE LET g == DeleteOthersFrame(f)
        IN /\ FrameOK(g)
           /\ g.windows = <<Current(f)>>
           /\ g.current = 0
           /\ g.made = f.made
  <1> DEFINE C == f.children
             r == f.root
             W == f.windows
             cur == Current(f)
             k == f.current + 1
             ws == RemoveAt(W, k)
             X == ToSet(ws)
             m == f.map \ X
             K1 == AddWidget(f.kids, Root, cur)
             moved == [f EXCEPT !.kids = K1, !.map = m]
             bare == DestroyAll(moved, ws)
             h == DestroyAll(bare, SubSplitters(C, r))
             b == Drop(f.buffer, X)
             g == DeleteOthersFrame(f)
  <1>1. g = [h EXCEPT !.root = cur, !.children = <<>>, !.orient = <<>>,
                      !.windows = <<cur>>, !.current = 0, !.buffer = Drop(@, X)]
    BY DEF DeleteOthersFrame
  <1>2. /\ IsFrame(f) /\ f.made \in Nat \ {0} /\ ToSet(W) \subseteq 1 .. f.made
        /\ f.buffer \in [ToSet(W) -> Buffers] /\ f.map = ToSet(W) /\ f.twice = FALSE
        /\ Mirrors(f.kids, C, r) /\ Branching(C)
    BY DEF FrameOK, Numbered, LeavesAre
  <1>3. PICK lo, hi : Tree(C, r, W, lo, hi) BY DEF FrameOK, LeavesAre
  <1>4. Shape(C, r, W) BY <1>3 DEF Tree
  <1>5. /\ W \in Seq(Nat \ {0}) /\ IsInjective(W) /\ k \in 1 .. Len(W)
        /\ cur \in ToSet(W) /\ cur = W[k]
    BY FrameShape
  <1> HIDE DEF C, r, W, cur, k, g
  <1>6. /\ ws \in Seq(Nat \ {0}) /\ IsInjective(ws)
        /\ \A e : e \in X <=> e \in ToSet(W) /\ e # cur
    <2> DEFINE S == Nat \ {0}
               j == k
    <2>1. W \in Seq(S) /\ j \in 1 .. Len(W) BY <1>5
    <2> HIDE DEF S, j
    <2>2. /\ RemoveAt(W, j) \in Seq(S)
          /\ ToSet(RemoveAt(W, j)) = ToSet(W) \ {W[j]}
          /\ IsInjective(RemoveAt(W, j))
      BY <1>5, <2>1, RemoveAtElements
    <2> QED BY <1>5, <2>2 DEF S, j
  <1> HIDE DEF ws, X
  <1>7. MovedTo(K1, C, r, cur) BY <1>2, <1>4, <1>5, MovedKids
  <1> HIDE DEF K1, m
  <1>8. moved = Made(r, C, f.orient, W, f.current, f.buffer, m, K1, f.made, f.twice)
    <2> DEFINE g1 == [f EXCEPT !.kids = K1]
               g2 == [g1 EXCEPT !.map = m]
    <2>1. moved = g2 OBVIOUS
    <2>2. g1 = Made(f.root, f.children, f.orient, f.windows, f.current, f.buffer, f.map, K1,
                    f.made, f.twice)
      BY <1>2, FrameExcept
    <2> HIDE DEF g1
    <2>3. g2 = Made(f.root, f.children, f.orient, f.windows, f.current, f.buffer, m, K1,
                    f.made, f.twice)
      BY <2>2 DEF Made
    <2> HIDE DEF g2, moved
    <2> QED BY <2>1, <2>3 DEF C, r, W
  <1> HIDE DEF moved
  <1>9. IsFrame(moved) /\ moved.kids = K1 BY <1>8, MadeFields
  <1>10. PICK K2 : bare = WithKids(moved, K2) /\ Without(K2, K1, X)
    <2>1. HasKids(moved, K1) /\ Mirrors(f.kids, C, r) BY <1>2, <1>9 DEF HasKids
    <2>2. AllBut(ToSet(ws), W, cur) BY <1>6 DEF X, AllBut
    <2>3. ws \in Seq(Nat \ {0}) /\ IsInjective(ws) BY <1>6
    <2>4. \E kids : DestroyAll(moved, ws) = WithKids(moved, kids) /\ Without(kids, K1, ToSet(ws))
      BY <1>4, <1>7, <2>1, <2>2, <2>3, OthersDestroyed
    <2> QED BY <2>4 DEF X, bare
  <1> HIDE DEF bare
  <1>11. bare = Made(r, C, f.orient, W, f.current, f.buffer, m, K2, f.made, f.twice)
    BY <1>8, <1>10 DEF Made, WithKids
  <1>12. IsFrame(bare) /\ bare.kids = K2 BY <1>11, MadeFields
  <1>13. PICK K3 : h = WithKids(bare, K3) /\ Mirrors(K3, <<>>, cur)
    <2>1. HasKids(bare, K2) /\ Mirrors(f.kids, C, r) /\ Branching(C) BY <1>2, <1>12 DEF HasKids
    <2>2. AllBut(X, W, cur) /\ cur \in ToSet(W) BY <1>5, <1>6 DEF AllBut
    <2>3. Without(K2, K1, X) BY <1>10
    <2>4. \E kids : /\ DestroyAll(bare, SubSplitters(C, r)) = WithKids(bare, kids)
                    /\ Mirrors(kids, <<>>, cur)
      BY <1>3, <1>7, <2>1, <2>2, <2>3, SplittersDestroyed
    <2> QED BY <2>4 DEF h
  <1> HIDE DEF h
  <1>14. h = Made(r, C, f.orient, W, f.current, f.buffer, m, K3, f.made, f.twice)
    BY <1>11, <1>13 DEF Made, WithKids
  <1>15. h.buffer = f.buffer BY <1>14 DEF Made
  <1>16. m = {cur} BY <1>2, <1>5, <1>6 DEF m, W
  <1>17. b \in [{cur} -> Buffers] BY <1>2, <1>5, <1>6 DEF b, Drop
  <1> DEFINE E == <<>>
             one == <<cur>>
             u == 0
             g1 == [h EXCEPT !.root = cur]
             g2 == [g1 EXCEPT !.children = E]
             g3 == [g2 EXCEPT !.orient = E]
             g4 == [g3 EXCEPT !.windows = one]
             g5 == [g4 EXCEPT !.current = u]
             g6 == [g5 EXCEPT !.buffer = b]
  <1>18. g = [h EXCEPT !.root = cur, !.children = E, !.orient = E,
                       !.windows = one, !.current = u, !.buffer = b]
    BY <1>1, <1>15
  <1> HIDE DEF b, E, one, u, m
  <1>19. [h EXCEPT !.root = cur, !.children = E, !.orient = E,
                   !.windows = one, !.current = u, !.buffer = b] = g6
    OBVIOUS
  <1> HIDE DEF g1, g2, g3, g4, g5, g6
  <1>20. g1 = Made(cur, C, f.orient, W, f.current, f.buffer, m, K3, f.made, f.twice)
    BY <1>14 DEF Made, g1
  <1>21. g2 = Made(cur, E, f.orient, W, f.current, f.buffer, m, K3, f.made, f.twice)
    BY <1>20 DEF Made, g2
  <1>22. g3 = Made(cur, E, E, W, f.current, f.buffer, m, K3, f.made, f.twice)
    BY <1>21 DEF Made, g3
  <1>23. g4 = Made(cur, E, E, one, f.current, f.buffer, m, K3, f.made, f.twice)
    BY <1>22 DEF Made, g4
  <1>24. g5 = Made(cur, E, E, one, u, f.buffer, m, K3, f.made, f.twice)
    BY <1>23 DEF Made, g5
  <1>25. g6 = Made(cur, E, E, one, u, b, m, K3, f.made, f.twice)
    BY <1>24 DEF Made, g6
  <1>26. g = Made(cur, E, E, one, u, b, {cur}, K3, f.made, FALSE)
    BY <1>2, <1>16, <1>18, <1>19, <1>25
  <1>27. cur \in Nat \ {0} /\ cur <= f.made /\ f.made \in Nat BY <1>2, <1>5
  <1>28. FrameOK(g)
    <2>1. FrameOK(Made(cur, <<>>, <<>>, <<cur>>, 0, b, {cur}, K3, f.made, FALSE))
      BY <1>13, <1>17, <1>27, OneWindowFrame
    <2> QED BY <1>26, <2>1 DEF E, one, u
  <1>29. g.windows = one /\ g.current = u /\ g.made = f.made BY <1>26 DEF Made
  <1> QED BY <1>28, <1>29 DEF g, one, u, cur

\* The frame the program starts with.
LEMMA FrameInitOK == FrameOK(FrameInit) /\ FrameInit.windows = <<1>> /\ FrameInit.current = 0
                     /\ FrameInit.made = 1
  <1> DEFINE cur == 1
             b == [w \in {1} |-> Scratch]
             kids == [s \in {Root} |-> <<1>>]
  <1>1. FrameInit = Made(1, <<>>, <<>>, <<1>>, 0, b, {1}, kids, 1, FALSE)
    BY DEF FrameInit, Made
  <1>2. b \in [{1} -> Buffers] BY QtFrameAssumption
  <1>3. /\ DOMAIN kids = {Root} /\ kids[Root] = <<1>>
        /\ kids = [s \in DOMAIN kids |-> kids[s]]
    OBVIOUS
  <1>4. IsInjective(<<1>>) /\ <<1>> \in Seq(Int) BY DEF IsInjective
  <1>5. IsFiniteSet(DOMAIN kids) BY <1>3, FS_Singleton
  <1>6. Mirrors(kids, <<>>, 1)
    <2> DEFINE D == <<>>
               one == <<1>>
    <2>1. DOMAIN D = {} OBVIOUS
    <2> HIDE DEF D, kids, one
    <2>2. Kids(kids) BY <1>3, <1>4, <1>5 DEF Kids, one
    <2>3. kids[Root] = <<1>> BY <1>3
    <2>4. Mirrors(kids, D, 1) BY <1>3, <2>1, <2>2 DEF Mirrors
    <2> QED BY <2>4 DEF D
  <1>7. FrameOK(FrameInit)
    <2> DEFINE made == 1
    <2> HIDE DEF b, kids
    <2>1. cur \in Nat \ {0} /\ made \in Nat /\ cur <= made OBVIOUS
    <2> HIDE DEF cur, made
    <2>2. b \in [{cur} -> Buffers] /\ Mirrors(kids, <<>>, cur) BY <1>2, <1>6 DEF cur
    <2>3. FrameOK(Made(cur, <<>>, <<>>, <<cur>>, 0, b, {cur}, kids, made, FALSE))
      BY <2>1, <2>2, OneWindowFrame
    <2> QED BY <1>1, <2>3 DEF cur, made
  <1> QED BY <1>7 DEF FrameInit

------------------------------------------------------------------------------
(* The other commands, and the theorems about the frame.                   *)

\* Selecting another window.
LEMMA SelectFrameOK ==
  ASSUME NEW f, FrameOK(f), NEW i, i \in 0 .. Len(f.windows) - 1
  PROVE LET g == [f EXCEPT !.current = i]
        IN FrameOK(g) /\ g.windows = f.windows /\ g.current = i /\ g.made = f.made
           /\ g.buffer = f.buffer
  <1> DEFINE g == [f EXCEPT !.current = i]
  <1>1. /\ IsFrame(f) /\ f.map = ToSet(f.windows) /\ f.twice = FALSE
        /\ LeavesAre(f.children, f.root, f.windows) /\ Oriented(f.children, f.orient)
        /\ Numbered(f.children, f.windows, f.made)
        /\ f.buffer \in [ToSet(f.windows) -> Buffers]
        /\ Mirrors(f.kids, f.children, f.root)
    BY DEF FrameOK
  <1>0. g = Made(f.root, f.children, f.orient, f.windows, i, f.buffer, f.map, f.kids, f.made,
                 f.twice)
    <2>1. IsFrame(f) BY DEF FrameOK
    <2> QED BY <2>1, FrameExcept
  <1>2. g = Made(f.root, f.children, f.orient, f.windows, i, f.buffer, ToSet(f.windows),
                 f.kids, f.made, FALSE)
    BY <1>0, <1>1
  <1> HIDE DEF g
  <1>3. FrameOK(g) BY <1>1, <1>2, MadeOK
  <1>4. g.windows = f.windows /\ g.current = i /\ g.made = f.made /\ g.buffer = f.buffer
    BY <1>2 DEF Made
  <1> QED BY <1>3, <1>4 DEF g

\* Showing other buffers.
LEMMA ShowFrameOK ==
  ASSUME NEW f, FrameOK(f), NEW b, b \in [ToSet(f.windows) -> Buffers]
  PROVE LET g == [f EXCEPT !.buffer = b]
        IN FrameOK(g) /\ g.windows = f.windows /\ g.current = f.current /\ g.made = f.made
           /\ g.buffer = b
  <1> DEFINE g == [f EXCEPT !.buffer = b]
  <1>1. /\ IsFrame(f) /\ f.map = ToSet(f.windows) /\ f.twice = FALSE
        /\ LeavesAre(f.children, f.root, f.windows) /\ Oriented(f.children, f.orient)
        /\ Numbered(f.children, f.windows, f.made)
        /\ f.current \in 0 .. Len(f.windows) - 1
        /\ Mirrors(f.kids, f.children, f.root)
    BY DEF FrameOK
  <1>0. g = Made(f.root, f.children, f.orient, f.windows, f.current, b, f.map, f.kids, f.made,
                 f.twice)
    <2>1. IsFrame(f) BY DEF FrameOK
    <2> QED BY <2>1, FrameExcept
  <1>2. g = Made(f.root, f.children, f.orient, f.windows, f.current, b, ToSet(f.windows),
                 f.kids, f.made, FALSE)
    BY <1>0, <1>1
  <1> HIDE DEF g
  <1>3. FrameOK(g) BY <1>1, <1>2, MadeOK
  <1>4. g.windows = f.windows /\ g.current = f.current /\ g.made = f.made /\ g.buffer = b
    BY <1>2 DEF Made
  <1> QED BY <1>3, <1>4 DEF g

\* cmd-other-window
LEMMA OtherWindowOK ==
  ASSUME FrameOK(fr), OtherWindow
  PROVE /\ FrameOK(fr') /\ fr'.made = fr.made /\ fr'.windows = fr.windows
        /\ fr'.current \in 0 .. Len(fr.windows) - 1
  <1> DEFINE i == (fr.current + 1) % Len(fr.windows)
             n == Len(fr.windows)
  <1>1. fr' = [fr EXCEPT !.current = i] BY DEF OtherWindow
  <1>2. n \in Nat \ {0} /\ fr.current \in 0 .. n - 1 BY FrameShape DEF FrameOK
  <1> HIDE DEF n
  <1>3. (fr.current + 1) % n \in 0 .. n - 1 BY <1>2
  <1>4. i \in 0 .. Len(fr.windows) - 1 BY <1>3 DEF n
  <1> HIDE DEF i
  <1> QED BY <1>1, <1>4, SelectFrameOK

\* cmd-switch-buffer
LEMMA SwitchToBufferOK ==
  ASSUME FrameOK(fr), NEW b \in Buffers, SwitchToBuffer(b)
  PROVE /\ FrameOK(fr') /\ fr'.made = fr.made /\ fr'.windows = fr.windows
        /\ fr'.current = fr.current
  <1> DEFINE d == [fr.buffer EXCEPT ![Current(fr)] = b]
  <1>1. fr' = [fr EXCEPT !.buffer = d] BY DEF SwitchToBuffer
  <1>2. fr.buffer \in [ToSet(fr.windows) -> Buffers] BY DEF FrameOK
  <1>3. d \in [ToSet(fr.windows) -> Buffers] BY <1>2
  <1> HIDE DEF d
  <1> QED BY <1>1, <1>3, ShowFrameOK

\* The invariant of the frame, and the bound on the windows ever made.
FrameInv == FrameOK(fr) /\ fr.made <= MaxWindows

LEMMA FrameInvInit ==
  ASSUME Init
  PROVE FrameInv
  <1>1. fr = FrameInit BY DEF Init
  <1>2. FrameOK(fr) /\ fr.made = 1 BY <1>1, FrameInitOK
  <1>3. 1 <= MaxWindows BY QtFrameAssumption
  <1> QED BY <1>2, <1>3 DEF FrameInv

\* What each command does to the list of windows.
LEMMA SplitWindowStep ==
  ASSUME FrameInv, NEW o \in Orientations, SplitWindow(o)
  PROVE /\ FrameInv'
        /\ fr'.windows = InsertAt(fr.windows, fr.current + 2, fr.made + 1)
        /\ fr'.current = fr.current + 1
        /\ fr.made + 1 \in 1 .. MaxWindows
        /\ fr.made + 1 \notin ToSet(fr.windows)
  <1>1. FrameOK(fr) /\ fr' = SplitFrame(fr, o) /\ fr.made < MaxWindows
    BY DEF FrameInv, SplitWindow
  <1>2. /\ FrameOK(fr')
        /\ fr'.windows = InsertAt(fr.windows, fr.current + 2, fr.made + 1)
        /\ fr'.current = fr.current + 1
        /\ fr'.made = fr.made + 1
    BY <1>1, SplitFrameOK
  <1>3. fr.made \in Nat \ {0} /\ ToSet(fr.windows) \subseteq 1 .. fr.made
    BY <1>1 DEF FrameOK, Numbered
  <1>4. fr.made + 1 \in 1 .. MaxWindows /\ fr.made + 1 <= MaxWindows
    BY <1>1, <1>3, QtFrameAssumption
  <1>5. fr.made + 1 \notin ToSet(fr.windows) BY <1>3
  <1> QED BY <1>2, <1>4, <1>5 DEF FrameInv

LEMMA DeleteWindowStep ==
  ASSUME FrameInv, DeleteWindow
  PROVE /\ FrameInv'
        /\ Len(fr.windows) > 1
        /\ fr'.windows = RemoveAt(fr.windows, fr.current + 1)
        /\ fr'.current = IF fr.current = Len(fr.windows) - 1 THEN fr.current - 1 ELSE fr.current
  <1> DEFINE i == fr.current
             n == Len(fr.windows)
  <1>1. FrameOK(fr) /\ fr' = DeleteFrame(fr, i) /\ n > 1 BY DEF FrameInv, DeleteWindow
  <1>2. n \in Nat /\ i \in 0 .. n - 1 BY <1>1, FrameShape DEF FrameOK
  <1>3. i \in 0 .. Len(fr.windows) - 1 /\ Len(fr.windows) >= 2 BY <1>1, <1>2
  <1> HIDE DEF i
  <1>4. /\ FrameOK(fr')
        /\ fr'.windows = RemoveAt(fr.windows, i + 1)
        /\ fr'.current = SelectAfter(i, Len(fr.windows) - 1)
        /\ fr'.made = fr.made
    BY <1>1, <1>3, DeleteFrameOK
  <1>5. SelectAfter(i, n - 1) = IF i = n - 1 THEN i - 1 ELSE i
    <2> HIDE DEF n
    <2> QED BY <1>1, <1>2 DEF SelectAfter
  <1>6. FrameInv' BY <1>4 DEF FrameInv
  <1> QED BY <1>1, <1>4, <1>5, <1>6 DEF i, n

LEMMA DeleteOtherWindowsStep ==
  ASSUME FrameInv, DeleteOtherWindows
  PROVE FrameInv' /\ fr'.windows = <<Current(fr)>> /\ fr'.current = 0
  <1>1. FrameOK(fr) /\ fr' = DeleteOthersFrame(fr) BY DEF FrameInv, DeleteOtherWindows
  <1>2. FrameOK(fr') /\ fr'.windows = <<Current(fr)>> /\ fr'.current = 0 /\ fr'.made = fr.made
    BY <1>1, DeleteOthersFrameOK
  <1> QED BY <1>2 DEF FrameInv

LEMMA FrameInvStep ==
  ASSUME FrameInv, [Next]_fr
  PROVE FrameInv'
  <1>1. ASSUME NEW o \in Orientations, SplitWindow(o) PROVE FrameInv' BY <1>1, SplitWindowStep
  <1>2. CASE DeleteWindow BY <1>2, DeleteWindowStep
  <1>3. CASE DeleteOtherWindows BY <1>3, DeleteOtherWindowsStep
  <1>4. CASE OtherWindow BY <1>4, OtherWindowOK DEF FrameInv
  <1>5. ASSUME NEW b \in Buffers, SwitchToBuffer(b) PROVE FrameInv'
    BY <1>5, SwitchToBufferOK DEF FrameInv
  <1>6. CASE UNCHANGED fr BY <1>6 DEF FrameInv
  <1> QED BY <1>1, <1>2, <1>3, <1>4, <1>5, <1>6 DEF Next

LEMMA FrameInvAlways == Spec => []FrameInv
  <1>1. Init => FrameInv BY FrameInvInit
  <1>2. FrameInv /\ [Next]_fr => FrameInv' BY FrameInvStep
  <1> QED BY <1>1, <1>2, PTL DEF Spec

LEMMA FrameInvTypeOK ==
  ASSUME FrameInv
  PROVE TypeOK
  <1> DEFINE C == fr.children
             W == fr.windows
  <1>1. Shape(C, fr.root, W) BY FrameShape DEF FrameInv
  <1>2. /\ fr.made \in Nat \ {0} /\ ToSet(W) \subseteq 1 .. fr.made
        /\ DOMAIN C \subseteq (-fr.made) .. -1
        /\ DOMAIN fr.orient = DOMAIN C
        /\ \A n \in DOMAIN C : fr.orient[n] \in Orientations
        /\ fr.current \in 0 .. Len(W) - 1
        /\ fr.buffer \in [ToSet(W) -> Buffers]
        /\ fr.made <= MaxWindows
    BY DEF FrameInv, FrameOK, Numbered, Oriented
  <1>3. fr.root \in (1 .. fr.made) \cup DOMAIN C BY <1>1, <1>2 DEF Shape, Items
  <1>4. fr.made \in 1 .. MaxWindows BY <1>2, QtFrameAssumption
  <1> QED BY <1>2, <1>3, <1>4 DEF TypeOK

LEMMA FrameInvInSync ==
  ASSUME FrameInv
  PROVE InSync
  <1>1. /\ fr.windows = Flatten(fr.children, fr.root)
        /\ IsInjective(fr.windows)
        /\ \A n \in DOMAIN fr.children : Len(fr.children[n]) >= 2
    BY FrameShape DEF FrameInv, Branching
  <1>2. /\ fr.map = ToSet(fr.windows)
        /\ DOMAIN fr.kids = DOMAIN fr.children \cup {Root}
        /\ fr.kids[Root] = <<fr.root>>
        /\ \A n \in DOMAIN fr.children :
              Len(fr.kids[n]) = Len(fr.children[n]) /\ ToSet(fr.kids[n]) = ToSet(fr.children[n])
    BY DEF FrameInv, FrameOK, Mirrors
  <1> QED BY <1>1, <1>2 DEF InSync

\* The frame keeps its shape, for any number of windows and buffers.
THEOREM FrameTypes == Spec => []TypeOK
  <1>1. FrameInv => TypeOK BY FrameInvTypeOK
  <1> QED BY <1>1, FrameInvAlways, PTL

\* After any sequence of splits and deletions the tree, the flat list, the map of
\* the editors and the widgets on the screen agree (qt-frame-do-split!,
\* qt-frame-delete-window!, qt-frame-delete-other-windows!).
THEOREM FrameInSync == Spec => []InSync
  <1>1. FrameInv => InSync BY FrameInvInSync
  <1> QED BY <1>1, FrameInvAlways, PTL

\* No operation destroys a widget that an earlier one, or the destruction of its
\* splitter, already destroyed.
THEOREM FrameDestroyedOnce == Spec => []DestroyedOnce
  <1>1. FrameInv => DestroyedOnce BY DEF FrameInv, FrameOK, DestroyedOnce
  <1> QED BY <1>1, FrameInvAlways, PTL

\* The frame implements a list of windows with one selected: every command is a
\* step of the list or leaves it alone.
THEOREM FrameIsList == Spec => ListSpec
  <1>1. Init => List!Init
    <2> SUFFICES ASSUME Init PROVE List!Init OBVIOUS
    <2>1. fr.windows = <<1>> /\ fr.current = 0 BY FrameInitOK DEF Init
    <2>2. 1 \in 1 .. MaxWindows BY QtFrameAssumption
    <2> QED BY <2>1, <2>2 DEF List!Init
  <1>2. FrameInv /\ [Next]_fr => [List!Next]_(List!listVars)
    <2> SUFFICES ASSUME FrameInv, [Next]_fr PROVE [List!Next]_(List!listVars) OBVIOUS
    <2>1. ASSUME NEW o \in Orientations, SplitWindow(o) PROVE List!Next
      <3>0. /\ List!ToSet(fr.windows) = ToSet(fr.windows)
            /\ List!InsertAt(fr.windows, fr.current + 2, fr.made + 1)
                 = InsertAt(fr.windows, fr.current + 2, fr.made + 1)
        BY DEF List!ToSet, ToSet, List!InsertAt, InsertAt
      <3>1. List!Split(fr.made + 1) BY <2>1, <3>0, SplitWindowStep DEF List!Split
      <3>2. fr.made + 1 \in 1 .. MaxWindows BY <2>1, SplitWindowStep
      <3> QED BY <3>1, <3>2 DEF List!Next
    <2>2. CASE DeleteWindow
      <3>0. List!RemoveAt(fr.windows, fr.current + 1) = RemoveAt(fr.windows, fr.current + 1)
        BY DEF List!RemoveAt, RemoveAt
      <3>1. List!Delete BY <2>2, <3>0, DeleteWindowStep DEF List!Delete
      <3> QED BY <3>1 DEF List!Next
    <2>3. CASE DeleteOtherWindows
      <3>1. List!DeleteOthers
        BY <2>3, DeleteOtherWindowsStep DEF List!DeleteOthers, List!Selected, Current
      <3> QED BY <3>1 DEF List!Next
    <2>4. CASE OtherWindow
      <3>1. /\ fr'.windows = fr.windows
            /\ fr'.current \in 0 .. Len(fr.windows) - 1
        BY <2>4, OtherWindowOK DEF FrameInv
      <3>2. fr'.current < Len(fr.windows)
        <4>1. Len(fr.windows) \in Nat BY FrameShape DEF FrameInv
        <4> QED BY <3>1, <4>1
      <3>3. List!Select(fr'.current) BY <3>1, <3>2 DEF List!Select
      <3> QED BY <3>1, <3>3 DEF List!Next
    <2>5. ASSUME NEW b \in Buffers, SwitchToBuffer(b) PROVE UNCHANGED List!listVars
      BY <2>5, SwitchToBufferOK DEF FrameInv, List!listVars
    <2>6. CASE UNCHANGED fr BY <2>6 DEF List!listVars
    <2> QED BY <2>1, <2>2, <2>3, <2>4, <2>5, <2>6 DEF Next
  <1> QED BY <1>1, <1>2, FrameInvAlways, PTL DEF Spec, ListSpec, List!Spec

------------------------------------------------------------------------------
(* Winner mode.                                                            *)

\* A saved configuration: one buffer or more, the selected one among them.
ConfigOK(c) ==
    /\ c.names \in Seq(Buffers)
    /\ Len(c.names) \in Nat \ {0}
    /\ c.name \in ToSet(c.names)

\* What winner-save! takes of a frame is one.
LEMMA ConfigSaved ==
  ASSUME NEW f, FrameOK(f)
  PROVE ConfigOK(Config(f))
  <1> DEFINE W == f.windows
             names == [i \in DOMAIN W |-> f.buffer[W[i]]]
  <1>1. /\ f.windows = Flatten(f.children, f.root)
        /\ DOMAIN W = 1 .. Len(W) /\ Len(W) \in Nat \ {0}
        /\ f.current + 1 \in 1 .. Len(W) /\ Current(f) = W[f.current + 1]
    BY FrameShape
  <1>2. f.buffer \in [ToSet(W) -> Buffers] BY DEF FrameOK
  <1>3. LeafNames(f) = names BY <1>1 DEF LeafNames
  <1>4. \A i \in 1 .. Len(W) : names[i] = f.buffer[W[i]] /\ names[i] \in Buffers
    BY <1>1, <1>2 DEF ToSet
  <1>5. names \in Seq(Buffers) /\ Len(names) = Len(W) /\ DOMAIN names = 1 .. Len(W)
    BY <1>1, <1>4
  <1> HIDE DEF names, W
  <1>6. f.buffer[Current(f)] \in ToSet(names) BY <1>1, <1>4, <1>5 DEF ToSet
  <1>7. Config(f) = [names |-> names, name |-> f.buffer[Current(f)]] BY <1>3 DEF Config
  <1>8. Config(f).names = names /\ Config(f).name = f.buffer[Current(f)] BY <1>7
  <1> QED BY <1>1, <1>5, <1>6, <1>8 DEF ConfigOK

\* One deletion or split of phase 1, when there were k windows and n are wanted.
Adjusted(f, k, n) == IF k > n THEN DeleteLast(f) ELSE SplitFrame(f, "v")

Distance(k, n) == IF k > n THEN k - n ELSE n - k

\* The frame after i deletions or splits.
Nearer(f, k, n, i, g) ==
    /\ FrameOK(g)
    /\ Len(g.windows) = IF k > n THEN k - i ELSE k + i
    /\ g.made = IF k > n THEN f.made ELSE f.made + i

\* Each of them brings the number of windows one nearer.
LEMMA AdjustedOnce ==
  ASSUME NEW f, NEW k, k \in Nat, NEW n, n \in Nat \ {0}, NEW i, i \in Nat, i < Distance(k, n),
         NEW g, Nearer(f, k, n, i, g), f.made \in Nat
  PROVE Nearer(f, k, n, i + 1, Adjusted(g, k, n))
  <1>1. FrameOK(g) BY DEF Nearer
  <1>2. CASE k > n
    <2> DEFINE j == Len(g.windows) - 1
               h == DeleteFrame(g, j)
    <2>1. Len(g.windows) = k - i /\ g.made = f.made BY <1>2 DEF Nearer
    <2>2. i < k - n BY <1>2 DEF Distance
    <2>3. j \in 0 .. Len(g.windows) - 1 /\ Len(g.windows) >= 2 BY <2>1, <2>2
    <2>4. h = Adjusted(g, k, n) BY <1>2 DEF Adjusted, DeleteLast
    <2> HIDE DEF j
    <2>5. FrameOK(h) /\ h.windows = RemoveAt(g.windows, j + 1) /\ h.made = g.made
      BY <1>1, <2>3, DeleteFrameOK
    <2>6. Len(h.windows) = Len(g.windows) - 1
      <3> DEFINE W == g.windows
                 m == j + 1
      <3>1. W \in Seq(Nat \ {0}) /\ IsInjective(W) BY <1>1, FrameShape
      <3>2. m \in 1 .. Len(W) BY <2>3, <3>1
      <3> HIDE DEF W, m
      <3>3. Len(RemoveAt(W, m)) = Len(W) - 1 BY <3>1, <3>2, RemoveAtElements
      <3> QED BY <2>5, <3>3 DEF W, m
    <2> HIDE DEF h
    <2>7. Len(h.windows) = k - (i + 1) BY <2>1, <2>6
    <2> QED BY <1>2, <2>1, <2>4, <2>5, <2>7 DEF Nearer
  <1>3. CASE ~(k > n)
    <2> DEFINE h == SplitFrame(g, "v")
    <2>1. Len(g.windows) = k + i /\ g.made = f.made + i BY <1>3 DEF Nearer
    <2>2. h = Adjusted(g, k, n) BY <1>3 DEF Adjusted
    <2>3. "v" \in Orientations BY DEF Orientations
    <2>4. /\ FrameOK(h) /\ h.windows = InsertAt(g.windows, g.current + 2, g.made + 1)
          /\ h.made = g.made + 1
      BY <1>1, <2>3, SplitFrameOK
    <2>5. Len(h.windows) = Len(g.windows) + 1
      <3> DEFINE W == g.windows
                 S == Nat \ {0}
                 m == g.current + 2
                 e == g.made + 1
      <3>1. W \in Seq(S) /\ Len(W) \in Nat BY <1>1, FrameShape
      <3>2. g.current \in 0 .. Len(W) - 1 /\ g.made \in Nat BY <1>1 DEF FrameOK, Numbered
      <3>3. g.current \in Int /\ g.current >= 0 /\ g.current < Len(W) BY <3>1, <3>2
      <3> DEFINE c == g.current
                 q == Len(W)
      <3>4. c \in Int /\ c >= 0 /\ c < q /\ q \in Nat BY <3>1, <3>3
      <3> HIDE DEF c, q
      <3>5. c + 2 \in 1 .. q + 1 BY <3>4
      <3>6. m \in 1 .. Len(W) + 1 /\ e \in S BY <3>2, <3>5 DEF c, q
      <3> HIDE DEF W, m, S, e
      <3>7. Len(InsertAt(W, m, e)) = Len(W) + 1 BY <3>1, <3>6, InsertAtElements
      <3> QED BY <2>4, <3>7 DEF W, m, e
    <2> HIDE DEF h
    <2>6. Len(h.windows) = (k + i) + 1 /\ h.made = (f.made + i) + 1 BY <2>1, <2>4, <2>5
    <2>7. (k + i) + 1 = k + (i + 1) /\ (f.made + i) + 1 = f.made + (i + 1) OBVIOUS
    <2> QED BY <1>3, <2>2, <2>4, <2>6, <2>7 DEF Nearer
  <1> QED BY <1>2, <1>3

\* The frames of phase 1, after 0 to N deletions or splits.
AdjustMap(f, k, n, N) ==
    CHOOSE a : a = [i \in 0 .. N |-> IF i = 0 THEN f ELSE Adjusted(a[i - 1], k, n)]

LEMMA AdjustSteps ==
  ASSUME NEW f, NEW k, NEW n, NEW N, N \in Nat
  PROVE LET a == AdjustMap(f, k, n, N) IN
        a = [i \in 0 .. N |-> IF i = 0 THEN f ELSE Adjusted(a[i - 1], k, n)]
  <1> DEFINE Steps(m, g) == /\ g[0] = f
                            /\ \A i \in 1 .. m : g[i] = Adjusted(g[i - 1], k, n)
             S == {m \in Nat : \E g : Steps(m, g)}
  <1>1. 0 \in S
    <2> DEFINE g == [i \in 0 .. 0 |-> f]
    <2>1. g[0] = f OBVIOUS
    <2>2. \A i \in 1 .. 0 : FALSE OBVIOUS
    <2>3. Steps(0, g) BY <2>1, <2>2
    <2> HIDE DEF g
    <2> QED BY <2>3
  <1>2. ASSUME NEW m \in Nat, m \in S PROVE m + 1 \in S
    <2>1. PICK g : Steps(m, g) BY <1>2
    <2> DEFINE d == Adjusted(g[m], k, n)
               h == [i \in 0 .. m + 1 |-> IF i = m + 1 THEN d ELSE g[i]]
    <2> HIDE DEF d
    <2>2. \A i \in 0 .. m : h[i] = g[i] OBVIOUS
    <2>3. h[m + 1] = d OBVIOUS
    <2>4. h[0] = f BY <2>1, <2>2
    <2> HIDE DEF h
    <2>5. ASSUME NEW i \in 1 .. m + 1 PROVE h[i] = Adjusted(h[i - 1], k, n)
      <3>1. i - 1 \in 0 .. m /\ h[i - 1] = g[i - 1] BY <2>2
      <3>2. CASE i = m + 1
        <4>1. i - 1 = m BY <3>2
        <4> QED BY <2>3, <3>1, <3>2, <4>1 DEF d
      <3>3. CASE i # m + 1
        <4>1. i \in 1 .. m /\ i \in 0 .. m BY <3>3
        <4>2. h[i] = g[i] BY <2>2, <4>1
        <4>3. g[i] = Adjusted(g[i - 1], k, n) BY <2>1, <4>1
        <4> QED BY <3>1, <4>2, <4>3
      <3> QED BY <3>2, <3>3
    <2>6. Steps(m + 1, h) BY <2>4, <2>5
    <2> QED BY <2>6
  <1> HIDE DEF S
  <1>3. Nat \subseteq S BY <1>1, <1>2, InductionSet
  <1>4. PICK g : Steps(N, g) BY <1>3 DEF S
  <1> DEFINE h == [i \in 0 .. N |-> g[i]]
  <1>5. \A i \in 0 .. N : h[i] = IF i = 0 THEN f ELSE Adjusted(h[i - 1], k, n)
    <2> SUFFICES ASSUME NEW i \in 0 .. N
                 PROVE h[i] = IF i = 0 THEN f ELSE Adjusted(h[i - 1], k, n)
      OBVIOUS
    <2>1. CASE i = 0 BY <1>4, <2>1
    <2>2. CASE i # 0
      <3>1. i \in 1 .. N /\ i - 1 \in 0 .. N BY <2>2
      <3>2. h[i] = g[i] /\ h[i - 1] = g[i - 1] BY <3>1
      <3> HIDE DEF h
      <3> QED BY <1>4, <2>2, <3>1, <3>2
    <2> QED BY <2>1, <2>2
  <1>6. h = [i \in 0 .. N |-> h[i]] OBVIOUS
  <1> HIDE DEF h
  <1>7. h = [i \in 0 .. N |-> IF i = 0 THEN f ELSE Adjusted(h[i - 1], k, n)] BY <1>5, <1>6
  <1> QED BY <1>7 DEF AdjustMap

\* Phase 1 ends with the number of windows wanted, and makes no window but those.
LEMMA AdjustCountOK ==
  ASSUME NEW f, FrameOK(f), NEW n, n \in Nat \ {0}
  PROVE LET g == AdjustCount(f, n)
        IN /\ FrameOK(g)
           /\ Len(g.windows) = n
           /\ g.made = f.made \/ g.made = f.made + n - Len(f.windows)
  <1> DEFINE k == Len(f.windows)
             N == Distance(k, n)
             A == AdjustMap(f, k, n, N)
  <1>1. k \in Nat \ {0} /\ f.made \in Nat BY FrameShape DEF FrameOK, Numbered
  <1>2. AdjustCount(f, n) = A[N] BY DEF AdjustCount, AdjustMap, Adjusted, Distance
  <1> HIDE DEF k
  <1>3. N \in Nat BY <1>1 DEF Distance
  <1> HIDE DEF N
  <1>4. A = [i \in 0 .. N |-> IF i = 0 THEN f ELSE Adjusted(A[i - 1], k, n)]
    BY <1>3, AdjustSteps
  <1> HIDE DEF A
  <1> DEFINE S == {m \in Nat : m <= N => Nearer(f, k, n, m, A[m])}
  <1>5. 0 \in S
    <2>1. 0 \in 0 .. N BY <1>3
    <2>2. A[0] = f BY <1>4, <2>1
    <2>3. k = Len(f.windows) BY DEF k
    <2>4. Nearer(f, k, n, 0, f) BY <1>1, <2>3 DEF Nearer
    <2> QED BY <2>2, <2>4
  <1>6. ASSUME NEW m \in Nat, m \in S PROVE m + 1 \in S
    <2> SUFFICES ASSUME m + 1 <= N PROVE Nearer(f, k, n, m + 1, A[m + 1]) OBVIOUS
    <2>1. m + 1 \in 0 .. N /\ m + 1 # 0 /\ (m + 1) - 1 = m /\ m <= N /\ m < N BY <1>3
    <2>2. A[m + 1] = Adjusted(A[m], k, n) BY <1>4, <2>1
    <2>3. Nearer(f, k, n, m, A[m]) BY <1>6, <2>1
    <2>4. m < Distance(k, n) BY <2>1 DEF N
    <2> DEFINE a == A[m]
    <2>5. Nearer(f, k, n, m, a) BY <2>3
    <2> HIDE DEF a
    <2>6. Nearer(f, k, n, m + 1, Adjusted(a, k, n)) BY <1>1, <2>4, <2>5, AdjustedOnce
    <2> QED BY <2>2, <2>6 DEF a
  <1> HIDE DEF S
  <1>7. Nat \subseteq S BY <1>5, <1>6, InductionSet
  <1>8. Nearer(f, k, n, N, A[N])
    <2>1. N \in S /\ N <= N BY <1>3, <1>7
    <2> QED BY <2>1 DEF S
  <1> DEFINE g == A[N]
  <1>9. /\ FrameOK(g)
        /\ Len(g.windows) = IF k > n THEN k - N ELSE k + N
        /\ g.made = IF k > n THEN f.made ELSE f.made + N
    BY <1>8 DEF Nearer
  <1>10. N = IF k > n THEN k - n ELSE n - k BY DEF N, Distance
  <1> HIDE DEF g
  <1>11. Len(g.windows) = n BY <1>1, <1>9, <1>10
  <1>12. g.made = f.made \/ g.made = f.made + n - k BY <1>1, <1>9, <1>10
  <1> QED BY <1>2, <1>9, <1>11, <1>12 DEF g, k

\* Phase 2: the windows show the saved buffers, in order.
LEMMA AssignOK ==
  ASSUME NEW f, FrameOK(f), NEW names, names \in Seq(Buffers), Len(names) = Len(f.windows)
  PROVE LET g == Assign(f, names)
        IN /\ FrameOK(g) /\ g.windows = f.windows /\ g.made = f.made
           /\ \A i \in DOMAIN f.windows : g.buffer[f.windows[i]] = names[i]
  <1> DEFINE W == f.windows
             b == [w \in DOMAIN f.buffer |-> names[IndexOf(W, w)]]
  <1>1. Assign(f, names) = [f EXCEPT !.buffer = b] BY DEF Assign
  <1>2. DOMAIN f.buffer = ToSet(W) BY DEF FrameOK
  <1>3. IsInjective(W) /\ DOMAIN W = 1 .. Len(W) BY FrameShape
  <1>4. DOMAIN names = 1 .. Len(W) /\ \A i \in 1 .. Len(W) : names[i] \in Buffers OBVIOUS
  <1>5. \A i \in DOMAIN W : IndexOf(W, W[i]) = i BY <1>3, IndexOfElement
  <1>6. \A i \in DOMAIN W : b[W[i]] = names[i] BY <1>2, <1>5 DEF ToSet
  <1>7. b \in [ToSet(W) -> Buffers]
    <2>1. \A w \in ToSet(W) : names[IndexOf(W, w)] \in Buffers BY <1>3, <1>4, <1>5 DEF ToSet
    <2> QED BY <1>2, <2>1
  <1> HIDE DEF b, W
  <1>8. b \in [ToSet(f.windows) -> Buffers] BY <1>7 DEF W
  <1> DEFINE g == [f EXCEPT !.buffer = b]
  <1>9. FrameOK(g) /\ g.windows = f.windows /\ g.made = f.made /\ g.buffer = b
    BY <1>8, ShowFrameOK
  <1> HIDE DEF g
  <1> QED BY <1>1, <1>6, <1>9 DEF g, W

\* Phase 3: a window that shows the buffer is selected.
LEMMA SelectByNameOK ==
  ASSUME NEW f, FrameOK(f), NEW b, \E i \in DOMAIN f.windows : f.buffer[f.windows[i]] = b
  PROVE LET g == SelectByName(f, b)
        IN /\ FrameOK(g) /\ g.windows = f.windows /\ g.made = f.made /\ g.buffer = f.buffer
           /\ g.buffer[Current(g)] = b
  <1> DEFINE found == {i \in DOMAIN f.windows : f.buffer[f.windows[i]] = b}
             first == IF found = {} THEN 1 ELSE CHOOSE i \in found : \A j \in found : i <= j
  <1>1. DOMAIN f.windows = 1 .. Len(f.windows) /\ Len(f.windows) \in Nat BY FrameShape
  <1>2. found \subseteq Nat /\ found # {} BY <1>1
  <1>3. \E i \in found : \A j \in found : i <= j
    <2> HIDE DEF found
    <2> QED BY <1>2, LeastElement
  <1>4. first \in found BY <1>2, <1>3
  <1>5. SelectByName(f, b) = [f EXCEPT !.current = first - 1] BY DEF SelectByName
  <1>6. first \in 1 .. Len(f.windows) /\ f.buffer[f.windows[first]] = b BY <1>1, <1>4
  <1> HIDE DEF found, first
  <1> DEFINE c == first - 1
             g == [f EXCEPT !.current = c]
  <1>7. c \in 0 .. Len(f.windows) - 1 /\ c + 1 = first BY <1>1, <1>6
  <1> HIDE DEF c
  <1>8. FrameOK(g) /\ g.windows = f.windows /\ g.current = c /\ g.made = f.made
        /\ g.buffer = f.buffer
    BY <1>7, SelectFrameOK
  <1>9. SelectByName(f, b) = g BY <1>5 DEF c
  <1> HIDE DEF g
  <1>10. Current(g) = f.windows[first] BY <1>7, <1>8 DEF Current
  <1> QED BY <1>6, <1>8, <1>9, <1>10

\* winner-restore-config!: the frame shows the saved configuration.
LEMMA RestoreOK ==
  ASSUME NEW f, FrameOK(f), NEW c, ConfigOK(c)
  PROVE LET g == Restore(f, c)
        IN /\ FrameOK(g)
           /\ Shows(g, c)
           /\ g.made = f.made \/ g.made = f.made + Len(c.names) - Len(f.windows)
  <1> DEFINE names == c.names
             n == Len(names)
             b == c.name
             f1 == AdjustCount(f, n)
             f2 == Assign(f1, names)
             f3 == SelectByName(f2, b)
  <1>1. names \in Seq(Buffers) /\ n \in Nat \ {0} /\ b \in ToSet(names) BY DEF ConfigOK
  <1>2. Restore(f, c) = f3 BY DEF Restore
  <1> HIDE DEF f3, f2, f1, n
  <1>3. /\ FrameOK(f1) /\ Len(f1.windows) = n
        /\ f1.made = f.made \/ f1.made = f.made + n - Len(f.windows)
    BY <1>1, AdjustCountOK DEF f1
  <1> HIDE DEF names, b
  <1>4. /\ FrameOK(f2) /\ f2.windows = f1.windows /\ f2.made = f1.made
        /\ \A i \in DOMAIN f1.windows : f2.buffer[f1.windows[i]] = names[i]
    <2>1. Len(names) = Len(f1.windows) BY <1>3 DEF n
    <2> QED BY <1>1, <1>3, <2>1, AssignOK DEF f2
  <1>5. DOMAIN f1.windows = 1 .. n BY <1>3, FrameShape
  <1>6. DOMAIN names = 1 .. n BY <1>1 DEF n
  <1>7. \E i \in DOMAIN f2.windows : f2.buffer[f2.windows[i]] = b
    <2>1. PICK i \in DOMAIN names : names[i] = b BY <1>1 DEF ToSet
    <2> QED BY <1>4, <1>5, <1>6, <2>1
  <1>8. /\ FrameOK(f3) /\ f3.windows = f2.windows /\ f3.made = f2.made
        /\ f3.buffer = f2.buffer /\ f3.buffer[Current(f3)] = b
    BY <1>4, <1>7, SelectByNameOK DEF f3
  <1>9. [i \in DOMAIN f3.windows |-> f3.buffer[f3.windows[i]]] = names
    <2>1. DOMAIN f3.windows = 1 .. n BY <1>4, <1>5, <1>8
    <2>2. \A i \in 1 .. n : f3.buffer[f3.windows[i]] = names[i] BY <1>4, <1>5, <1>8
    <2>3. names = [i \in 1 .. n |-> names[i]] BY <1>1, <1>6
    <2> QED BY <2>1, <2>2, <2>3
  <1>10. Shows(f3, c) BY <1>8, <1>9 DEF Shows, names, b
  <1> QED BY <1>2, <1>3, <1>4, <1>8, <1>10 DEF n, names

\* All saved configurations.
Configs == {c \in [names : Seq(Buffers), name : Buffers] : ConfigOK(c)}

LEMMA ConfigKnown ==
  ASSUME NEW f, FrameOK(f)
  PROVE Config(f) \in Configs
  <1>1. ConfigOK(Config(f)) BY ConfigSaved
  <1>2. Config(f) = [names |-> LeafNames(f), name |-> f.buffer[Current(f)]] BY DEF Config
  <1>3. f.buffer[Current(f)] \in Buffers BY FrameShape DEF FrameOK
  <1>4. Config(f).names \in Seq(Buffers) BY <1>1 DEF ConfigOK
  <1>5. LeafNames(f) \in Seq(Buffers) BY <1>2, <1>4
  <1>6. Config(f) \in [names : Seq(Buffers), name : Buffers] BY <1>2, <1>3, <1>5
  <1> QED BY <1>1, <1>6 DEF Configs

\* The invariant of winner mode: that of the frame, and saved configurations in
\* both stacks, no more than the limit in all.
WinnerInv ==
    /\ FrameInv
    /\ history \in Seq(Configs)
    /\ future \in Seq(Configs)
    /\ Len(history) + Len(future) <= MaxHistory

LEMMA WinnerInvInit ==
  ASSUME WinnerInit
  PROVE WinnerInv
  <1>1. FrameInv BY FrameInvInit DEF WinnerInit
  <1>2. history = <<>> /\ future = <<>> BY DEF WinnerInit
  <1> QED BY <1>1, <1>2, WinnerAssumption DEF WinnerInv

\* winner-save! keeps the stacks within the limit.
LEMMA SaveKeeps ==
  ASSUME WinnerInv, Save
  PROVE /\ history' \in Seq(Configs) /\ future' \in Seq(Configs)
        /\ Len(history') + Len(future') <= MaxHistory
  <1> DEFINE c == Config(fr)
             h == <<c>> \o history
  <1>1. c \in Configs BY ConfigKnown DEF WinnerInv, FrameInv
  <1> HIDE DEF c
  <1>2. h \in Seq(Configs) /\ Len(h) \in Nat BY <1>1 DEF WinnerInv
  <1>3. history' = Pushed(h) /\ future' = <<>> BY DEF Save, c
  <1> HIDE DEF h
  <1>4. Pushed(h) \in Seq(Configs) /\ Len(Pushed(h)) <= MaxHistory /\ Len(Pushed(h)) \in Nat
    <2>1. CASE Len(h) > MaxHistory
      <3>1. Pushed(h) = SubSeq(h, 1, MaxHistory) BY <2>1 DEF Pushed
      <3>2. /\ SubSeq(h, 1, MaxHistory) \in Seq(Configs)
            /\ Len(SubSeq(h, 1, MaxHistory)) = MaxHistory
        BY <1>2, <2>1, WinnerAssumption
      <3> QED BY <3>1, <3>2, WinnerAssumption
    <2>2. CASE ~(Len(h) > MaxHistory)
      <3>1. Pushed(h) = h BY <2>2 DEF Pushed
      <3> QED BY <1>2, <2>2, <3>1, WinnerAssumption
    <2> QED BY <2>1, <2>2
  <1> QED BY <1>3, <1>4, WinnerAssumption

\* A configuration restored, as an undo or a redo does.
LEMMA RestoreStep ==
  ASSUME FrameInv, NEW c, c \in Configs, Affordable(c), fr' = Restore(fr, c)
  PROVE FrameInv' /\ Shows(fr', c)
  <1>1. FrameOK(fr) /\ ConfigOK(c) /\ fr.made <= MaxWindows BY DEF FrameInv, Configs
  <1>2. /\ FrameOK(fr') /\ Shows(fr', c)
        /\ fr'.made = fr.made \/ fr'.made = fr.made + Len(c.names) - Len(fr.windows)
    BY <1>1, RestoreOK
  <1>3. fr'.made <= MaxWindows BY <1>1, <1>2 DEF Affordable
  <1> QED BY <1>2, <1>3 DEF FrameInv

LEMMA UndoKeeps ==
  ASSUME WinnerInv, Undo
  PROVE WinnerInv' /\ Shows(fr', Head(history)) /\ Head(future') = Config(fr)
  <1> DEFINE c == Head(history)
             d == Config(fr)
  <1>1. /\ history \in Seq(Configs) /\ history # <<>> /\ future \in Seq(Configs)
        /\ Len(history) + Len(future) <= MaxHistory /\ FrameInv
    BY DEF WinnerInv, Undo
  <1>2. d \in Configs BY ConfigKnown DEF WinnerInv, FrameInv
  <1>3. c \in Configs BY <1>1
  <1>4. /\ Affordable(c) /\ fr' = Restore(fr, c) /\ history' = Tail(history)
        /\ future' = <<d>> \o future
    BY DEF Undo
  <1> HIDE DEF c, d
  <1>5. FrameInv' /\ Shows(fr', c) BY <1>1, <1>3, <1>4, RestoreStep
  <1>6. history' \in Seq(Configs) /\ Len(history') = Len(history) - 1 BY <1>1, <1>4
  <1>7. future' \in Seq(Configs) /\ Len(future') = Len(future) + 1 /\ Head(future') = d
    BY <1>1, <1>2, <1>4
  <1>8. Len(history') + Len(future') <= MaxHistory BY <1>1, <1>6, <1>7, WinnerAssumption
  <1> QED BY <1>5, <1>6, <1>7, <1>8 DEF WinnerInv, c, d

LEMMA RedoKeeps ==
  ASSUME WinnerInv, Redo
  PROVE WinnerInv' /\ Shows(fr', Head(future))
  <1> DEFINE c == Head(future)
             d == Config(fr)
  <1>1. /\ history \in Seq(Configs) /\ future # <<>> /\ future \in Seq(Configs)
        /\ Len(history) + Len(future) <= MaxHistory /\ FrameInv
    BY DEF WinnerInv, Redo
  <1>2. d \in Configs BY ConfigKnown DEF WinnerInv, FrameInv
  <1>3. c \in Configs BY <1>1
  <1>4. /\ Affordable(c) /\ fr' = Restore(fr, c) /\ future' = Tail(future)
        /\ history' = <<d>> \o history
    BY DEF Redo
  <1> HIDE DEF c, d
  <1>5. FrameInv' /\ Shows(fr', c) BY <1>1, <1>3, <1>4, RestoreStep
  <1>6. future' \in Seq(Configs) /\ Len(future') = Len(future) - 1 BY <1>1, <1>4
  <1>7. history' \in Seq(Configs) /\ Len(history') = Len(history) + 1 BY <1>1, <1>2, <1>4
  <1>8. Len(history') + Len(future') <= MaxHistory BY <1>1, <1>6, <1>7, WinnerAssumption
  <1> QED BY <1>5, <1>6, <1>7, <1>8 DEF WinnerInv, c

LEMMA WinnerInvStep ==
  ASSUME WinnerInv, [WinnerNext]_vars
  PROVE WinnerInv'
  <1>0. FrameInv BY DEF WinnerInv
  <1>1. ASSUME NEW o \in Orientations, CmdSplitWindow(o) PROVE WinnerInv'
    <2>1. Save /\ SplitWindow(o) BY <1>1 DEF CmdSplitWindow, Saved
    <2>2. FrameInv' BY <1>0, <2>1, SplitWindowStep
    <2> QED BY <2>1, <2>2, SaveKeeps DEF WinnerInv
  <1>2. CASE CmdDeleteWindow
    <2>1. Save /\ DeleteWindow BY <1>2 DEF CmdDeleteWindow, Saved
    <2>2. FrameInv' BY <1>0, <2>1, DeleteWindowStep
    <2> QED BY <2>1, <2>2, SaveKeeps DEF WinnerInv
  <1>3. CASE CmdDeleteOtherWindows
    <2>1. Save /\ DeleteOtherWindows BY <1>3 DEF CmdDeleteOtherWindows, Saved
    <2>2. FrameInv' BY <1>0, <2>1, DeleteOtherWindowsStep
    <2> QED BY <2>1, <2>2, SaveKeeps DEF WinnerInv
  <1>4. CASE CmdOther
    <2>1. FrameInv'
      <3>1. CASE OtherWindow BY <1>0, <3>1, OtherWindowOK DEF FrameInv
      <3>2. ASSUME NEW b \in Buffers, SwitchToBuffer(b) PROVE FrameInv'
        BY <1>0, <3>2, SwitchToBufferOK DEF FrameInv
      <3> QED BY <1>4, <3>1, <3>2 DEF CmdOther
    <2> QED BY <1>4, <2>1 DEF CmdOther, WinnerInv
  <1>5. CASE Undo BY <1>5, UndoKeeps
  <1>6. CASE Redo BY <1>6, RedoKeeps
  <1>7. CASE UNCHANGED vars BY <1>7 DEF vars, WinnerInv, FrameInv
  <1> QED BY <1>1, <1>2, <1>3, <1>4, <1>5, <1>6, <1>7 DEF WinnerNext

LEMMA WinnerInvAlways == WinnerSpec => []WinnerInv
  <1>1. WinnerInit => WinnerInv BY WinnerInvInit
  <1>2. WinnerInv /\ [WinnerNext]_vars => WinnerInv' BY WinnerInvStep
  <1> QED BY <1>1, <1>2, PTL DEF WinnerSpec

\* The two stacks of winner mode never hold more than the limit together, although a
\* redo pushes on the history without cutting it (cmd-winner-redo).
THEOREM WinnerHistoryBounded == WinnerSpec => []HistoryBounded
  <1>1. WinnerInv => HistoryBounded BY DEF WinnerInv, HistoryBounded
  <1> QED BY <1>1, WinnerInvAlways, PTL

\* However winner mode deletes and splits windows to restore a configuration, the
\* tree, the list, the map and the widgets still agree and no widget is destroyed
\* twice (winner-restore-config!).
THEOREM WinnerKeepsFrame == WinnerSpec => [](TypeOK /\ InSync /\ DestroyedOnce)
  <1>1. WinnerInv => TypeOK /\ InSync /\ DestroyedOnce
    <2>1. FrameInv => TypeOK BY FrameInvTypeOK
    <2>2. FrameInv => InSync BY FrameInvInSync
    <2>3. FrameInv => DestroyedOnce BY DEF FrameInv, FrameOK, DestroyedOnce
    <2> QED BY <2>1, <2>2, <2>3 DEF WinnerInv
  <1> QED BY <1>1, WinnerInvAlways, PTL

\* An undo or a redo leaves as many windows as were saved, showing the saved buffers
\* in order, with a window that shows the saved buffer selected; a redo right after
\* an undo would show again what the undo took away (cmd-winner-undo,
\* cmd-winner-redo).
THEOREM WinnerRestores == WinnerSpec => BuffersRestored
  <1> DEFINE A == /\ Undo => /\ Shows(fr', Head(history))
                             /\ Shows(Restore(fr', Head(future')), Config(fr))
                  /\ Redo => Shows(fr', Head(future))
  <1>1. WinnerInv => A
    <2> SUFFICES ASSUME WinnerInv PROVE A OBVIOUS
    <2>1. ASSUME Undo
          PROVE Shows(fr', Head(history)) /\ Shows(Restore(fr', Head(future')), Config(fr))
      <3>1. WinnerInv' /\ Shows(fr', Head(history)) /\ Head(future') = Config(fr)
        BY <2>1, UndoKeeps
      <3> DEFINE g == fr'
                 c == Config(fr)
      <3>2. FrameOK(g) BY <3>1 DEF WinnerInv, FrameInv
      <3>3. ConfigOK(c) BY ConfigSaved DEF WinnerInv, FrameInv
      <3> HIDE DEF g, c
      <3>4. Shows(Restore(g, c), c) BY <3>2, <3>3, RestoreOK
      <3> QED BY <3>1, <3>4 DEF g, c
    <2>2. ASSUME Redo PROVE Shows(fr', Head(future)) BY <2>2, RedoKeeps
    <2> QED BY <2>1, <2>2
  <1>2. WinnerSpec => [][A]_vars BY <1>1, WinnerInvAlways, PTL
  <1> QED BY <1>2 DEF BuffersRestored
==============================================================================

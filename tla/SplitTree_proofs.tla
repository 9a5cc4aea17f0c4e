--------------------------- MODULE SplitTree_proofs --------------------------
(***************************************************************************)
(* The split tree of both frames, for trees of any shape and size.  The    *)
(* leaves of a tree and the flat list of windows agree when every node can *)
(* be given the range lo .. hi of the list that its leaves are; the lemmas *)
(* say that the leaves are then the list (FlattenTree), and that such      *)
(* ranges exist again after each change the frame makes to its tree: a     *)
(* leaf put into a split (TreeInsert), taken out of one (TreeRemove), put  *)
(* under a new split (TreeWrap), and a split replaced by its only child    *)
(* (TreeUnwrap).                                                           *)
(***************************************************************************)
EXTENDS SplitTree, TLAPS, WellFoundedInduction, FiniteSetTheorems, SequenceTheorems

\* The library's induction theorems take an operator; a least element does not.
NatLess == OpToRel(<, Nat)

LEMMA NatLessPairs ==
  ASSUME NEW a \in Nat, NEW b \in Nat
  PROVE <<a, b>> \in NatLess <=> a < b
  BY DEF NatLess, OpToRel

LEMMA LeastElement ==
  ASSUME NEW T, T \subseteq Nat, T # {}
  PROVE \E x \in T : \A y \in T : x <= y
  <1>1. IsWellFoundedOn(NatLess, Nat) BY NatLessThanWellFounded DEF NatLess
  <1>2. PICK x \in T : \A y \in T : ~ (<<y, x>> \in NatLess) BY <1>1, WFMin
  <1>3. \A y \in T : ~ (y < x) BY <1>2, NatLessPairs
  <1> QED BY <1>3

\* Induction over a set of numbers, which is first order.
LEMMA InductionSet ==
  ASSUME NEW S, 0 \in S, \A n \in Nat : n \in S => n + 1 \in S
  PROVE Nat \subseteq S
  <1> SUFFICES ASSUME Nat \ S # {} PROVE FALSE OBVIOUS
  <1>1. PICK x \in Nat \ S : \A y \in Nat \ S : x <= y BY LeastElement
  <1>2. x # 0 OBVIOUS
  <1>3. x - 1 \in Nat /\ x - 1 \in S BY <1>1, <1>2
  <1> QED BY <1>1, <1>3

\* The same up to k.
LEMMA InductionUpTo ==
  ASSUME NEW k \in Nat \ {0}, NEW T, 1 \in T, \A n \in 1 .. k - 1 : n \in T => n + 1 \in T
  PROVE 1 .. k \subseteq T
  <1> DEFINE S == {n \in Nat : n + 1 \in 1 .. k => n + 1 \in T}
  <1>1. 0 \in S OBVIOUS
  <1>2. ASSUME NEW n \in Nat, n \in S PROVE n + 1 \in S
    <2> SUFFICES ASSUME (n + 1) + 1 \in 1 .. k PROVE (n + 1) + 1 \in T OBVIOUS
    <2>1. n + 1 \in 1 .. k - 1 /\ n + 1 \in 1 .. k OBVIOUS
    <2>2. n + 1 \in T BY <1>2, <2>1
    <2> QED BY <2>1, <2>2
  <1> HIDE DEF S
  <1>3. Nat \subseteq S BY <1>1, <1>2, InductionSet
  <1>4. ASSUME NEW n \in 1 .. k PROVE n \in T
    <2>1. n - 1 \in Nat /\ (n - 1) + 1 = n OBVIOUS
    <2>2. n - 1 \in S BY <2>1, <1>3
    <2> QED BY <2>1, <2>2 DEF S
  <1> QED BY <1>4

Stepping(T, k, step) == step \in [T \X (1 .. k) -> T]

\* The values of g from 0 to k, each made from the one before it.
Stepped(T, a, k, step, g) ==
    /\ g \in [0 .. k -> T]
    /\ g[0] = a
    /\ \A i \in 1 .. k : g[i] = step[<<g[i - 1], i>>]

\* A sequence made step by step exists: Apply and its like, as functions.
LEMMA StepsExist ==
  ASSUME NEW T, NEW a \in T, NEW k \in Nat, NEW step, Stepping(T, k, step)
  PROVE \E g : Stepped(T, a, k, step, g)
  <1> USE DEF Stepping
  <1> DEFINE Upto(n, g) == /\ g \in [0 .. n -> T] /\ g[0] = a
                           /\ \A i \in 1 .. n : g[i] = step[<<g[i - 1], i>>]
             S == {n \in Nat : n <= k => \E g : Upto(n, g)}
  <1>1. 0 \in S
    <2>1. Upto(0, [i \in 0 .. 0 |-> a]) OBVIOUS
    <2> HIDE DEF Upto
    <2> QED BY <2>1
  <1>2. ASSUME NEW n \in Nat, n \in S PROVE n + 1 \in S
    <2> SUFFICES ASSUME n + 1 <= k PROVE \E g : Upto(n + 1, g) OBVIOUS
    <2>1. PICK g : Upto(n, g) BY <1>2
    <2>2. n + 1 \in 1 .. k /\ n \in 0 .. n OBVIOUS
    <2>3. step[<<g[n], n + 1>>] \in T BY <2>1, <2>2
    <2> DEFINE e == step[<<g[n], n + 1>>]
               h == [i \in 0 .. n + 1 |-> IF i = n + 1 THEN e ELSE g[i]]
    <2> HIDE DEF e
    <2>4. h \in [0 .. n + 1 -> T] BY <2>1, <2>3 DEF e
    <2>5. h[0] = a BY <2>1
    <2>6. ASSUME NEW i \in 1 .. n + 1 PROVE h[i] = step[<<h[i - 1], i>>]
      <3>1. i - 1 \in 0 .. n /\ i - 1 \in 0 .. n + 1 /\ i - 1 # n + 1 /\ i \in 0 .. n + 1 OBVIOUS
      <3>2. h[i - 1] = g[i - 1] BY <3>1
      <3>3. CASE i = n + 1
        <4>1. h[i] = e /\ i - 1 = n BY <3>1, <3>3
        <4> QED BY <3>2, <3>3, <4>1 DEF e
      <3>4. CASE i # n + 1
        <4>1. i \in 1 .. n /\ h[i] = g[i] BY <3>1, <3>4
        <4> QED BY <2>1, <3>2, <4>1
      <3> QED BY <3>3, <3>4
    <2> HIDE DEF h
    <2>7. Upto(n + 1, h) BY <2>4, <2>5, <2>6
    <2> QED BY <2>7
  <1> HIDE DEF S
  <1>3. k \in S BY <1>1, <1>2, InductionSet
  <1>4. PICK g : Upto(k, g) BY <1>3 DEF S
  <1> QED BY <1>4 DEF Stepped

------------------------------------------------------------------------------
(* Sequences: removal, insertion, search.                                  *)


LEMMA RemoveAtConcat ==
  ASSUME NEW S, NEW s \in Seq(S), NEW i \in 1 .. Len(s)
  PROVE /\ RemoveAt(s, i) \in Seq(S)
        /\ Len(RemoveAt(s, i)) = Len(s) - 1
        /\ \A j \in 1 .. Len(s) - 1 : RemoveAt(s, i)[j] = IF j < i THEN s[j] ELSE s[j + 1]
  <1> DEFINE a == SubSeq(s, 1, i - 1)
             b == SubSeq(s, i + 1, Len(s))
  <1>1. a \in Seq(S) /\ Len(a) = i - 1 /\ \A j \in 1 .. i - 1 : a[j] = s[j] OBVIOUS
  <1>2. b \in Seq(S) /\ Len(b) = Len(s) - i /\ \A j \in 1 .. Len(s) - i : b[j] = s[i + j]
    OBVIOUS
  <1> HIDE DEF a, b
  <1>3. /\ a \o b \in Seq(S)
        /\ Len(a \o b) = Len(s) - 1
        /\ \A j \in 1 .. Len(s) - 1 : (a \o b)[j] = IF j < i THEN s[j] ELSE s[j + 1]
    <2>1. /\ a \o b \in Seq(S)
          /\ Len(a \o b) = Len(a) + Len(b)
          /\ \A j \in 1 .. Len(a) + Len(b) :
                (a \o b)[j] = IF j <= Len(a) THEN a[j] ELSE b[j - Len(a)]
      BY <1>1, <1>2, ConcatProperties
    <2> QED BY <1>1, <1>2, <2>1
  <1> QED BY <1>3 DEF RemoveAt, a, b

\* Taking position i out of a sequence without repetitions.
LEMMA RemoveAtElements ==
  ASSUME NEW S, NEW s \in Seq(S), NEW i \in 1 .. Len(s), IsInjective(s)
  PROVE /\ RemoveAt(s, i) \in Seq(S)
        /\ Len(RemoveAt(s, i)) = Len(s) - 1
        /\ \A j \in 1 .. i - 1 : RemoveAt(s, i)[j] = s[j]
        /\ \A j \in i .. Len(s) - 1 : RemoveAt(s, i)[j] = s[j + 1]
        /\ ToSet(RemoveAt(s, i)) = ToSet(s) \ {s[i]}
        /\ IsInjective(RemoveAt(s, i))
  <1> DEFINE t == RemoveAt(s, i)
             k == Len(s)
  <1>1. /\ t \in Seq(S)
        /\ Len(t) = k - 1
        /\ \A j \in 1 .. k - 1 : t[j] = IF j < i THEN s[j] ELSE s[j + 1]
    BY RemoveAtConcat
  <1>2. k \in Nat /\ i \in Nat /\ i >= 1 /\ i <= k OBVIOUS
  <1>3. DOMAIN t = 1 .. k - 1 /\ DOMAIN s = 1 .. k BY <1>1
  <1> HIDE DEF t, k
  <1>4. ASSUME NEW j \in 1 .. i - 1 PROVE t[j] = s[j]
    <2>1. j \in 1 .. k - 1 /\ j < i BY <1>2
    <2> QED BY <1>1, <2>1
  <1>5. ASSUME NEW j \in i .. k - 1 PROVE t[j] = s[j + 1]
    <2>1. j \in 1 .. k - 1 /\ ~ (j < i) BY <1>2
    <2> QED BY <1>1, <2>1
  <1>6. ASSUME NEW j \in 1 .. k - 1
        PROVE \E m \in 1 .. k : t[j] = s[m] /\ m # i /\ (j < i => m = j) /\ (j >= i => m = j + 1)
    <2>1. CASE j < i
      <3>1. j \in 1 .. i - 1 /\ j \in 1 .. k /\ j # i /\ ~ (j >= i) BY <1>2, <2>1
      <3> QED BY <2>1, <3>1, <1>4
    <2>2. CASE j >= i
      <3>1. j \in i .. k - 1 /\ j + 1 \in 1 .. k /\ j + 1 # i /\ ~ (j < i) BY <1>2, <2>2
      <3> QED BY <2>2, <3>1, <1>5
    <2> QED BY <2>1, <2>2, <1>2
  <1>7. ASSUME NEW m \in 1 .. k, m # i PROVE \E j \in 1 .. k - 1 : t[j] = s[m]
    <2>1. CASE m < i
      <3>1. m \in 1 .. i - 1 /\ m \in 1 .. k - 1 BY <1>2, <2>1
      <3> QED BY <3>1, <1>4
    <2>2. CASE m > i
      <3>1. m - 1 \in i .. k - 1 /\ m - 1 \in 1 .. k - 1 /\ (m - 1) + 1 = m BY <1>2, <2>2
      <3>2. t[m - 1] = s[(m - 1) + 1] BY <3>1, <1>5
      <3> QED BY <3>1, <3>2
    <2> QED BY <2>1, <2>2, <1>2, <1>7
  <1>8. ToSet(t) = ToSet(s) \ {s[i]}
    <2>1. \A m \in 1 .. k : s[m] = s[i] => m = i BY <1>2, <1>3 DEF IsInjective
    <2>2. ToSet(t) \subseteq ToSet(s) \ {s[i]} BY <1>3, <1>6, <2>1 DEF ToSet
    <2>3. ToSet(s) \ {s[i]} \subseteq ToSet(t) BY <1>3, <1>7 DEF ToSet
    <2> QED BY <2>2, <2>3
  <1>9. IsInjective(t)
    <2> SUFFICES ASSUME NEW a \in 1 .. k - 1, NEW b \in 1 .. k - 1, t[a] = t[b] PROVE a = b
      BY <1>3 DEF IsInjective
    <2>1. PICK m \in 1 .. k : t[a] = s[m] /\ (a < i => m = a) /\ (a >= i => m = a + 1) BY <1>6
    <2>2. PICK n \in 1 .. k : t[b] = s[n] /\ (b < i => n = b) /\ (b >= i => n = b + 1) BY <1>6
    <2>3. m = n BY <2>1, <2>2, <1>3 DEF IsInjective
    <2> QED BY <2>1, <2>2, <2>3, <1>2
  <1> QED BY <1>1, <1>4, <1>5, <1>8, <1>9 DEF t, k

(* What removing position i of s leaves, as one fact. *)
Removed(S, s, i) ==
    /\ RemoveAt(s, i) \in Seq(S)
    /\ Len(RemoveAt(s, i)) = Len(s) - 1
    /\ \A j \in 1 .. i - 1 : RemoveAt(s, i)[j] = s[j]
    /\ \A j \in i .. Len(s) - 1 : RemoveAt(s, i)[j] = s[j + 1]
    /\ ToSet(RemoveAt(s, i)) = ToSet(s) \ {s[i]}

LEMMA RemoveAtRemoves ==
  ASSUME NEW S, NEW s \in Seq(S), NEW i \in 1 .. Len(s), IsInjective(s)
  PROVE Removed(S, s, i)
  BY RemoveAtElements DEF Removed

LEMMA InsertAtConcat ==
  ASSUME NEW S, NEW s \in Seq(S), NEW i \in 1 .. Len(s) + 1, NEW e \in S
  PROVE /\ InsertAt(s, i, e) \in Seq(S)
        /\ Len(InsertAt(s, i, e)) = Len(s) + 1
        /\ \A j \in 1 .. Len(s) + 1 :
              InsertAt(s, i, e)[j] = IF j < i THEN s[j] ELSE IF j = i THEN e ELSE s[j - 1]
  <1> DEFINE a == SubSeq(s, 1, i - 1)
             b == SubSeq(s, i, Len(s))
  <1>1. a \in Seq(S) /\ Len(a) = i - 1 /\ \A j \in 1 .. i - 1 : a[j] = s[j] OBVIOUS
  <1>2. b \in Seq(S) /\ Len(b) = Len(s) - i + 1
        /\ \A j \in 1 .. Len(s) - i + 1 : b[j] = s[i + j - 1]
    OBVIOUS
  <1> HIDE DEF a, b
  <1>3. /\ a \o <<e>> \in Seq(S)
        /\ Len(a \o <<e>>) = i
        /\ \A j \in 1 .. i : (a \o <<e>>)[j] = IF j < i THEN s[j] ELSE e
    BY <1>1
  <1>4. /\ (a \o <<e>>) \o b \in Seq(S)
        /\ Len((a \o <<e>>) \o b) = Len(s) + 1
        /\ \A j \in 1 .. Len(s) + 1 :
              ((a \o <<e>>) \o b)[j] = IF j < i THEN s[j] ELSE IF j = i THEN e ELSE s[j - 1]
    <2> DEFINE c == a \o <<e>>
    <2>1. c \in Seq(S) BY <1>3
    <2> HIDE DEF c
    <2>2. /\ c \o b \in Seq(S)
          /\ Len(c \o b) = Len(c) + Len(b)
          /\ \A j \in 1 .. Len(c) + Len(b) :
                (c \o b)[j] = IF j <= Len(c) THEN c[j] ELSE b[j - Len(c)]
      BY <1>2, <2>1, ConcatProperties
    <2>3. Len(c) = i /\ \A j \in 1 .. i : c[j] = IF j < i THEN s[j] ELSE e BY <1>3 DEF c
    <2>4. Len(c) + Len(b) = Len(s) + 1 BY <1>2, <2>3
    <2>5. ASSUME NEW j \in 1 .. Len(s) + 1
          PROVE (c \o b)[j] = IF j < i THEN s[j] ELSE IF j = i THEN e ELSE s[j - 1]
      <3>1. CASE j <= i BY <3>1, <2>2, <2>3, <2>4
      <3>2. CASE j > i
        <4>1. (c \o b)[j] = b[j - i] BY <3>2, <2>2, <2>3, <2>4
        <4>2. j - i \in 1 .. Len(s) - i + 1 BY <3>2
        <4>3. b[j - i] = s[i + (j - i) - 1] BY <4>2, <1>2
        <4>4. i + (j - i) - 1 = j - 1 OBVIOUS
        <4>5. (c \o b)[j] = s[j - 1] BY <4>1, <4>3, <4>4
        <4>6. j # i /\ ~ (j < i) BY <3>2
        <4> QED BY <4>5, <4>6
      <3>3. j <= i \/ j > i OBVIOUS
      <3> HIDE DEF c
      <3> QED BY <3>1, <3>2, <3>3
    <2> QED BY <2>2, <2>4, <2>5 DEF c
  <1> QED BY <1>4 DEF InsertAt, a, b

\* Putting an element at position i.
LEMMA InsertAtElements ==
  ASSUME NEW S, NEW s \in Seq(S), NEW i \in 1 .. Len(s) + 1, NEW e \in S
  PROVE /\ InsertAt(s, i, e) \in Seq(S)
        /\ Len(InsertAt(s, i, e)) = Len(s) + 1
        /\ \A j \in 1 .. i - 1 : InsertAt(s, i, e)[j] = s[j]
        /\ InsertAt(s, i, e)[i] = e
        /\ \A j \in i .. Len(s) : InsertAt(s, i, e)[j + 1] = s[j]
        /\ ToSet(InsertAt(s, i, e)) = ToSet(s) \cup {e}
  <1> DEFINE t == InsertAt(s, i, e)
  <1>1. /\ t \in Seq(S)
        /\ Len(t) = Len(s) + 1
        /\ \A j \in 1 .. Len(s) + 1 : t[j] = IF j < i THEN s[j] ELSE IF j = i THEN e ELSE s[j - 1]
    BY InsertAtConcat
  <1>2. Len(s) \in Nat /\ i \in Nat OBVIOUS
  <1> HIDE DEF t
  <1>3. ASSUME NEW j \in 1 .. i - 1 PROVE t[j] = s[j]
    <2>1. j \in 1 .. Len(s) + 1 /\ j < i BY <1>2
    <2> QED BY <1>1, <2>1
  <1>4. t[i] = e
    <2>1. ~ (i < i) BY <1>2
    <2> QED BY <1>1, <2>1
  <1>5. ASSUME NEW j \in i .. Len(s) PROVE t[j + 1] = s[j]
    <2>1. j + 1 \in 1 .. Len(s) + 1 /\ ~ (j + 1 < i) /\ j + 1 # i BY <1>2
    <2>2. t[j + 1] = s[(j + 1) - 1] BY <1>1, <2>1
    <2>3. (j + 1) - 1 = j BY <1>2
    <2> QED BY <2>2, <2>3
  <1>6. ToSet(t) = ToSet(s) \cup {e}
    <2>1. DOMAIN t = 1 .. Len(s) + 1 /\ DOMAIN s = 1 .. Len(s) BY <1>1
    <2>2. ASSUME NEW j \in 1 .. Len(s) PROVE \E m \in 1 .. Len(s) + 1 : t[m] = s[j]
      <3>1. CASE j \in 1 .. i - 1
        <4>1. j \in 1 .. Len(s) + 1 BY <1>2
        <4> QED BY <3>1, <4>1, <1>3
      <3>2. CASE j \in i .. Len(s)
        <4>1. j + 1 \in 1 .. Len(s) + 1 BY <1>2
        <4> QED BY <3>2, <4>1, <1>5
      <3> QED BY <3>1, <3>2, <1>2
    <2>3. ASSUME NEW m \in 1 .. Len(s) + 1 PROVE t[m] = e \/ \E j \in 1 .. Len(s) : t[m] = s[j]
      <3>1. CASE m \in 1 .. i - 1
        <4>1. m \in 1 .. Len(s) BY <1>2, <3>1
        <4> QED BY <3>1, <4>1, <1>3
      <3>2. CASE m = i BY <3>2, <1>4
      <3>3. CASE m \in i + 1 .. Len(s) + 1
        <4>1. m - 1 \in i .. Len(s) /\ m - 1 \in 1 .. Len(s) /\ (m - 1) + 1 = m BY <1>2, <3>3
        <4>2. t[(m - 1) + 1] = s[m - 1] BY <4>1, <1>5
        <4> QED BY <4>1, <4>2
      <3> QED BY <3>1, <3>2, <3>3, <1>2
    <2>4. i \in 1 .. Len(s) + 1 OBVIOUS
    <2>5. ToSet(s) \subseteq ToSet(t) BY <2>1, <2>2 DEF ToSet
    <2>6. e \in ToSet(t) BY <2>1, <2>4, <1>4 DEF ToSet
    <2>7. ToSet(t) \subseteq ToSet(s) \cup {e} BY <2>1, <2>3 DEF ToSet
    <2> QED BY <2>5, <2>6, <2>7
  <1> QED BY <1>1, <1>3, <1>4, <1>5, <1>6 DEF t

LEMMA IndexOfElement ==
  ASSUME NEW s, NEW i \in DOMAIN s, IsInjective(s)
  PROVE IndexOf(s, s[i]) = i
  BY DEF IndexOf, IsInjective

LEMMA RemoveFirstAbsent ==
  ASSUME NEW S, NEW s \in Seq(S), NEW e, e \notin ToSet(s)
  PROVE RemoveFirst(s, e) = s
  BY DEF RemoveFirst, ToSet

LEMMA RemoveFirstPresent ==
  ASSUME NEW S, NEW s \in Seq(S), NEW i \in 1 .. Len(s), IsInjective(s)
  PROVE RemoveFirst(s, s[i]) = RemoveAt(s, i)
  <1>1. SelectInSeq(s, LAMBDA v : v = s[i]) = i
    <2>1. {j \in 1 .. Len(s) : s[j] = s[i]} = {i} BY DEF IsInjective
    <2>2. SelectInSeq(s, LAMBDA v : v = s[i]) = Min({i}) BY <2>1 DEF SelectInSeq
    <2> QED BY <2>2 DEF Min
  <1> QED BY <1>1 DEF RemoveFirst

------------------------------------------------------------------------------
(* Concatenation of a sequence of sequences.                               *)


FlattenSteps(ss) ==
    CHOOSE f : f = [i \in 1 .. Len(ss) |-> IF i = 1 THEN ss[i] ELSE f[i - 1] \o ss[i]]

\* FlattenSeq from any g that adds one segment at a time.
LEMMA FlattenByStep ==
  ASSUME NEW ss, Len(ss) \in Nat \ {0}, NEW g, g[1] = ss[1],
         \A n \in 1 .. Len(ss) - 1 : g[n + 1] = g[n] \o ss[n + 1]
  PROVE FlattenSeq(ss) = g[Len(ss)]
  <1> DEFINE F == FlattenSteps(ss)
             h == [i \in 1 .. Len(ss) |-> g[i]]
             T == {n \in 1 .. Len(ss) : F[n] = g[n]}
  <1>1. F = [i \in 1 .. Len(ss) |-> IF i = 1 THEN ss[i] ELSE F[i - 1] \o ss[i]]
    <2>1. ASSUME NEW i \in 1 .. Len(ss)
          PROVE h[i] = IF i = 1 THEN ss[i] ELSE h[i - 1] \o ss[i]
      <3>1. CASE i = 1 BY <3>1
      <3>2. CASE i # 1
        <4>1. i - 1 \in 1 .. Len(ss) - 1 /\ i - 1 \in 1 .. Len(ss) /\ (i - 1) + 1 = i BY <3>2
        <4>2. g[(i - 1) + 1] = g[i - 1] \o ss[(i - 1) + 1] BY <4>1
        <4> QED BY <3>2, <4>1, <4>2
      <3> QED BY <3>1, <3>2
    <2>2. h = [i \in 1 .. Len(ss) |-> IF i = 1 THEN ss[i] ELSE h[i - 1] \o ss[i]]
      <3>1. h = [i \in 1 .. Len(ss) |-> h[i]] OBVIOUS
      <3> HIDE DEF h
      <3> QED BY <2>1, <3>1
    <2> HIDE DEF h
    <2> QED BY <2>2 DEF FlattenSteps
  <1>2. FlattenSeq(ss) = F[Len(ss)] BY DEF FlattenSeq, FlattenSteps
  <1> HIDE DEF F
  <1>3. 1 \in T BY <1>1
  <1>4. ASSUME NEW n \in 1 .. Len(ss) - 1, n \in T PROVE n + 1 \in T
    <2>1. n + 1 \in 1 .. Len(ss) /\ n + 1 # 1 /\ (n + 1) - 1 = n OBVIOUS
    <2>2. F[n + 1] = F[n] \o ss[n + 1] BY <1>1, <2>1
    <2>3. g[n + 1] = g[n] \o ss[n + 1] BY <2>1
    <2> QED BY <1>4, <2>1, <2>2, <2>3
  <1> HIDE DEF T
  <1>5. 1 .. Len(ss) \subseteq T BY <1>3, <1>4, InductionUpTo
  <1>6. Len(ss) \in 1 .. Len(ss) OBVIOUS
  <1> QED BY <1>2, <1>5, <1>6 DEF T

\* Such a g there is.
LEMMA FlattenSeqSteps ==
  ASSUME NEW ss, Len(ss) \in Nat \ {0}
  PROVE \E g : /\ g[1] = ss[1]
               /\ \A n \in 1 .. Len(ss) - 1 : g[n + 1] = g[n] \o ss[n + 1]
               /\ FlattenSeq(ss) = g[Len(ss)]
  <1> DEFINE k == Len(ss)
             Upto(n, g) == /\ g[1] = ss[1]
                           /\ \A i \in 1 .. n - 1 : g[i + 1] = g[i] \o ss[i + 1]
             T == {n \in 1 .. k : \E g : Upto(n, g)}
  <1>1. 1 \in T
    <2> DEFINE g == [i \in 1 .. 1 |-> ss[1]]
    <2>1. g[1] = ss[1] OBVIOUS
    <2>2. \A i \in 1 .. 1 - 1 : FALSE OBVIOUS
    <2>3. Upto(1, g) BY <2>1, <2>2
    <2>4. 1 \in 1 .. k OBVIOUS
    <2> HIDE DEF g
    <2> QED BY <2>3, <2>4
  <1>2. ASSUME NEW n \in 1 .. k - 1, n \in T PROVE n + 1 \in T
    <2>1. PICK g : Upto(n, g) BY <1>2
    <2> DEFINE h == [i \in 1 .. n + 1 |-> IF i = n + 1 THEN g[n] \o ss[n + 1] ELSE g[i]]
    <2>2. n \in Nat /\ n >= 1 /\ 1 \in 1 .. n + 1 /\ 1 # n + 1 /\ n + 1 \in 1 .. k OBVIOUS
    <2>3. h[1] = ss[1] BY <2>1, <2>2
    <2>4. ASSUME NEW i \in 1 .. (n + 1) - 1 PROVE h[i + 1] = h[i] \o ss[i + 1]
      <3>1. i \in 1 .. n + 1 /\ i + 1 \in 1 .. n + 1 /\ i # n + 1 BY <2>2
      <3>2. h[i] = g[i] BY <3>1
      <3>3. CASE i = n
        <4>1. h[i + 1] = g[n] \o ss[n + 1] BY <3>1, <3>3
        <4> QED BY <4>1, <3>2, <3>3
      <3>4. CASE i # n
        <4>1. i \in 1 .. n - 1 /\ i + 1 # n + 1 BY <3>4, <2>2
        <4>2. h[i + 1] = g[i + 1] BY <3>1, <4>1
        <4>3. g[i + 1] = g[i] \o ss[i + 1] BY <2>1, <4>1
        <4> QED BY <3>2, <4>2, <4>3
      <3> QED BY <3>3, <3>4
    <2>5. Upto(n + 1, h) BY <2>3, <2>4
    <2> QED BY <2>2, <2>5
  <1> HIDE DEF T
  <1>3. 1 .. k \subseteq T BY <1>1, <1>2, InductionUpTo
  <1>4. k \in T BY <1>3
  <1>5. PICK g : Upto(k, g) BY <1>4 DEF T
  <1>6. FlattenSeq(ss) = g[k] BY <1>5, FlattenByStep
  <1> QED BY <1>5, <1>6

LEMMA SubSeqOne ==
  ASSUME NEW S, NEW W \in Seq(S), NEW j \in 1 .. Len(W)
  PROVE SubSeq(W, j, j) = <<W[j]>>
  <1>1. SubSeq(W, j, j) = <<W[j]>> \o SubSeq(W, j + 1, j)
    <2>1. j \in j .. Len(W) OBVIOUS
    <2> QED BY <2>1, SubSeqRecursiveFirst
  <1>2. SubSeq(W, j + 1, j) = <<>> BY SubSeqEmpty
  <1>3. <<W[j]>> \in Seq(S) OBVIOUS
  <1> QED BY <1>1, <1>2, <1>3, ConcatEmptySeq

(* The k segments a[i] .. b[i] lie in 1 .. len, one right after the other. *)
Adjacent(len, k, a, b) ==
    /\ a \in [1 .. k -> Int] /\ b \in [1 .. k -> Int]
    /\ \A i \in 1 .. k : 1 <= a[1] /\ a[1] <= a[i] /\ a[i] <= b[i] /\ b[i] <= len
    /\ \A i \in 1 .. k - 1 : a[i + 1] = b[i] + 1

LEMMA AdjacentBounds ==
  ASSUME NEW len \in Nat, NEW k \in Nat \ {0}, NEW a, NEW b, Adjacent(len, k, a, b),
         NEW i \in 1 .. k - 1
  PROVE /\ a[1] \in 1 .. len + 1
        /\ b[i] \in a[1] - 1 .. len
        /\ b[i + 1] \in b[i] .. len
        /\ a[i + 1] = b[i] + 1
  <1> DEFINE j == i + 1
  <1>1. i \in 1 .. k /\ j \in 1 .. k /\ 1 \in 1 .. k OBVIOUS
  <1>2. a[j] = b[i] + 1 BY DEF Adjacent
  <1> HIDE DEF j
  <1>3. a[1] \in Int /\ a[i] \in Int /\ b[i] \in Int /\ a[j] \in Int /\ b[j] \in Int
    BY <1>1 DEF Adjacent
  <1>4. 1 <= a[1] /\ a[1] <= a[i] /\ a[i] <= b[i] /\ b[i] <= len BY <1>1 DEF Adjacent
  <1>5. a[j] <= b[j] /\ b[j] <= len BY <1>1 DEF Adjacent
  <1>6. a[1] \in 1 .. len + 1 BY <1>3, <1>4
  <1>7. b[i] \in a[1] - 1 .. len BY <1>3, <1>4
  <1>8. b[j] \in b[i] .. len BY <1>2, <1>3, <1>5
  <1> QED BY <1>2, <1>6, <1>7, <1>8 DEF j

\* Adjacent segments of a sequence make one segment.
LEMMA FlattenAdjacent ==
  ASSUME NEW S, NEW W \in Seq(S), NEW k \in Nat \ {0}, NEW a, NEW b,
         Adjacent(Len(W), k, a, b)
  PROVE FlattenSeq([i \in 1 .. k |-> SubSeq(W, a[i], b[i])]) = SubSeq(W, a[1], b[k])
  <1> DEFINE ss == [i \in 1 .. k |-> SubSeq(W, a[i], b[i])]
             g == [i \in 1 .. k |-> SubSeq(W, a[1], b[i])]
  <1>1. Len(ss) = k OBVIOUS
  <1>2. ASSUME NEW i \in 1 .. k - 1
        PROVE g[i + 1] = g[i] \o ss[i + 1]
    <2>1. i \in 1 .. k /\ i + 1 \in 1 .. k OBVIOUS
    <2>2. /\ a[1] \in 1 .. Len(W) + 1
          /\ b[i] \in a[1] - 1 .. Len(W)
          /\ b[i + 1] \in b[i] .. Len(W)
          /\ a[i + 1] = b[i] + 1
      BY AdjacentBounds
    <2>3. SubSeq(W, a[1], b[i]) \o SubSeq(W, b[i] + 1, b[i + 1]) = SubSeq(W, a[1], b[i + 1])
      BY <2>2, ConcatAdjacentSubSeq
    <2> QED BY <2>1, <2>2, <2>3
  <1>3. g[1] = ss[1]
    <2>1. 1 \in 1 .. k OBVIOUS
    <2> QED BY <2>1
  <1>4. FlattenSeq(ss) = g[Len(ss)]
    <2>1. Len(ss) \in Nat \ {0} BY <1>1
    <2> HIDE DEF ss, g
    <2> QED BY <2>1, <1>1, <1>2, <1>3, FlattenByStep
  <1>5. g[k] = SubSeq(W, a[1], b[k])
    <2>1. k \in 1 .. k OBVIOUS
    <2> QED BY <2>1
  <1>6. FlattenSeq(ss) = SubSeq(W, a[1], b[k])
    <2> HIDE DEF ss, g
    <2> QED BY <1>1, <1>4, <1>5
  <1> QED BY <1>6, Zenon

------------------------------------------------------------------------------
(* The shape of a tree, and the ranges of its nodes.                       *)


\* The nodes of a tree with containers C and windows W.
Items(C, W) == DOMAIN C \cup ToSet(W)

\* The leaves of x are windows lo[x] .. hi[x] of W: a window is its own position,
\* and the children of a container tile its range in order.
Spans(C, W, lo, hi) ==
    /\ \A i \in 1 .. Len(W) : lo[W[i]] = i /\ hi[W[i]] = i
    /\ \A x \in Items(C, W) :
          /\ lo[x] \in Int /\ hi[x] \in Int
          /\ 1 <= lo[x] /\ lo[x] <= hi[x] /\ hi[x] <= Len(W)
    /\ \A n \in DOMAIN C :
          /\ lo[n] = lo[C[n][1]]
          /\ hi[n] = hi[C[n][Len(C[n])]]
          /\ \A i \in 1 .. Len(C[n]) : lo[n] <= lo[C[n][i]] /\ hi[C[n][i]] <= hi[n]
          /\ \A i \in 1 .. Len(C[n]) - 1 : lo[C[n][i + 1]] = hi[C[n][i]] + 1

\* Containers are negative and windows positive numbers, no container is empty,
\* and every node but the root is the child of one container at one place.
Shape(C, r, W) ==
    /\ W \in Seq(Nat \ {0})
    /\ DOMAIN C \subseteq {n \in Int : n < 0}
    /\ \A n \in DOMAIN C : C[n] \in Seq(Items(C, W)) /\ Len(C[n]) >= 1
    /\ r \in Items(C, W)
    /\ \A p \in DOMAIN C : \A i \in 1 .. Len(C[p]) : C[p][i] # r
    /\ \A p, q \in DOMAIN C : \A i \in 1 .. Len(C[p]), j \in 1 .. Len(C[q]) :
          C[p][i] = C[q][j] => p = q /\ i = j
    /\ \A x \in Items(C, W) \ {r} : \E p \in DOMAIN C : \E i \in 1 .. Len(C[p]) : C[p][i] = x

\* A tree whose root covers all of W.
Tree(C, r, W, lo, hi) ==
    /\ Shape(C, r, W)
    /\ Spans(C, W, lo, hi)
    /\ lo[r] = 1
    /\ hi[r] = Len(W)

\* No container has a single child.
Branching(C) == \A n \in DOMAIN C : Len(C[n]) >= 2

(* The children c of container n tile its span. *)
Tiles(lo, hi, n, c) ==
    /\ lo[n] = lo[c[1]]
    /\ hi[n] = hi[c[Len(c)]]
    /\ \A i \in 1 .. Len(c) : lo[n] <= lo[c[i]] /\ hi[c[i]] <= hi[n]
    /\ \A i \in 1 .. Len(c) - 1 : lo[c[i + 1]] = hi[c[i]] + 1

LEMMA TilesCopied ==
  ASSUME NEW lo, NEW hi, NEW lo2, NEW hi2, NEW n, NEW c, NEW d, Len(c) \in Nat \ {0},
         Len(d) = Len(c), lo2[n] = lo[n], hi2[n] = hi[n],
         \A i \in 1 .. Len(c) : lo2[d[i]] = lo[c[i]] /\ hi2[d[i]] = hi[c[i]],
         Tiles(lo, hi, n, c)
  PROVE Tiles(lo2, hi2, n, d)
  <1> DEFINE m == Len(c)
  <1>1. m \in Nat \ {0} /\ Len(d) = m /\ Len(c) = m OBVIOUS
  <1>2. \A i \in 1 .. m : lo2[d[i]] = lo[c[i]] /\ hi2[d[i]] = hi[c[i]] OBVIOUS
  <1> HIDE DEF m
  <1>3. 1 \in 1 .. m /\ m \in 1 .. m /\ \A i \in 1 .. m - 1 : i \in 1 .. m /\ i + 1 \in 1 .. m
    BY <1>1
  <1>4. lo2[n] = lo2[d[1]] /\ hi2[n] = hi2[d[Len(d)]] BY <1>1, <1>2, <1>3 DEF Tiles
  <1>5. ASSUME NEW i \in 1 .. Len(d) PROVE lo2[n] <= lo2[d[i]] /\ hi2[d[i]] <= hi2[n]
    <2>1. lo[n] <= lo[c[i]] /\ hi[c[i]] <= hi[n] BY <1>1 DEF Tiles
    <2> QED BY <1>1, <1>2, <2>1
  <1>6. ASSUME NEW i \in 1 .. Len(d) - 1 PROVE lo2[d[i + 1]] = hi2[d[i]] + 1
    <2>1. i \in 1 .. m - 1 /\ i \in 1 .. m /\ i + 1 \in 1 .. m BY <1>1, <1>3
    <2>2. lo[c[i + 1]] = hi[c[i]] + 1 BY <1>1 DEF Tiles
    <2> QED BY <1>2, <2>1, <2>2
  <1> QED BY <1>4, <1>5, <1>6 DEF Tiles

LEMMA ItemsAreNumbers ==
  ASSUME NEW C, NEW r, NEW W, Shape(C, r, W), NEW x \in Items(C, W)
  PROVE x \in Int /\ (x \in DOMAIN C <=> x < 0) /\ (x \in ToSet(W) <=> x > 0)
  BY DEF Shape, Items, ToSet

LEMMA ChildIsItem ==
  ASSUME NEW C, NEW r, NEW W, Shape(C, r, W), NEW n \in DOMAIN C, NEW i \in 1 .. Len(C[n])
  PROVE /\ C[n][i] \in Items(C, W)
        /\ DOMAIN C[n] = 1 .. Len(C[n])
        /\ Len(C[n]) \in Nat \ {0}
  BY DEF Shape

\* In a branching tree a child covers less than its parent: what Flatten and
\* SubSplitters recurse on.
LEMMA ChildSpanSmaller ==
  ASSUME NEW C, NEW r, NEW W, NEW lo, NEW hi, Tree(C, r, W, lo, hi),
         NEW n \in DOMAIN C, NEW i \in 1 .. Len(C[n]), Len(C[n]) >= 2
  PROVE hi[C[n][i]] - lo[C[n][i]] < hi[n] - lo[n]
  <1>1. Len(C[n]) \in Nat /\ \A j \in 1 .. Len(C[n]) : C[n][j] \in Items(C, W)
    BY ChildIsItem DEF Tree
  <1>2. \A j \in 1 .. Len(C[n]) : /\ lo[C[n][j]] \in Int /\ hi[C[n][j]] \in Int
                                  /\ lo[C[n][j]] <= hi[C[n][j]]
                                  /\ lo[n] <= lo[C[n][j]] /\ hi[C[n][j]] <= hi[n]
    BY <1>1 DEF Tree, Spans
  <1>3. lo[n] \in Int /\ hi[n] \in Int BY DEF Tree, Spans, Items
  <1> DEFINE lx == lo[C[n][i]]
             hx == hi[C[n][i]]
             ln == lo[n]
             hn == hi[n]
  <1>4. lx \in Int /\ hx \in Int /\ ln \in Int /\ hn \in Int /\ lx <= hx /\ ln <= lx /\ hx <= hn
    BY <1>2, <1>3
  <1>5. CASE i < Len(C[n])
    <2>1. i \in 1 .. Len(C[n]) - 1 /\ i + 1 \in 1 .. Len(C[n]) BY <1>1, <1>5
    <2> DEFINE ly == lo[C[n][i + 1]]
               hy == hi[C[n][i + 1]]
    <2>2. ly = hx + 1 BY <2>1 DEF Tree, Spans
    <2>3. ly \in Int /\ hy \in Int /\ ly <= hy /\ hy <= hn BY <2>1, <1>2
    <2> HIDE DEF ly, hy, lx, hx, ln, hn
    <2>4. hx - lx < hn - ln BY <2>2, <2>3, <1>4
    <2> QED BY <2>4 DEF lx, hx, ln, hn
  <1>6. CASE i = Len(C[n])
    <2>1. i - 1 \in 1 .. Len(C[n]) - 1 /\ i - 1 \in 1 .. Len(C[n]) /\ (i - 1) + 1 = i
      BY <1>1, <1>6
    <2> DEFINE ly == lo[C[n][i - 1]]
               hy == hi[C[n][i - 1]]
    <2>2. lo[C[n][(i - 1) + 1]] = hy + 1 BY <2>1 DEF Tree, Spans
    <2>3. lx = hy + 1 BY <2>1, <2>2
    <2>4. ly \in Int /\ hy \in Int /\ ly <= hy /\ ln <= ly BY <2>1, <1>2
    <2> HIDE DEF ly, hy, lx, hx, ln, hn
    <2>5. hx - lx < hn - ln BY <2>3, <2>4, <1>4
    <2> QED BY <2>5 DEF lx, hx, ln, hn
  <1>7. i < Len(C[n]) \/ i = Len(C[n]) BY <1>1
  <1> QED BY <1>5, <1>6, <1>7

\* The ranges of the children, concatenated, are that of their parent.
LEMMA FlattenChildren ==
  ASSUME NEW C, NEW r, NEW W, NEW lo, NEW hi, Tree(C, r, W, lo, hi), NEW n \in DOMAIN C
  PROVE FlattenSeq([i \in DOMAIN C[n] |-> SubSeq(W, lo[C[n][i]], hi[C[n][i]])])
          = SubSeq(W, lo[n], hi[n])
  <1> DEFINE k == Len(C[n])
             a == [i \in 1 .. k |-> lo[C[n][i]]]
             b == [i \in 1 .. k |-> hi[C[n][i]]]
  <1>1. /\ k \in Nat \ {0} /\ DOMAIN C[n] = 1 .. k /\ 1 \in 1 .. k
        /\ \A i \in 1 .. k : C[n][i] \in Items(C, W)
    BY ChildIsItem DEF Tree, Shape
  <1>2. W \in Seq(Nat \ {0}) /\ Len(W) \in Nat BY DEF Tree, Shape
  <1>3. a \in [1 .. k -> Int] /\ b \in [1 .. k -> Int] BY <1>1 DEF Tree, Spans
  <1>4. a[1] = lo[n] /\ b[k] = hi[n] BY <1>1 DEF Tree, Spans
  <1>5. \A i \in 1 .. k : 1 <= a[1] /\ a[1] <= a[i] /\ a[i] <= b[i] /\ b[i] <= Len(W)
    <2> SUFFICES ASSUME NEW i \in 1 .. k
                 PROVE 1 <= a[1] /\ a[1] <= a[i] /\ a[i] <= b[i] /\ b[i] <= Len(W)
      OBVIOUS
    <2>1. lo[n] <= lo[C[n][i]] BY DEF Tree, Spans
    <2>2. 1 <= lo[n] BY DEF Tree, Spans, Items
    <2>3. lo[C[n][i]] <= hi[C[n][i]] /\ hi[C[n][i]] <= Len(W) BY <1>1 DEF Tree, Spans
    <2> QED BY <2>1, <2>2, <2>3, <1>4
  <1>6. \A i \in 1 .. k - 1 : a[i + 1] = b[i] + 1
    <2> SUFFICES ASSUME NEW i \in 1 .. k - 1 PROVE a[i + 1] = b[i] + 1 OBVIOUS
    <2>1. i \in 1 .. k /\ i + 1 \in 1 .. k BY <1>1
    <2>2. lo[C[n][i + 1]] = hi[C[n][i]] + 1 BY DEF Tree, Spans
    <2> QED BY <2>1, <2>2
  <1>7. [i \in DOMAIN C[n] |-> SubSeq(W, lo[C[n][i]], hi[C[n][i]])]
          = [i \in 1 .. k |-> SubSeq(W, a[i], b[i])]
    BY <1>1
  <1> HIDE DEF a, b, k
  <1>8. FlattenSeq([i \in 1 .. k |-> SubSeq(W, a[i], b[i])]) = SubSeq(W, a[1], b[k])
    <2>1. Adjacent(Len(W), k, a, b) BY <1>3, <1>5, <1>6 DEF Adjacent
    <2> QED BY <1>1, <1>2, <2>1, FlattenAdjacent
  <1> QED BY <1>4, <1>7, <1>8

\* The function Flatten(C, r) applies to r.
FlatMap(C) ==
    CHOOSE flat : flat = [m \in Int |->
        IF m \in DOMAIN C THEN FlattenSeq([i \in DOMAIN C[m] |-> flat[C[m][i]]]) ELSE <<m>>]

\* It exists: what the ranges give satisfies its equation.
LEMMA FlatMapEquation ==
  ASSUME NEW C, NEW r, NEW W, NEW lo, NEW hi, Tree(C, r, W, lo, hi)
  PROVE FlatMap(C) = [m \in Int |->
          IF m \in DOMAIN C THEN FlattenSeq([i \in DOMAIN C[m] |-> FlatMap(C)[C[m][i]]])
                            ELSE <<m>>]
  <1> DEFINE g == [m \in Int |-> IF m \in Items(C, W) THEN SubSeq(W, lo[m], hi[m]) ELSE <<m>>]
  <1>1. ASSUME NEW m \in Int
        PROVE g[m] = IF m \in DOMAIN C THEN FlattenSeq([i \in DOMAIN C[m] |-> g[C[m][i]]])
                                       ELSE <<m>>
    <2>1. CASE m \in DOMAIN C
      <3>1. \A i \in DOMAIN C[m] : C[m][i] \in Items(C, W) /\ C[m][i] \in Int
        <4>1. Shape(C, r, W) BY DEF Tree
        <4> QED BY <4>1, <2>1, ChildIsItem, ItemsAreNumbers
      <3>2. [i \in DOMAIN C[m] |-> g[C[m][i]]]
              = [i \in DOMAIN C[m] |-> SubSeq(W, lo[C[m][i]], hi[C[m][i]])]
        BY <3>1
      <3>3. g[m] = SubSeq(W, lo[m], hi[m]) BY <2>1 DEF Items
      <3>4. FlattenSeq([i \in DOMAIN C[m] |-> SubSeq(W, lo[C[m][i]], hi[C[m][i]])])
              = SubSeq(W, lo[m], hi[m])
        BY <2>1, FlattenChildren
      <3> HIDE DEF g
      <3> QED BY <2>1, <3>2, <3>3, <3>4
    <2>2. CASE m \notin DOMAIN C /\ m \in ToSet(W)
      <3>1. W \in Seq(Nat \ {0}) BY DEF Tree, Shape
      <3>2. PICK j \in 1 .. Len(W) : m = W[j] BY <3>1, <2>2 DEF ToSet
      <3>3. g[m] = SubSeq(W, j, j) BY <2>2, <3>2 DEF Tree, Spans, Items
      <3>4. SubSeq(W, j, j) = <<W[j]>> BY <3>1, SubSeqOne
      <3> QED BY <2>2, <3>2, <3>3, <3>4
    <2>3. CASE m \notin Items(C, W) BY <2>3 DEF Items
    <2> QED BY <2>1, <2>2, <2>3 DEF Items
  <1>2. g = [m \in Int |-> g[m]] OBVIOUS
  <1> HIDE DEF g
  <1>3. g = [m \in Int |->
          IF m \in DOMAIN C THEN FlattenSeq([i \in DOMAIN C[m] |-> g[C[m][i]]]) ELSE <<m>>]
    BY <1>1, <1>2
  <1> QED BY <1>3 DEF FlatMap

\* And it is unique: it gives the range of every node, by induction on its length.
LEMMA FlattenItem ==
  ASSUME NEW C, NEW r, NEW W, NEW lo, NEW hi, Tree(C, r, W, lo, hi), Branching(C),
         NEW x \in Items(C, W)
  PROVE Flatten(C, x) = SubSeq(W, lo[x], hi[x])
  <1> DEFINE F == FlatMap(C)
             Bad == {d \in Nat : \E y \in Items(C, W) :
                        hi[y] - lo[y] = d /\ F[y] # SubSeq(W, lo[y], hi[y])}
  <1>1. F = [m \in Int |->
          IF m \in DOMAIN C THEN FlattenSeq([i \in DOMAIN C[m] |-> F[C[m][i]]]) ELSE <<m>>]
    BY FlatMapEquation
  <1>2. Flatten(C, x) = F[x] BY DEF Flatten, FlatMap
  <1> HIDE DEF F
  <1>3. \A y \in Items(C, W) : hi[y] - lo[y] \in Nat /\ y \in Int
    BY ItemsAreNumbers DEF Tree, Spans
  <1> SUFFICES ASSUME F[x] # SubSeq(W, lo[x], hi[x]) PROVE FALSE BY <1>2
  <1>4. hi[x] - lo[x] \in Bad BY <1>3
  <1>5. PICK d \in Bad : \A e \in Bad : d <= e BY <1>4, LeastElement
  <1>6. PICK y \in Items(C, W) : hi[y] - lo[y] = d /\ F[y] # SubSeq(W, lo[y], hi[y])
    BY <1>5
  <1>7. CASE y \in DOMAIN C
    <2>1. DOMAIN C[y] = 1 .. Len(C[y]) /\ Len(C[y]) >= 2
      BY <1>7, ChildIsItem DEF Tree, Shape, Branching
    <2>2. ASSUME NEW i \in DOMAIN C[y]
          PROVE F[C[y][i]] = SubSeq(W, lo[C[y][i]], hi[C[y][i]])
      <3>1. C[y][i] \in Items(C, W) BY <1>7, <2>1, ChildIsItem DEF Tree
      <3>2. hi[C[y][i]] - lo[C[y][i]] < d BY <1>6, <1>7, <2>1, ChildSpanSmaller
      <3>3. hi[C[y][i]] - lo[C[y][i]] \notin Bad BY <1>3, <1>5, <3>1, <3>2
      <3> QED BY <1>3, <3>1, <3>3
    <2>3. [i \in DOMAIN C[y] |-> F[C[y][i]]]
            = [i \in DOMAIN C[y] |-> SubSeq(W, lo[C[y][i]], hi[C[y][i]])]
      BY <2>2
    <2>4. F[y] = FlattenSeq([i \in DOMAIN C[y] |-> F[C[y][i]]]) BY <1>1, <1>3, <1>7
    <2> QED BY <1>6, <1>7, <2>3, <2>4, FlattenChildren
  <1>8. CASE y \notin DOMAIN C
    <2>1. W \in Seq(Nat \ {0}) BY DEF Tree, Shape
    <2>2. PICK j \in 1 .. Len(W) : y = W[j] BY <2>1, <1>8 DEF ToSet, Items
    <2>3. lo[y] = j /\ hi[y] = j BY <2>2 DEF Tree, Spans
    <2>4. SubSeq(W, j, j) = <<y>> BY <2>1, <2>2, SubSeqOne
    <2>5. F[y] = <<y>> BY <1>1, <1>3, <1>8
    <2> QED BY <1>6, <2>3, <2>4, <2>5
  <1> QED BY <1>7, <1>8

\* The leaves of the tree, in order, are the windows.
LEMMA FlattenTree ==
  ASSUME NEW C, NEW r, NEW W, NEW lo, NEW hi, Tree(C, r, W, lo, hi), Branching(C)
  PROVE Flatten(C, r) = W
  <1>1. W \in Seq(Nat \ {0}) /\ r \in Items(C, W) BY DEF Tree, Shape
  <1>2. Flatten(C, r) = SubSeq(W, lo[r], hi[r]) BY <1>1, FlattenItem
  <1>3. lo[r] = 1 /\ hi[r] = Len(W) BY DEF Tree
  <1> QED BY <1>1, <1>2, <1>3, SubSeqFull

------------------------------------------------------------------------------
(* The changes of a tree.                                                  *)


LEMMA ReplaceAllElements ==
  ASSUME NEW s, Len(s) \in Nat, NEW old, NEW new, NEW T,
         \A i \in 1 .. Len(s) : s[i] # old => s[i] \in T, new \in T
  PROVE /\ ReplaceAll(s, old, new) \in Seq(T)
        /\ Len(ReplaceAll(s, old, new)) = Len(s)
        /\ \A i \in 1 .. Len(s) : ReplaceAll(s, old, new)[i] = IF s[i] = old THEN new ELSE s[i]
  BY DEF ReplaceAll

\* The root r, or s where the root is x.
NestedRoot(r, x, s) == IF x = r THEN s ELSE r

\* Container s with the only child only is replaced by that child.
LEMMA TreeUnwrap ==
  ASSUME NEW C, NEW r, NEW W, NEW lo, NEW hi, Tree(C, r, W, lo, hi),
         NEW p \in DOMAIN C, Len(C[p]) = 1, C[p][1] # p,
         NEW D, DOMAIN D = DOMAIN C \ {p},
         \A n \in DOMAIN D : D[n] = ReplaceAll(C[n], p, C[p][1])
  PROVE Tree(D, NestedRoot(r, p, C[p][1]), W, lo, hi)
  <1> DEFINE only == C[p][1]
             u == IF r = p THEN only ELSE r
  <1>0. Shape(C, r, W) /\ Spans(C, W, lo, hi) /\ lo[r] = 1 /\ hi[r] = Len(W) BY DEF Tree
  <1>1. only \in Items(C, W) /\ only # r /\ only # p BY <1>0, ChildIsItem DEF Shape
  <1>2. \A n \in DOMAIN C : \A i \in 1 .. Len(C[n]) : C[n][i] = only => n = p
    BY <1>0 DEF Shape
  <1>3. lo[p] = lo[only] /\ hi[p] = hi[only] BY <1>0 DEF Spans
  <1>4. Items(D, W) = Items(C, W) \ {p}
    <2>1. p < 0 /\ p \in Items(C, W) BY <1>0 DEF Shape, Items
    <2>2. p \notin ToSet(W) BY <2>1, <1>0, ItemsAreNumbers
    <2> QED BY <2>2 DEF Items
  <1>5. \A n \in DOMAIN D : n \in DOMAIN C /\ n # p OBVIOUS
  <1>6. ASSUME NEW n \in DOMAIN D
        PROVE /\ D[n] \in Seq(Items(D, W))
              /\ Len(D[n]) = Len(C[n])
              /\ \A i \in 1 .. Len(C[n]) : D[n][i] = IF C[n][i] = p THEN only ELSE C[n][i]
    <2>1. Len(C[n]) \in Nat /\ \A i \in 1 .. Len(C[n]) : C[n][i] \in Items(C, W)
      BY <1>0, <1>5, ChildIsItem
    <2>2. /\ \A i \in 1 .. Len(C[n]) : C[n][i] # p => C[n][i] \in Items(D, W)
          /\ only \in Items(D, W)
      BY <2>1, <1>1, <1>4
    <2>3. D[n] = ReplaceAll(C[n], p, only) OBVIOUS
    <2> HIDE DEF only
    <2> QED BY <2>1, <2>2, <2>3, ReplaceAllElements
  <1> HIDE DEF only
  <1>7. Shape(D, u, W)
    <2>1. W \in Seq(Nat \ {0}) /\ DOMAIN D \subseteq {n \in Int : n < 0} BY <1>0 DEF Shape
    <2>2. \A n \in DOMAIN D : D[n] \in Seq(Items(D, W)) /\ Len(D[n]) >= 1
      BY <1>0, <1>5, <1>6 DEF Shape
    <2>3. u \in Items(D, W) BY <1>0, <1>1, <1>4 DEF Shape
    <2>4. ASSUME NEW n \in DOMAIN D, NEW i \in 1 .. Len(D[n]) PROVE D[n][i] # u
      <3>1. i \in 1 .. Len(C[n]) /\ D[n][i] = IF C[n][i] = p THEN only ELSE C[n][i] BY <1>6
      <3>2. C[n][i] # r /\ C[n][i] # only BY <1>0, <1>2, <1>5, <3>1 DEF Shape
      <3> QED BY <1>1, <3>1, <3>2
    <2>5. ASSUME NEW a \in DOMAIN D, NEW b \in DOMAIN D,
                 NEW i \in 1 .. Len(D[a]), NEW j \in 1 .. Len(D[b]), D[a][i] = D[b][j]
          PROVE a = b /\ i = j
      <3>1. i \in 1 .. Len(C[a]) /\ D[a][i] = IF C[a][i] = p THEN only ELSE C[a][i] BY <1>6
      <3>2. j \in 1 .. Len(C[b]) /\ D[b][j] = IF C[b][j] = p THEN only ELSE C[b][j] BY <1>6
      <3>3. C[a][i] # only /\ C[b][j] # only BY <1>2, <1>5, <3>1, <3>2
      <3>4. C[a][i] = C[b][j] BY <2>5, <3>1, <3>2, <3>3
      <3> QED BY <1>0, <1>5, <3>1, <3>2, <3>4 DEF Shape
    <2>6. ASSUME NEW x \in Items(D, W) \ {u}
          PROVE \E n \in DOMAIN D : \E i \in 1 .. Len(D[n]) : D[n][i] = x
      <3>1. CASE x = only
        <4>1. r # p BY <2>6, <3>1
        <4>2. PICK n \in DOMAIN C : \E i \in 1 .. Len(C[n]) : C[n][i] = p
          BY <1>0, <4>1 DEF Shape, Items
        <4>3. PICK i \in 1 .. Len(C[n]) : C[n][i] = p BY <4>2
        <4>4. n # p BY <1>1, <4>3 DEF only
        <4> QED BY <1>6, <3>1, <4>3, <4>4
      <3>2. CASE x # only
        <4>1. x \in Items(C, W) /\ x # p /\ x # r BY <1>4, <2>6
        <4>2. PICK n \in DOMAIN C : \E i \in 1 .. Len(C[n]) : C[n][i] = x
          BY <1>0, <4>1 DEF Shape
        <4>3. PICK i \in 1 .. Len(C[n]) : C[n][i] = x BY <4>2
        <4>4. n # p BY <3>2, <4>3 DEF only
        <4> QED BY <1>6, <4>1, <4>3, <4>4
      <3> QED BY <3>1, <3>2
    <2> QED BY <2>1, <2>2, <2>3, <2>4, <2>5, <2>6 DEF Shape
  <1>8. \A n \in DOMAIN D : \A i \in 1 .. Len(C[n]) :
           lo[D[n][i]] = lo[C[n][i]] /\ hi[D[n][i]] = hi[C[n][i]]
    BY <1>3, <1>6
  <1>9. Spans(D, W, lo, hi)
    <2>1. \A i \in 1 .. Len(W) : lo[W[i]] = i /\ hi[W[i]] = i BY <1>0 DEF Spans
    <2>2. \A x \in Items(D, W) :
             /\ lo[x] \in Int /\ hi[x] \in Int
             /\ 1 <= lo[x] /\ lo[x] <= hi[x] /\ hi[x] <= Len(W)
      BY <1>0, <1>4 DEF Spans
    <2>3. ASSUME NEW n \in DOMAIN D
          PROVE /\ lo[n] = lo[D[n][1]]
                /\ hi[n] = hi[D[n][Len(D[n])]]
                /\ \A i \in 1 .. Len(D[n]) : lo[n] <= lo[D[n][i]] /\ hi[D[n][i]] <= hi[n]
                /\ \A i \in 1 .. Len(D[n]) - 1 : lo[D[n][i + 1]] = hi[D[n][i]] + 1
      <3>1. Len(D[n]) = Len(C[n]) /\ Len(C[n]) \in Nat \ {0} BY <1>0, <1>5, <1>6 DEF Shape
      <3>2. Tiles(lo, hi, n, C[n]) BY <1>0, <1>5 DEF Spans, Tiles
      <3>3. \A i \in 1 .. Len(C[n]) :
               lo[D[n][i]] = lo[C[n][i]] /\ hi[D[n][i]] = hi[C[n][i]]
        BY <1>8
      <3>4. Tiles(lo, hi, n, D[n]) BY <3>1, <3>2, <3>3, TilesCopied
      <3> QED BY <3>4 DEF Tiles
    <2> QED BY <2>1, <2>2, <2>3 DEF Spans
  <1>10. lo[u] = 1 /\ hi[u] = Len(W) BY <1>0, <1>3
  <1>11. u = NestedRoot(r, p, only) BY DEF NestedRoot
  <1> QED BY <1>7, <1>9, <1>10, <1>11 DEF Tree, only

\* A new container s takes the place of x, which becomes its only child.
LEMMA TreeWrap ==
  ASSUME NEW C, NEW r, NEW W, NEW lo, NEW hi, Tree(C, r, W, lo, hi),
         NEW x \in Items(C, W), NEW s \in Int, s < 0, s \notin DOMAIN C,
         NEW D, DOMAIN D = DOMAIN C \cup {s}, D[s] = <<x>>,
         \A n \in DOMAIN C : D[n] = ReplaceAll(C[n], x, s)
  PROVE \E lo2, hi2 : Tree(D, IF r = x THEN s ELSE r, W, lo2, hi2)
  <1> DEFINE u == IF r = x THEN s ELSE r
             lo2 == [y \in Items(D, W) |-> IF y = s THEN lo[x] ELSE lo[y]]
             hi2 == [y \in Items(D, W) |-> IF y = s THEN hi[x] ELSE hi[y]]
  <1>0. Shape(C, r, W) /\ Spans(C, W, lo, hi) /\ lo[r] = 1 /\ hi[r] = Len(W) BY DEF Tree
  <1>1. s \notin Items(C, W) /\ s # x
    <2>1. s \notin ToSet(W) BY <1>0 DEF Shape, ToSet
    <2> QED BY <2>1 DEF Items
  <1>2. Items(D, W) = Items(C, W) \cup {s} BY DEF Items
  <1>3. ASSUME NEW n \in DOMAIN C
        PROVE /\ D[n] \in Seq(Items(D, W))
              /\ Len(D[n]) = Len(C[n])
              /\ n # s /\ n \in DOMAIN D
              /\ \A i \in 1 .. Len(C[n]) : D[n][i] = IF C[n][i] = x THEN s ELSE C[n][i]
              /\ \A i \in 1 .. Len(C[n]) : C[n][i] \in Items(C, W) /\ C[n][i] # s
    <2>1. Len(C[n]) \in Nat BY <1>0 DEF Shape
    <2>2. \A i \in 1 .. Len(C[n]) : C[n][i] \in Items(C, W) /\ C[n][i] # s
      BY <1>0, <1>1, ChildIsItem
    <2>3. D[n] = ReplaceAll(C[n], x, s) /\ n # s /\ n \in DOMAIN D OBVIOUS
    <2>4. /\ \A i \in 1 .. Len(C[n]) : C[n][i] # x => C[n][i] \in Items(D, W)
          /\ s \in Items(D, W)
      BY <1>2, <2>2
    <2>5. /\ D[n] \in Seq(Items(D, W))
          /\ Len(D[n]) = Len(C[n])
          /\ \A i \in 1 .. Len(C[n]) : D[n][i] = IF C[n][i] = x THEN s ELSE C[n][i]
      <3> DEFINE new == s
      <3>1. (\A i \in 1 .. Len(C[n]) : C[n][i] # x => C[n][i] \in Items(D, W)) /\ new \in Items(D, W)
        BY <2>4
      <3>2. D[n] = ReplaceAll(C[n], x, new) BY <2>3
      <3> HIDE DEF new
      <3>3. /\ D[n] \in Seq(Items(D, W))
            /\ Len(D[n]) = Len(C[n])
            /\ \A i \in 1 .. Len(C[n]) : D[n][i] = IF C[n][i] = x THEN new ELSE C[n][i]
        BY <2>1, <3>1, <3>2, ReplaceAllElements
      <3> QED BY <3>3 DEF new
    <2> QED BY <2>2, <2>3, <2>5
  <1>4. Len(D[s]) = 1 /\ D[s][1] = x /\ D[s] \in Seq(Items(D, W)) BY <1>2
  <1>5. Shape(D, u, W)
    <2>1. W \in Seq(Nat \ {0}) /\ DOMAIN D \subseteq {n \in Int : n < 0} BY <1>0 DEF Shape
    <2>2. ASSUME NEW n \in DOMAIN D PROVE D[n] \in Seq(Items(D, W)) /\ Len(D[n]) >= 1
      <3>1. CASE n = s
        <4>1. Len(D[s]) >= 1 BY <1>4
        <4> QED BY <3>1, <1>4, <4>1
      <3>2. CASE n \in DOMAIN C
        <4>1. Len(C[n]) >= 1 BY <3>2, <1>0 DEF Shape
        <4> QED BY <3>2, <4>1, <1>3
      <3> QED BY <3>1, <3>2
    <2>3. u \in Items(D, W) BY <1>0, <1>2 DEF Shape
    <2>4. ASSUME NEW n \in DOMAIN D, NEW i \in 1 .. Len(D[n]) PROVE D[n][i] # u
      <3>1. CASE n = s
        <4>1. D[n][i] = x BY <3>1, <1>4
        <4> QED BY <4>1, <1>1
      <3>2. CASE n # s
        <4>1. n \in DOMAIN C BY <3>2
        <4>2. i \in 1 .. Len(C[n]) /\ D[n][i] = IF C[n][i] = x THEN s ELSE C[n][i]
          BY <1>3, <4>1
        <4>3. C[n][i] # r /\ C[n][i] # s BY <1>0, <1>3, <4>1, <4>2 DEF Shape
        <4>4. s # r BY <1>0, <1>1 DEF Shape
        <4> QED BY <4>2, <4>3, <4>4
      <3> QED BY <3>1, <3>2
    <2>5. ASSUME NEW a \in DOMAIN D, NEW b \in DOMAIN D,
                 NEW i \in 1 .. Len(D[a]), NEW j \in 1 .. Len(D[b]), D[a][i] = D[b][j]
          PROVE a = b /\ i = j
      <3>1. ASSUME NEW n \in DOMAIN C, NEW m \in 1 .. Len(D[n]) PROVE D[n][m] # x
        BY <1>1, <1>3
      <3>2. CASE a = s \/ b = s BY <2>5, <3>1, <3>2, <1>4
      <3>3. CASE a # s /\ b # s
        <4>1. a \in DOMAIN C /\ b \in DOMAIN C BY <3>3
        <4>2. i \in 1 .. Len(C[a]) /\ D[a][i] = IF C[a][i] = x THEN s ELSE C[a][i]
          BY <1>3, <4>1
        <4>3. j \in 1 .. Len(C[b]) /\ D[b][j] = IF C[b][j] = x THEN s ELSE C[b][j]
          BY <1>3, <4>1
        <4>4. C[a][i] # s /\ C[b][j] # s BY <1>3, <4>1, <4>2, <4>3
        <4>5. C[a][i] = C[b][j] BY <2>5, <4>2, <4>3, <4>4
        <4>6. \A a1, b1 \in DOMAIN C : \A i1 \in 1 .. Len(C[a1]), j1 \in 1 .. Len(C[b1]) :
                 C[a1][i1] = C[b1][j1] => a1 = b1 /\ i1 = j1
          BY <1>0 DEF Shape
        <4> QED BY <4>1, <4>2, <4>3, <4>5, <4>6
      <3> QED BY <3>2, <3>3
    <2>6. ASSUME NEW y \in Items(D, W) \ {u}
          PROVE \E n \in DOMAIN D : \E i \in 1 .. Len(D[n]) : D[n][i] = y
      <3>1. CASE y = x BY <1>4, <3>1
      <3>2. CASE y = s
        <4>1. r # x BY <2>6, <3>2
        <4>2. PICK n \in DOMAIN C : \E i \in 1 .. Len(C[n]) : C[n][i] = x
          BY <1>0, <4>1 DEF Shape
        <4> QED BY <1>3, <3>2, <4>2
      <3>3. CASE y # x /\ y # s
        <4>1. y \in Items(C, W) /\ y # r BY <1>2, <2>6, <3>3
        <4>2. PICK n \in DOMAIN C : \E i \in 1 .. Len(C[n]) : C[n][i] = y
          BY <1>0, <4>1 DEF Shape
        <4> QED BY <1>3, <3>3, <4>2
      <3> QED BY <3>1, <3>2, <3>3
    <2> QED BY <2>1, <2>2, <2>3, <2>4, <2>5, <2>6 DEF Shape
  <1>6. /\ \A y \in Items(C, W) : lo2[y] = lo[y] /\ hi2[y] = hi[y]
        /\ lo2[s] = lo[x] /\ hi2[s] = hi[x]
    BY <1>1, <1>2
  <1> HIDE DEF lo2, hi2
  <1>7. \A n \in DOMAIN C : \A i \in 1 .. Len(C[n]) :
           lo2[D[n][i]] = lo[C[n][i]] /\ hi2[D[n][i]] = hi[C[n][i]]
    BY <1>3, <1>6
  <1>8. Spans(D, W, lo2, hi2)
    <2>1. \A i \in 1 .. Len(W) : lo2[W[i]] = i /\ hi2[W[i]] = i
      <3>1. \A i \in 1 .. Len(W) : W[i] \in Items(C, W) BY <1>0 DEF Shape, Items, ToSet
      <3> QED BY <1>0, <1>6, <3>1 DEF Spans
    <2>2. \A y \in Items(D, W) :
             /\ lo2[y] \in Int /\ hi2[y] \in Int
             /\ 1 <= lo2[y] /\ lo2[y] <= hi2[y] /\ hi2[y] <= Len(W)
      BY <1>0, <1>2, <1>6 DEF Spans
    <2>3. ASSUME NEW n \in DOMAIN D
          PROVE /\ lo2[n] = lo2[D[n][1]]
                /\ hi2[n] = hi2[D[n][Len(D[n])]]
                /\ \A i \in 1 .. Len(D[n]) : lo2[n] <= lo2[D[n][i]] /\ hi2[D[n][i]] <= hi2[n]
                /\ \A i \in 1 .. Len(D[n]) - 1 : lo2[D[n][i + 1]] = hi2[D[n][i]] + 1
      <3>1. CASE n = s
        <4>1. lo[x] \in Int /\ hi[x] \in Int BY <1>0 DEF Spans
        <4>2. lo2[n] = lo[x] /\ hi2[n] = hi[x] /\ lo2[D[n][1]] = lo[x] /\ hi2[D[n][1]] = hi[x]
          BY <3>1, <1>4, <1>6
        <4>3. Len(D[n]) = 1 BY <3>1, <1>4
        <4> QED BY <4>1, <4>2, <4>3
      <3>2. CASE n # s
        <4>0. n \in DOMAIN C BY <3>2
        <4>1. Len(D[n]) = Len(C[n]) /\ Len(C[n]) \in Nat \ {0} BY <1>0, <1>3, <4>0 DEF Shape
        <4>2. Tiles(lo, hi, n, C[n]) BY <1>0, <4>0 DEF Spans, Tiles
        <4>3. lo2[n] = lo[n] /\ hi2[n] = hi[n] BY <1>6, <4>0 DEF Items
        <4>4. \A i \in 1 .. Len(C[n]) :
                 lo2[D[n][i]] = lo[C[n][i]] /\ hi2[D[n][i]] = hi[C[n][i]]
          BY <1>7, <4>0
        <4>5. Tiles(lo2, hi2, n, D[n]) BY <4>1, <4>2, <4>3, <4>4, TilesCopied
        <4> QED BY <4>5 DEF Tiles
      <3> QED BY <3>1, <3>2
    <2> QED BY <2>1, <2>2, <2>3 DEF Spans
  <1>9. lo2[u] = 1 /\ hi2[u] = Len(W) BY <1>0, <1>6 DEF Shape
  <1>10. Tree(D, u, W, lo2, hi2) BY <1>5, <1>8, <1>9 DEF Tree
  <1> QED BY <1>10

\* A new window w right after window W[k], in the container and in the list.
LEMMA TreeInsert ==
  ASSUME NEW C, NEW r, NEW W, NEW lo, NEW hi, Tree(C, r, W, lo, hi),
         NEW p \in DOMAIN C, NEW q \in 1 .. Len(C[p]), NEW k \in 1 .. Len(W), C[p][q] = W[k],
         NEW w \in Nat \ {0}, w \notin ToSet(W),
         NEW D, DOMAIN D = DOMAIN C, D[p] = InsertAt(C[p], q + 1, w),
         \A n \in DOMAIN C \ {p} : D[n] = C[n]
  PROVE \E lo2, hi2 : Tree(D, r, InsertAt(W, k + 1, w), lo2, hi2)
  <1> DEFINE V == InsertAt(W, k + 1, w)
             X == Items(C, W) \cup {w}
             lo2 == [x \in X |-> IF x = w THEN k + 1 ELSE IF lo[x] > k THEN lo[x] + 1 ELSE lo[x]]
             hi2 == [x \in X |-> IF x = w THEN k + 1
                                 ELSE IF x = W[k] \/ hi[x] < k THEN hi[x] ELSE hi[x] + 1]
             Old(n, i) == IF n = p /\ i > q THEN i - 1 ELSE i
  <1>0. Shape(C, r, W) /\ Spans(C, W, lo, hi) /\ lo[r] = 1 /\ hi[r] = Len(W) BY DEF Tree
  <1>1. W \in Seq(Nat \ {0}) /\ Len(W) \in Nat BY <1>0 DEF Shape
  <1>2. /\ V \in Seq(Nat \ {0})
        /\ Len(V) = Len(W) + 1
        /\ \A j \in 1 .. k : V[j] = W[j]
        /\ V[k + 1] = w
        /\ \A j \in k + 1 .. Len(W) : V[j + 1] = W[j]
        /\ ToSet(V) = ToSet(W) \cup {w}
    <2>1. k + 1 \in 1 .. Len(W) + 1 /\ (k + 1) - 1 = k BY <1>1
    <2> DEFINE e == w
               j0 == k + 1
               S == Nat \ {0}
    <2>2. e \in S /\ W \in Seq(S) /\ j0 \in 1 .. Len(W) + 1 BY <1>1, <2>1
    <2> HIDE DEF e, j0, S
    <2>3. /\ InsertAt(W, j0, e) \in Seq(S)
          /\ Len(InsertAt(W, j0, e)) = Len(W) + 1
          /\ \A j \in 1 .. j0 - 1 : InsertAt(W, j0, e)[j] = W[j]
          /\ InsertAt(W, j0, e)[j0] = e
          /\ \A j \in j0 .. Len(W) : InsertAt(W, j0, e)[j + 1] = W[j]
          /\ ToSet(InsertAt(W, j0, e)) = ToSet(W) \cup {e}
      BY <2>2, InsertAtElements
    <2> QED BY <2>1, <2>3 DEF e, j0, S
  <1> HIDE DEF V
  <1>4. Items(D, V) = X BY <1>2 DEF Items
  <1>5. w \notin Items(C, W) BY <1>0 DEF Shape, Items
  <1>6. /\ W[k] \in Items(C, W) /\ W[k] \notin DOMAIN C /\ W[k] # r
        /\ lo[W[k]] = k /\ hi[W[k]] = k
    <2>1. W[k] \in ToSet(W) BY <1>1 DEF ToSet
    <2>2. W[k] > 0 BY <1>1
    <2>3. W[k] \in Items(C, W) BY <2>1 DEF Items
    <2>4. W[k] \notin DOMAIN C BY <1>0, <2>2, <2>3, ItemsAreNumbers
    <2>5. W[k] # r BY <1>0 DEF Shape
    <2>6. lo[W[k]] = k /\ hi[W[k]] = k BY <1>0 DEF Spans
    <2> QED BY <2>3, <2>4, <2>5, <2>6
  <1>7. /\ D[p] \in Seq(X)
        /\ Len(D[p]) = Len(C[p]) + 1
        /\ Len(C[p]) \in Nat
        /\ \A j \in 1 .. q : D[p][j] = C[p][j]
        /\ D[p][q + 1] = w
        /\ \A j \in q + 1 .. Len(C[p]) : D[p][j + 1] = C[p][j]
    <2>1. C[p] \in Seq(Items(C, W)) BY <1>0 DEF Shape
    <2>2. C[p] \in Seq(X) BY <2>1, SeqMonotonic
    <2>3. q + 1 \in 1 .. Len(C[p]) + 1 /\ Len(C[p]) \in Nat /\ (q + 1) - 1 = q BY <2>1
    <2> DEFINE e == w
               j0 == q + 1
               c == C[p]
    <2>4. e \in X /\ c \in Seq(X) /\ j0 \in 1 .. Len(c) + 1 BY <2>2, <2>3
    <2> HIDE DEF X, e, j0, c
    <2>5. /\ InsertAt(c, j0, e) \in Seq(X)
          /\ Len(InsertAt(c, j0, e)) = Len(c) + 1
          /\ \A j \in 1 .. j0 - 1 : InsertAt(c, j0, e)[j] = c[j]
          /\ InsertAt(c, j0, e)[j0] = e
          /\ \A j \in j0 .. Len(c) : InsertAt(c, j0, e)[j + 1] = c[j]
      BY <2>4, InsertAtElements
    <2> QED BY <2>3, <2>5 DEF e, j0, c
  <1>8. ASSUME NEW n \in DOMAIN C, NEW i \in 1 .. Len(D[n]), ~ (n = p /\ i = q + 1)
        PROVE Old(n, i) \in 1 .. Len(C[n]) /\ D[n][i] = C[n][Old(n, i)]
    <2>1. CASE n # p BY <2>1
    <2>2. CASE n = p /\ i < q + 1
      <3>1. i \in 1 .. q /\ i \in 1 .. Len(C[p]) /\ ~ (i > q) BY <1>7, <2>2
      <3> QED BY <1>7, <2>2, <3>1
    <2>3. CASE n = p /\ i > q + 1
      <3>1. i - 1 \in q + 1 .. Len(C[p]) /\ i - 1 \in 1 .. Len(C[p]) /\ i > q /\ (i - 1) + 1 = i
        BY <1>7, <2>3
      <3>2. D[p][(i - 1) + 1] = C[p][i - 1] BY <1>7, <3>1
      <3> QED BY <2>3, <3>1, <3>2
    <2>4. i \in Int /\ q \in Int BY <1>8, <1>7
    <2> QED BY <1>8, <2>1, <2>2, <2>3, <2>4
  <1>9. ASSUME NEW n \in DOMAIN C, NEW j \in 1 .. Len(C[n])
        PROVE \E i \in 1 .. Len(D[n]) : D[n][i] = C[n][j]
    <2>1. CASE n # p BY <2>1
    <2>2. CASE n = p /\ j \in 1 .. q
      <3>1. j \in 1 .. Len(C[p]) + 1 BY <1>7, <2>2
      <3> QED BY <1>7, <2>2, <3>1
    <2>3. CASE n = p /\ j \in q + 1 .. Len(C[p])
      <3>1. j + 1 \in 1 .. Len(C[p]) + 1 BY <1>7, <2>3
      <3> QED BY <1>7, <2>3, <3>1
    <2> QED BY <2>1, <2>2, <2>3, <1>7
  <1>10. q + 1 \in 1 .. Len(D[p]) /\ D[p][q + 1] = w BY <1>7
  <1>11. Shape(D, r, V)
    <2>1. V \in Seq(Nat \ {0}) /\ DOMAIN D \subseteq {n \in Int : n < 0} BY <1>0, <1>2 DEF Shape
    <2>2. ASSUME NEW n \in DOMAIN D PROVE D[n] \in Seq(Items(D, V)) /\ Len(D[n]) >= 1
      <3>1. CASE n = p BY <3>1, <1>4, <1>7
      <3>2. CASE n # p
        <4>1. C[n] \in Seq(Items(C, W)) /\ Len(C[n]) >= 1 BY <1>0 DEF Shape
        <4>2. C[n] \in Seq(X) BY <4>1, SeqMonotonic
        <4> QED BY <1>4, <3>2, <4>1, <4>2
      <3> QED BY <3>1, <3>2
    <2>3. r \in Items(D, V) BY <1>0, <1>4 DEF Shape
    <2>4. ASSUME NEW n \in DOMAIN D, NEW i \in 1 .. Len(D[n]) PROVE D[n][i] # r
      <3>1. CASE n = p /\ i = q + 1 BY <3>1, <1>0, <1>5, <1>10 DEF Shape
      <3>2. CASE ~ (n = p /\ i = q + 1)
        <4> HIDE DEF Old
        <4>1. Old(n, i) \in 1 .. Len(C[n]) /\ D[n][i] = C[n][Old(n, i)] BY <1>8, <3>2
        <4>2. \A a \in DOMAIN C : \A j \in 1 .. Len(C[a]) : C[a][j] # r BY <1>0 DEF Shape
        <4> QED BY <4>1, <4>2
      <3> QED BY <3>1, <3>2
    <2>5. ASSUME NEW a \in DOMAIN D, NEW b \in DOMAIN D,
                 NEW i \in 1 .. Len(D[a]), NEW j \in 1 .. Len(D[b]), D[a][i] = D[b][j]
          PROVE a = b /\ i = j
      <3>1. ASSUME NEW n \in DOMAIN C, NEW m \in 1 .. Len(D[n]), ~ (n = p /\ m = q + 1)
            PROVE D[n][m] # w
        <4>1. Old(n, m) \in 1 .. Len(C[n]) /\ D[n][m] = C[n][Old(n, m)] BY <1>8, <3>1
        <4>2. C[n][Old(n, m)] \in Items(C, W) BY <1>0, <4>1, ChildIsItem
        <4> QED BY <1>5, <4>1, <4>2
      <3>2. CASE (a = p /\ i = q + 1) \/ (b = p /\ j = q + 1) BY <1>10, <2>5, <3>1, <3>2
      <3>3. CASE ~ (a = p /\ i = q + 1) /\ ~ (b = p /\ j = q + 1)
        <4>1. Old(a, i) \in 1 .. Len(C[a]) /\ D[a][i] = C[a][Old(a, i)] BY <1>8, <3>3
        <4>2. Old(b, j) \in 1 .. Len(C[b]) /\ D[b][j] = C[b][Old(b, j)] BY <1>8, <3>3
        <4>3. a = b /\ Old(a, i) = Old(b, j)
          <5> HIDE DEF Old
          <5>1. PICK m \in 1 .. Len(C[a]) : m = Old(a, i) /\ D[a][i] = C[a][m] BY <4>1
          <5>2. PICK n \in 1 .. Len(C[b]) : n = Old(b, j) /\ D[b][j] = C[b][n] BY <4>2
          <5>3. C[a][m] = C[b][n] BY <5>1, <5>2, <2>5
          <5>4. \A a1 \in DOMAIN C, b1 \in DOMAIN C :
                   \A i1 \in 1 .. Len(C[a1]), j1 \in 1 .. Len(C[b1]) :
                      C[a1][i1] = C[b1][j1] => a1 = b1 /\ i1 = j1
            BY <1>0 DEF Shape
          <5>5. a \in DOMAIN C /\ b \in DOMAIN C BY <2>5
          <5>6. a = b /\ m = n BY <5>3, <5>4, <5>5
          <5> QED BY <5>1, <5>2, <5>6
        <4>4. CASE a # p BY <4>3, <4>4
        <4>5. CASE a = p
          <5>1. i \in Nat /\ j \in Nat /\ q \in Nat BY <1>7, <4>3, <4>5
          <5>2. i # q + 1 /\ j # q + 1 BY <3>3, <4>3, <4>5
          <5>3. (i > q => Old(a, i) = i - 1) /\ (~ (i > q) => Old(a, i) = i)
                /\ (j > q => Old(b, j) = j - 1) /\ (~ (j > q) => Old(b, j) = j)
            BY <4>3, <4>5
          <5> HIDE DEF Old
          <5> QED BY <4>3, <5>1, <5>2, <5>3
        <4> QED BY <4>4, <4>5
      <3> QED BY <3>2, <3>3
    <2>6. ASSUME NEW x \in Items(D, V) \ {r}
          PROVE \E n \in DOMAIN D : \E i \in 1 .. Len(D[n]) : D[n][i] = x
      <3>1. CASE x = w BY <1>10, <3>1
      <3>2. CASE x # w
        <4>1. x \in Items(C, W) \ {r} BY <1>4, <2>6, <3>2
        <4>2. PICK n \in DOMAIN C : \E j \in 1 .. Len(C[n]) : C[n][j] = x
          BY <1>0, <4>1 DEF Shape
        <4>3. PICK j \in 1 .. Len(C[n]) : C[n][j] = x BY <4>2
        <4> QED BY <1>9, <4>3
      <3> QED BY <3>1, <3>2
    <2> QED BY <2>1, <2>2, <2>3, <2>4, <2>5, <2>6 DEF Shape
  <1>12. lo2[w] = k + 1 /\ hi2[w] = k + 1 OBVIOUS
  <1>13. ASSUME NEW x \in Items(C, W)
         PROVE /\ lo[x] \in Int /\ hi[x] \in Int
               /\ 1 <= lo[x] /\ lo[x] <= hi[x] /\ hi[x] <= Len(W)
               /\ lo[x] > k => lo2[x] = lo[x] + 1
               /\ lo[x] <= k => lo2[x] = lo[x]
               /\ x # W[k] /\ hi[x] >= k => hi2[x] = hi[x] + 1
               /\ x = W[k] \/ hi[x] < k => hi2[x] = hi[x]
    <2>1. x # w /\ x \in X BY <1>5
    <2>2. /\ lo2[x] = IF lo[x] > k THEN lo[x] + 1 ELSE lo[x]
          /\ hi2[x] = IF x = W[k] \/ hi[x] < k THEN hi[x] ELSE hi[x] + 1
      BY <2>1
    <2>3. /\ lo[x] \in Int /\ hi[x] \in Int
          /\ 1 <= lo[x] /\ lo[x] <= hi[x] /\ hi[x] <= Len(W)
      BY <1>0 DEF Spans
    <2> HIDE DEF lo2, hi2
    <2> QED BY <2>2, <2>3
  <1> HIDE DEF lo2, hi2, X, Old
  <1>17. ASSUME NEW x \in Items(C, W), NEW y \in Items(C, W), x # W[k], lo[y] = hi[x] + 1
         PROVE lo2[y] = hi2[x] + 1
    <2>1. CASE hi[x] < k
      <3>1. hi2[x] = hi[x] /\ lo[y] <= k /\ hi[x] \in Int BY <1>13, <1>17, <2>1
      <3>2. lo2[y] = lo[y] BY <3>1, <1>13
      <3> QED BY <3>1, <3>2, <1>17
    <2>2. CASE hi[x] >= k
      <3>1. hi2[x] = hi[x] + 1 /\ lo[y] > k /\ hi[x] \in Int BY <1>13, <1>17, <2>2
      <3>2. lo2[y] = lo[y] + 1 BY <3>1, <1>13
      <3> QED BY <3>1, <3>2, <1>17
    <2>3. hi[x] \in Int BY <1>13
    <2> QED BY <2>1, <2>2, <2>3
  <1>18. ASSUME NEW x \in Items(C, W), NEW y \in Items(C, W), y # W[k], x # W[k],
                lo[y] <= lo[x], hi[x] <= hi[y]
         PROVE lo2[y] <= lo2[x] /\ hi2[x] <= hi2[y]
    <2>1. /\ lo[x] \in Int /\ hi[x] \in Int /\ lo[y] \in Int /\ hi[y] \in Int
          /\ lo[x] > k => lo2[x] = lo[x] + 1
          /\ lo[x] <= k => lo2[x] = lo[x]
          /\ hi[x] >= k => hi2[x] = hi[x] + 1
          /\ hi[x] < k => hi2[x] = hi[x]
          /\ lo[y] > k => lo2[y] = lo[y] + 1
          /\ lo[y] <= k => lo2[y] = lo[y]
          /\ hi[y] >= k => hi2[y] = hi[y] + 1
          /\ hi[y] < k => hi2[y] = hi[y]
      BY <1>13, <1>18
    <2>2. lo2[y] <= lo2[x]
      <3>1. CASE lo[y] > k
        <4>1. lo[x] > k BY <3>1, <2>1, <1>18
        <4> QED BY <3>1, <4>1, <2>1, <1>18
      <3>2. CASE lo[y] <= k
        <4>1. lo2[y] = lo[y] /\ (lo2[x] = lo[x] \/ lo2[x] = lo[x] + 1) BY <3>2, <2>1
        <4> QED BY <4>1, <2>1, <1>18
      <3> QED BY <3>1, <3>2, <2>1
    <2>3. hi2[x] <= hi2[y]
      <3>1. CASE hi[x] >= k
        <4>1. hi[y] >= k BY <3>1, <2>1, <1>18
        <4> QED BY <3>1, <4>1, <2>1, <1>18
      <3>2. CASE hi[x] < k
        <4>1. hi2[x] = hi[x] /\ (hi2[y] = hi[y] \/ hi2[y] = hi[y] + 1) BY <3>2, <2>1
        <4> QED BY <4>1, <2>1, <1>18
      <3> QED BY <3>1, <3>2, <2>1
    <2> QED BY <2>2, <2>3
  <1>14. Spans(D, V, lo2, hi2)
    <2>1. ASSUME NEW j \in 1 .. Len(V) PROVE lo2[V[j]] = j /\ hi2[V[j]] = j
      <3>1. CASE j = k + 1 BY <3>1, <1>2, <1>12
      <3>2. CASE j < k + 1
        <4>1. j \in 1 .. Len(W) /\ j \in 1 .. k BY <3>2, <1>1, <1>2
        <4>2. V[j] = W[j] BY <4>1, <1>2
        <4>3. lo[W[j]] = j /\ hi[W[j]] = j BY <1>0, <4>1 DEF Spans
        <4>4. W[j] \in Items(C, W) BY <1>1, <4>1 DEF Items, ToSet
        <4>5. W[j] = W[k] \/ j < k BY <3>2, <4>1
        <4> QED BY <4>2, <4>3, <4>4, <4>5, <3>2, <1>13
      <3>3. CASE j > k + 1
        <4>1. j - 1 \in 1 .. Len(W) /\ j - 1 \in k + 1 .. Len(W) /\ (j - 1) + 1 = j
          BY <3>3, <1>1, <1>2
        <4>2. V[(j - 1) + 1] = W[j - 1] BY <4>1, <1>2
        <4>3. lo[W[j - 1]] = j - 1 /\ hi[W[j - 1]] = j - 1 BY <1>0, <4>1 DEF Spans
        <4>4. W[j - 1] \in Items(C, W)
          <5>1. j - 1 \in DOMAIN W BY <1>1, <4>1
          <5> QED BY <5>1 DEF Items, ToSet
        <4>5. W[j - 1] # W[k] BY <1>6, <4>1, <4>3, <3>3
        <4>6. lo2[W[j - 1]] = (j - 1) + 1 /\ hi2[W[j - 1]] = (j - 1) + 1
          <5> DEFINE x == W[j - 1]
                     i == j - 1
          <5>1. i > k /\ i \in Int BY <3>3, <4>1
          <5>2. x \in Items(C, W) /\ lo[x] = i /\ hi[x] = i /\ x # W[k] BY <4>3, <4>4, <4>5
          <5> HIDE DEF x, i
          <5>3. lo[x] > k /\ ~ (hi[x] < k) BY <5>1, <5>2
          <5>4. lo2[x] = lo[x] + 1 /\ hi2[x] = hi[x] + 1 BY <5>2, <5>3, <1>13
          <5>5. lo2[x] = i + 1 /\ hi2[x] = i + 1 BY <5>2, <5>4
          <5> QED BY <5>5 DEF x, i
        <4> QED BY <4>1, <4>2, <4>6
      <3>4. j \in Int BY <1>1, <1>2
      <3> QED BY <3>1, <3>2, <3>3, <3>4
    <2>2. ASSUME NEW x \in Items(D, V)
          PROVE /\ lo2[x] \in Int /\ hi2[x] \in Int
                /\ 1 <= lo2[x] /\ lo2[x] <= hi2[x] /\ hi2[x] <= Len(V)
      <3>1. CASE x = w
        <4>1. k + 1 \in Int /\ 1 <= k + 1 /\ k + 1 <= Len(V) BY <1>1, <1>2
        <4>2. lo2[x] = k + 1 /\ hi2[x] = k + 1 BY <3>1, <1>12
        <4> QED BY <4>1, <4>2
      <3>2. CASE x = W[k]
        <4>1. lo2[x] = k /\ hi2[x] = k BY <3>2, <1>6, <1>13
        <4>2. k \in Int /\ 1 <= k /\ k <= Len(V) BY <1>1, <1>2
        <4> QED BY <4>1, <4>2
      <3>3. CASE x # w /\ x # W[k]
        <4>0. Len(V) = Len(W) + 1 /\ Len(W) \in Nat BY <1>1, <1>2
        <4>1. x \in Items(C, W) BY <3>3, <1>4 DEF X
        <4>2. /\ lo[x] \in Int /\ hi[x] \in Int
              /\ 1 <= lo[x] /\ lo[x] <= hi[x] /\ hi[x] <= Len(W)
              /\ lo[x] > k => lo2[x] = lo[x] + 1
              /\ lo[x] <= k => lo2[x] = lo[x]
              /\ hi[x] >= k => hi2[x] = hi[x] + 1
              /\ hi[x] < k => hi2[x] = hi[x]
          BY <4>1, <3>3, <1>13
        <4>3. CASE lo[x] > k
          <5>1. hi[x] >= k BY <4>2, <4>3
          <5> DEFINE a == lo[x]
                     b == hi[x]
                     len == Len(W)
          <5>2. lo2[x] = a + 1 /\ hi2[x] = b + 1 BY <4>2, <4>3, <5>1
          <5>3. a \in Int /\ b \in Int /\ 1 <= a /\ a <= b /\ b <= len BY <4>2
          <5>4. len \in Nat /\ Len(V) = len + 1 BY <4>0
          <5> HIDE DEF a, b, len
          <5>5. a + 1 \in Int /\ b + 1 \in Int /\ 1 <= a + 1 /\ a + 1 <= b + 1 /\ b + 1 <= len + 1
            BY <5>3, <5>4
          <5> QED BY <5>2, <5>4, <5>5
        <4>4. CASE lo[x] <= k
          <5> DEFINE a == lo[x]
                     b == hi[x]
                     len == Len(W)
                     d == hi2[x]
          <5>1. lo2[x] = a BY <4>2, <4>4
          <5>2. d = b \/ d = b + 1 BY <4>2
          <5>3. a \in Int /\ b \in Int /\ 1 <= a /\ a <= b /\ b <= len BY <4>2
          <5>4. len \in Nat /\ Len(V) = len + 1 BY <4>0
          <5> HIDE DEF a, b, len, d
          <5>5. d \in Int /\ a <= d /\ d <= len + 1 BY <5>2, <5>3, <5>4
          <5> QED BY <5>1, <5>3, <5>4, <5>5 DEF d
        <4> QED BY <4>2, <4>3, <4>4
      <3> QED BY <3>1, <3>2, <3>3
    <2>3. ASSUME NEW n \in DOMAIN D, n # p
          PROVE /\ lo2[n] = lo2[D[n][1]]
                /\ hi2[n] = hi2[D[n][Len(D[n])]]
                /\ \A i \in 1 .. Len(D[n]) : lo2[n] <= lo2[D[n][i]] /\ hi2[D[n][i]] <= hi2[n]
                /\ \A i \in 1 .. Len(D[n]) - 1 : lo2[D[n][i + 1]] = hi2[D[n][i]] + 1
      <3>1. D[n] = C[n] /\ n \in DOMAIN C /\ n \in Items(C, W) BY <2>3 DEF Items
      <3>2. Len(C[n]) \in Nat \ {0} BY <1>0 DEF Shape
      <3>3. \A i \in 1 .. Len(C[n]) : C[n][i] \in Items(C, W) BY <1>0, ChildIsItem
      <3>4. \A i \in 1 .. Len(C[n]) : C[n][i] # W[k] BY <1>0, <2>3 DEF Shape
      <3>5. n # W[k] BY <1>6
      <3>6. lo2[n] = lo2[C[n][1]]
        <4>1. lo[n] = lo[C[n][1]] BY <1>0 DEF Spans
        <4> QED BY <3>1, <3>2, <3>3, <4>1, <1>13
      <3>7. hi2[n] = hi2[C[n][Len(C[n])]]
        <4>1. hi[n] = hi[C[n][Len(C[n])]] BY <1>0 DEF Spans
        <4>2. Len(C[n]) \in 1 .. Len(C[n]) BY <3>2
        <4> DEFINE x == C[n][Len(C[n])]
        <4>3. x \in Items(C, W) /\ x # W[k] BY <4>2, <3>3, <3>4
        <4>4. hi[n] = hi[x] /\ n \in Items(C, W) BY <4>1, <3>1
        <4> HIDE DEF x
        <4>5. hi[x] \in Int BY <4>3, <1>13
        <4>6. ASSUME hi[x] >= k PROVE hi2[n] = hi2[x]
          <5>1. hi2[x] = hi[x] + 1 /\ hi2[n] = hi[n] + 1 BY <4>3, <4>4, <4>6, <3>5, <1>13
          <5> QED BY <4>4, <5>1
        <4>7. ASSUME hi[x] < k PROVE hi2[n] = hi2[x]
          <5>1. hi2[x] = hi[x] /\ hi2[n] = hi[n] BY <4>3, <4>4, <4>7, <1>13
          <5> QED BY <4>4, <5>1
        <4>8. hi2[n] = hi2[x] BY <4>5, <4>6, <4>7
        <4> QED BY <4>8, <3>1 DEF x
      <3>8. ASSUME NEW i \in 1 .. Len(C[n])
            PROVE lo2[n] <= lo2[C[n][i]] /\ hi2[C[n][i]] <= hi2[n]
        <4>1. lo[n] <= lo[C[n][i]] /\ hi[C[n][i]] <= hi[n] BY <1>0 DEF Spans
        <4>2. C[n][i] \in Items(C, W) /\ C[n][i] # W[k] BY <3>3, <3>4
        <4> QED BY <3>1, <3>5, <4>1, <4>2, <1>18
      <3>9. ASSUME NEW i \in 1 .. Len(C[n]) - 1
            PROVE lo2[C[n][i + 1]] = hi2[C[n][i]] + 1
        <4>1. lo[C[n][i + 1]] = hi[C[n][i]] + 1 BY <1>0 DEF Spans
        <4>2. i \in 1 .. Len(C[n]) /\ i + 1 \in 1 .. Len(C[n]) BY <3>2
        <4>3. C[n][i] \in Items(C, W) /\ C[n][i] # W[k] /\ C[n][i + 1] \in Items(C, W)
          BY <3>3, <3>4, <4>2
        <4> QED BY <4>1, <4>3, <1>17
      <3> QED BY <3>1, <3>6, <3>7, <3>8, <3>9
    <2>4. /\ lo2[p] = lo2[D[p][1]]
          /\ hi2[p] = hi2[D[p][Len(D[p])]]
          /\ \A i \in 1 .. Len(D[p]) : lo2[p] <= lo2[D[p][i]] /\ hi2[D[p][i]] <= hi2[p]
          /\ \A i \in 1 .. Len(D[p]) - 1 : lo2[D[p][i + 1]] = hi2[D[p][i]] + 1
      <3> DEFINE c == C[p]
                 m == Len(C[p])
      <3>1. m \in Nat \ {0} /\ p \in Items(C, W) /\ p # W[k] BY <1>0, <1>6, <1>7 DEF Shape, Items
      <3>2. \A i \in 1 .. m : C[p][i] \in Items(C, W) /\ (C[p][i] = W[k] <=> i = q)
        <4>1. \A i \in 1 .. m : C[p][i] \in Items(C, W) BY <1>0, ChildIsItem
        <4>2. \A i \in 1 .. m : C[p][i] = C[p][q] => i = q BY <1>0 DEF Shape
        <4> QED BY <4>1, <4>2
      <3>3. /\ lo[p] = lo[C[p][1]] /\ hi[p] = hi[C[p][m]]
            /\ \A i \in 1 .. m : lo[p] <= lo[C[p][i]] /\ hi[C[p][i]] <= hi[p]
            /\ \A i \in 1 .. m - 1 : lo[C[p][i + 1]] = hi[C[p][i]] + 1
        BY <1>0 DEF Spans
      <3>4. lo[p] <= k /\ k <= hi[p] BY <1>6, <3>3
      <3>5. lo2[p] = lo[p] /\ hi2[p] = hi[p] + 1 BY <1>13, <3>1, <3>4
      <3>6. /\ \A j \in 1 .. q : D[p][j] = C[p][j]
            /\ \A j \in q + 1 .. m : D[p][j + 1] = C[p][j]
        BY <1>7
      <3>7. Len(D[p]) = m + 1 BY <1>7
      <3>8. D[p][q + 1] = w /\ D[p][q] = W[k] /\ lo2[W[k]] = k /\ hi2[W[k]] = k
        <4>1. q \in 1 .. q BY <3>1
        <4> QED BY <4>1, <3>6, <1>10, <1>6, <1>13
      <3>9. lo2[p] = lo2[D[p][1]]
        <4>1. 1 \in 1 .. q /\ 1 \in 1 .. m BY <3>1
        <4>2. D[p][1] = C[p][1] BY <4>1, <3>6
        <4>3. C[p][1] \in Items(C, W) /\ lo[C[p][1]] <= k BY <4>1, <3>2, <3>3, <3>4
        <4>4. lo2[C[p][1]] = lo[C[p][1]] BY <4>3, <1>13
        <4> QED BY <4>2, <4>4, <3>3, <3>5
      <3>10. hi2[p] = hi2[D[p][Len(D[p])]]
        <4>1. CASE q = m BY <4>1, <3>3, <3>5, <3>7, <3>8, <1>6, <1>12
        <4>2. CASE q # m
          <5>1. m \in q + 1 .. m /\ m \in 1 .. m
            BY <4>2, <3>1
          <5>2. D[p][m + 1] = C[p][m] BY <5>1, <3>6
          <5>3. C[p][m] # W[k] /\ C[p][m] \in Items(C, W) BY <4>2, <5>1, <3>2
          <5>4. ~ (hi[C[p][m]] < k) BY <3>3, <3>4, <5>3, <1>13
          <5>5. hi2[C[p][m]] = hi[C[p][m]] + 1 BY <5>3, <5>4, <1>13
          <5> QED BY <5>2, <5>5, <3>3, <3>5, <3>7
        <4> QED BY <4>1, <4>2
      <3>11. ASSUME NEW i \in 1 .. m + 1
             PROVE lo2[p] <= lo2[D[p][i]] /\ hi2[D[p][i]] <= hi2[p]
        <4>0. lo[p] \in Int /\ hi[p] \in Int BY <3>1, <1>13
        <4>1. CASE i = q + 1
          <5>1. lo2[D[p][i]] = k + 1 /\ hi2[D[p][i]] = k + 1 BY <4>1, <3>8, <1>12
          <5> DEFINE a == lo[p]
                     b == hi[p]
          <5>2. a \in Int /\ b \in Int /\ a <= k /\ k <= b BY <4>0, <3>4
          <5>3. lo2[p] = a /\ hi2[p] = b + 1 BY <3>5
          <5> HIDE DEF a, b
          <5>4. a <= k + 1 /\ k + 1 <= b + 1 BY <5>2
          <5> QED BY <5>1, <5>3, <5>4
        <4>2. ASSUME NEW j \in 1 .. m, D[p][i] = C[p][j]
              PROVE lo2[p] <= lo2[D[p][i]] /\ hi2[D[p][i]] <= hi2[p]
          <5> DEFINE x == C[p][j]
          <5>1. x \in Items(C, W) /\ lo[p] <= lo[x] /\ hi[x] <= hi[p] BY <3>2, <3>3
          <5> HIDE DEF x
          <5>2. /\ lo[x] \in Int /\ hi[x] \in Int
                /\ lo2[x] = lo[x] \/ lo2[x] = lo[x] + 1
                /\ hi2[x] = hi[x] \/ hi2[x] = hi[x] + 1
            <6>1. lo[x] \in Int /\ hi[x] \in Int BY <5>1, <1>13
            <6>2. lo2[x] = lo[x] \/ lo2[x] = lo[x] + 1
              <7>1. lo[x] > k \/ lo[x] <= k BY <6>1
              <7> QED BY <7>1, <5>1, <1>13
            <6>3. hi2[x] = hi[x] \/ hi2[x] = hi[x] + 1
              <7>1. x = W[k] \/ hi[x] < k \/ (x # W[k] /\ hi[x] >= k) BY <6>1
              <7> QED BY <7>1, <5>1, <1>13
            <6> QED BY <6>1, <6>2, <6>3
          <5> DEFINE a == lo[x]
                     b == hi[x]
                     la == lo[p]
                     hb == hi[p]
                     a2 == lo2[x]
                     b2 == hi2[x]
          <5>3. a \in Int /\ b \in Int /\ la \in Int /\ hb \in Int /\ la <= a /\ b <= hb
            BY <4>0, <5>1, <5>2
          <5>4. (a2 = a \/ a2 = a + 1) /\ (b2 = b \/ b2 = b + 1) BY <5>2
          <5>5. lo2[p] = la /\ hi2[p] = hb + 1 BY <3>5
          <5> HIDE DEF a, b, la, hb, a2, b2
          <5>6. la <= a2 /\ b2 <= hb + 1 BY <5>3, <5>4
          <5>7. lo2[p] <= lo2[x] /\ hi2[x] <= hi2[p] BY <5>5, <5>6 DEF a2, b2
          <5> QED BY <5>7, <4>2 DEF x
        <4>3. CASE i < q + 1
          <5>1. i \in 1 .. m /\ i \in 1 .. q BY <4>3, <3>1
          <5> QED BY <5>1, <4>2, <3>6
        <4>4. CASE i > q + 1
          <5>1. i - 1 \in 1 .. m /\ i - 1 \in q + 1 .. m /\ (i - 1) + 1 = i BY <4>4, <3>1
          <5>2. D[p][(i - 1) + 1] = C[p][i - 1] BY <5>1, <3>6
          <5> QED BY <5>1, <5>2, <4>2
        <4>5. i \in Int /\ q \in Int BY <3>1
        <4> QED BY <4>1, <4>3, <4>4, <4>5
      <3>12. ASSUME NEW i \in 1 .. m
             PROVE lo2[D[p][i + 1]] = hi2[D[p][i]] + 1
        <4>1. CASE i = q BY <4>1, <3>8, <1>12
        <4>2. CASE i < q
          <5>1. i \in 1 .. m - 1 /\ i + 1 \in 1 .. m /\ i \in 1 .. q /\ i + 1 \in 1 .. q
            BY <4>2, <3>1
          <5>2. D[p][i] = C[p][i] /\ D[p][i + 1] = C[p][i + 1] BY <5>1, <3>6
          <5>3. lo[C[p][i + 1]] = hi[C[p][i]] + 1 BY <5>1, <3>3
          <5>4. C[p][i] \in Items(C, W) /\ C[p][i + 1] \in Items(C, W) /\ C[p][i] # W[k]
            BY <5>1, <4>2, <3>2
          <5>5. lo2[C[p][i + 1]] = hi2[C[p][i]] + 1 BY <5>3, <5>4, <1>17
          <5> QED BY <5>2, <5>5
        <4>3. CASE i = q + 1
          <5>1. q \in 1 .. m - 1 /\ i \in 1 .. m /\ i \in q + 1 .. m
            BY <4>3, <3>1
          <5>2. D[p][i + 1] = C[p][q + 1] BY <4>3, <5>1, <3>6
          <5>3. lo[C[p][q + 1]] = hi[C[p][q]] + 1 BY <5>1, <3>3
          <5>4. lo[C[p][q + 1]] = k + 1 BY <5>3, <1>6
          <5>5. C[p][q + 1] \in Items(C, W) BY <4>3, <5>1, <3>2
          <5>6. lo2[C[p][q + 1]] = (k + 1) + 1 BY <5>4, <5>5, <1>13
          <5> QED BY <4>3, <5>2, <5>6, <3>8, <1>12
        <4>4. CASE i > q + 1
          <5>1. i - 1 \in 1 .. m - 1 /\ i - 1 \in 1 .. m /\ i \in 1 .. m /\ i - 1 \in q + 1 .. m
                /\ i \in q + 1 .. m /\ (i - 1) + 1 = i /\ i - 1 # q
            BY <4>4, <3>1
          <5>2. D[p][(i - 1) + 1] = C[p][i - 1] /\ D[p][i + 1] = C[p][i] BY <5>1, <3>6
          <5>3. lo[C[p][(i - 1) + 1]] = hi[C[p][i - 1]] + 1 BY <5>1, <3>3
          <5>4. C[p][i - 1] \in Items(C, W) /\ C[p][i] \in Items(C, W) /\ C[p][i - 1] # W[k]
            BY <5>1, <3>2
          <5>5. lo2[C[p][i]] = hi2[C[p][i - 1]] + 1 BY <5>1, <5>3, <5>4, <1>17
          <5> QED BY <5>1, <5>2, <5>5
        <4>5. i \in Int /\ q \in Int BY <3>1
        <4> QED BY <4>1, <4>2, <4>3, <4>4, <4>5
      <3> QED BY <3>1, <3>7, <3>9, <3>10, <3>11, <3>12
    <2>5. \A n \in DOMAIN D :
            /\ lo2[n] = lo2[D[n][1]]
            /\ hi2[n] = hi2[D[n][Len(D[n])]]
            /\ \A i \in 1 .. Len(D[n]) : lo2[n] <= lo2[D[n][i]] /\ hi2[D[n][i]] <= hi2[n]
            /\ \A i \in 1 .. Len(D[n]) - 1 : lo2[D[n][i + 1]] = hi2[D[n][i]] + 1
      BY <2>3, <2>4
    <2> QED BY <2>1, <2>2, <2>5 DEF Spans
  <1>15. lo2[r] = 1 /\ hi2[r] = Len(V)
    <2>1. r \in Items(C, W) BY <1>0 DEF Shape
    <2>2. lo[r] <= k /\ hi[r] >= k /\ r # W[k] BY <1>0, <1>1, <1>6
    <2>3. lo2[r] = lo[r] /\ hi2[r] = hi[r] + 1 BY <2>1, <2>2, <1>13
    <2> QED BY <2>3, <1>0, <1>1, <1>2
  <1>16. Tree(D, r, V, lo2, hi2) BY <1>11, <1>14, <1>15 DEF Tree
  <1> QED BY <1>16 DEF V


\* No window is in the list twice.
LEMMA WindowsInjective ==
  ASSUME NEW C, NEW r, NEW W, NEW lo, NEW hi, Tree(C, r, W, lo, hi)
  PROVE IsInjective(W)
  <1>1. Shape(C, r, W) /\ Spans(C, W, lo, hi) BY DEF Tree
  <1>2. DOMAIN W = 1 .. Len(W) BY <1>1 DEF Shape
  <1>3. \A i \in 1 .. Len(W) : lo[W[i]] = i BY <1>1 DEF Spans
  <1> QED BY <1>2, <1>3 DEF IsInjective

LEMMA ChildrenInjective ==
  ASSUME NEW C, NEW r, NEW W, Shape(C, r, W), NEW p \in DOMAIN C
  PROVE /\ IsInjective(C[p])
        /\ C[p] \in Seq(Items(C, W))
        /\ DOMAIN C[p] = 1 .. Len(C[p])
        /\ Len(C[p]) \in Nat \ {0}
  <1>1. C[p] \in Seq(Items(C, W)) /\ Len(C[p]) >= 1 BY DEF Shape
  <1>2. DOMAIN C[p] = 1 .. Len(C[p]) /\ Len(C[p]) \in Nat \ {0} BY <1>1
  <1>3. \A i \in 1 .. Len(C[p]), j \in 1 .. Len(C[p]) : C[p][i] = C[p][j] => i = j BY DEF Shape
  <1> QED BY <1>1, <1>2, <1>3 DEF IsInjective

\* Window W[k] taken out of its container and of the list.
LEMMA TreeRemove ==
  ASSUME NEW C, NEW r, NEW W, NEW lo, NEW hi, Tree(C, r, W, lo, hi), Branching(C),
         NEW p \in DOMAIN C, NEW q \in 1 .. Len(C[p]), NEW k \in 1 .. Len(W), C[p][q] = W[k],
         NEW D, DOMAIN D = DOMAIN C, D[p] = RemoveAt(C[p], q),
         \A n \in DOMAIN C \ {p} : D[n] = C[n]
  PROVE \E lo2, hi2 : Tree(D, r, RemoveAt(W, k), lo2, hi2)
  <1> DEFINE V == RemoveAt(W, k)
             w == W[k]
             m == Len(C[p])
             X == Items(C, W) \ {w}
             lo2 == [x \in X |-> IF lo[x] > k THEN lo[x] - 1 ELSE lo[x]]
             hi2 == [x \in X |-> IF hi[x] >= k THEN hi[x] - 1 ELSE hi[x]]
  <1>0. Shape(C, r, W) /\ Spans(C, W, lo, hi) /\ lo[r] = 1 /\ hi[r] = Len(W) BY DEF Tree
  <1>1. W \in Seq(Nat \ {0}) /\ Len(W) \in Nat BY <1>0 DEF Shape
  <1>2. /\ V \in Seq(Nat \ {0})
        /\ Len(V) = Len(W) - 1
        /\ \A j \in 1 .. k - 1 : V[j] = W[j]
        /\ \A j \in k .. Len(W) - 1 : V[j] = W[j + 1]
        /\ ToSet(V) = ToSet(W) \ {w}
    <2>1. IsInjective(W) BY WindowsInjective
    <2> DEFINE S == Nat \ {0}
    <2>2. W \in Seq(S) /\ k \in 1 .. Len(W) BY <1>1
    <2> HIDE DEF S
    <2>3. Removed(S, W, k) BY <2>1, <2>2, RemoveAtRemoves
    <2> QED BY <2>3 DEF Removed, S
  <1>3. /\ m \in Nat /\ m >= 2
        /\ D[p] \in Seq(Items(C, W))
        /\ Len(D[p]) = m - 1
        /\ \A j \in 1 .. q - 1 : D[p][j] = C[p][j]
        /\ \A j \in q .. m - 1 : D[p][j] = C[p][j + 1]
    <2>1. C[p] \in Seq(Items(C, W)) /\ IsInjective(C[p]) /\ m \in Nat BY <1>0, ChildrenInjective
    <2> DEFINE c == C[p]
    <2>2. c \in Seq(Items(C, W)) /\ IsInjective(c) /\ q \in 1 .. Len(c) /\ D[p] = RemoveAt(c, q)
      BY <2>1
    <2> HIDE DEF c
    <2>3. Removed(Items(C, W), c, q) BY <2>2, RemoveAtRemoves
    <2>4. m >= 2 BY DEF Branching
    <2> QED BY <2>1, <2>2, <2>3, <2>4 DEF c, Removed
  <1>4. w \in Items(C, W) /\ w \notin DOMAIN C /\ w # r /\ lo[w] = k /\ hi[w] = k
    <2>1. W[k] \in ToSet(W) BY <1>1 DEF ToSet
    <2>2. W[k] > 0 BY <1>1
    <2> QED BY <1>0, <2>1, <2>2 DEF Shape, Spans, Items
  <1> HIDE DEF V
  <1>5. Items(D, V) = X BY <1>2, <1>4 DEF Items
  <1>6. ASSUME NEW x \in X
        PROVE /\ lo[x] \in Int /\ hi[x] \in Int
              /\ 1 <= lo[x] /\ lo[x] <= hi[x] /\ hi[x] <= Len(W)
              /\ lo[x] > k => lo2[x] = lo[x] - 1
              /\ lo[x] <= k => lo2[x] = lo[x]
              /\ hi[x] >= k => hi2[x] = hi[x] - 1
              /\ hi[x] < k => hi2[x] = hi[x]
    <2>1. lo2[x] = (IF lo[x] > k THEN lo[x] - 1 ELSE lo[x])
          /\ hi2[x] = (IF hi[x] >= k THEN hi[x] - 1 ELSE hi[x])
      OBVIOUS
    <2>2. /\ lo[x] \in Int /\ hi[x] \in Int
          /\ 1 <= lo[x] /\ lo[x] <= hi[x] /\ hi[x] <= Len(W)
      BY <1>0 DEF Spans
    <2> HIDE DEF lo2, hi2
    <2> QED BY <2>1, <2>2
  <1>7. \A n \in DOMAIN C : Len(C[n]) \in Nat /\ Len(C[n]) >= 2
        /\ \A i \in 1 .. Len(C[n]) : C[n][i] \in Items(C, W)
    BY <1>0, ChildIsItem DEF Branching
  <1>8. ASSUME NEW n \in DOMAIN C, NEW i \in 1 .. Len(C[n]), C[n][i] = w PROVE n = p /\ i = q
    BY <1>0, <1>8 DEF Shape
  <1>9. ASSUME NEW n \in DOMAIN D, NEW i \in 1 .. Len(D[n])
        PROVE \E j \in 1 .. Len(C[n]) : /\ D[n][i] = C[n][j]
                                        /\ ~ (n = p /\ j = q)
                                        /\ (n # p \/ i < q) => j = i
                                        /\ (n = p /\ i >= q) => j = i + 1
    <2>1. CASE n # p BY <2>1
    <2>2. CASE n = p /\ i < q
      <3>1. i \in 1 .. q - 1 /\ i \in 1 .. Len(C[p]) /\ i # q /\ ~ (i >= q) BY <1>3, <2>2
      <3> QED BY <1>3, <2>2, <3>1
    <2>3. CASE n = p /\ i >= q
      <3>1. i \in q .. m - 1 /\ i + 1 \in 1 .. Len(C[p]) /\ i + 1 # q /\ ~ (i < q) BY <1>3, <2>3
      <3> QED BY <1>3, <2>3, <3>1
    <2>4. n = p => i \in Int /\ q \in Int BY <1>3
    <2> QED BY <2>1, <2>2, <2>3, <2>4
  <1>10. ASSUME NEW n \in DOMAIN C, NEW j \in 1 .. Len(C[n]), ~ (n = p /\ j = q)
         PROVE \E i \in 1 .. Len(D[n]) : D[n][i] = C[n][j]
    <2>1. CASE n # p BY <2>1
    <2>2. CASE n = p /\ j < q
      <3>1. j \in 1 .. q - 1 /\ j \in 1 .. m - 1 BY <1>3, <2>2
      <3> QED BY <1>3, <2>2, <3>1
    <2>3. CASE n = p /\ j > q
      <3>1. j - 1 \in q .. m - 1 /\ j - 1 \in 1 .. m - 1 /\ (j - 1) + 1 = j BY <1>3, <2>3
      <3>2. D[p][j - 1] = C[p][(j - 1) + 1] BY <1>3, <3>1
      <3> QED BY <1>3, <2>3, <3>1, <3>2
    <2>4. n = p => j \in Int /\ q \in Int BY <1>3
    <2> QED BY <1>10, <2>1, <2>2, <2>3, <2>4
  <1> HIDE DEF lo2, hi2
  <1>11. ASSUME NEW n \in DOMAIN D PROVE D[n] \in Seq(X) /\ Len(D[n]) \in Nat /\ Len(D[n]) >= 1
    <2>1. D[n] \in Seq(Items(C, W)) BY <1>0, <1>3 DEF Shape
    <2>2. ASSUME NEW i \in 1 .. Len(D[n]) PROVE D[n][i] \in X
      <3>1. PICK j \in 1 .. Len(C[n]) : D[n][i] = C[n][j] /\ ~ (n = p /\ j = q) BY <1>9
      <3>2. C[n][j] \in Items(C, W) BY <1>7
      <3>3. C[n][j] # w BY <1>8, <3>1
      <3> QED BY <3>1, <3>2, <3>3
    <2>3. Len(D[n]) \in Nat /\ DOMAIN D[n] = 1 .. Len(D[n]) BY <2>1
    <2>4. Len(D[n]) >= 1
      <3>1. CASE n = p BY <1>3, <3>1
      <3>2. CASE n # p
        <4>1. Len(D[n]) = Len(C[n]) /\ Len(C[n]) >= 2 BY <1>7, <3>2
        <4> QED BY <4>1, <2>3
      <3> QED BY <3>1, <3>2
    <2>5. D[n] \in Seq(X) BY <2>1, <2>2, <2>3, SeqDef
    <2> QED BY <2>3, <2>4, <2>5
  <1>12. Shape(D, r, V)
    <2>1. V \in Seq(Nat \ {0}) /\ DOMAIN D \subseteq {n \in Int : n < 0} BY <1>0, <1>2 DEF Shape
    <2>2. \A n \in DOMAIN D : D[n] \in Seq(Items(D, V)) /\ Len(D[n]) >= 1 BY <1>5, <1>11
    <2>3. r \in Items(D, V) BY <1>0, <1>4, <1>5 DEF Shape
    <2>4. ASSUME NEW n \in DOMAIN D, NEW i \in 1 .. Len(D[n]) PROVE D[n][i] # r
      <3>1. PICK j \in 1 .. Len(C[n]) : D[n][i] = C[n][j] BY <1>9
      <3> QED BY <1>0, <3>1 DEF Shape
    <2>5. ASSUME NEW a \in DOMAIN D, NEW b \in DOMAIN D,
                 NEW i \in 1 .. Len(D[a]), NEW j \in 1 .. Len(D[b]), D[a][i] = D[b][j]
          PROVE a = b /\ i = j
      <3> DEFINE Shifts(n, x, y) == /\ (n # p \/ x < q) => y = x
                                    /\ (n = p /\ x >= q) => y = x + 1
      <3> HIDE DEF Shifts
      <3>1. PICK i1 \in 1 .. Len(C[a]) : D[a][i] = C[a][i1] /\ Shifts(a, i, i1)
        BY <1>9 DEF Shifts
      <3>2. PICK j1 \in 1 .. Len(C[b]) : D[b][j] = C[b][j1] /\ Shifts(b, j, j1)
        BY <1>9 DEF Shifts
      <3>3. C[a][i1] = C[b][j1] BY <2>5, <3>1, <3>2
      <3>4. \A a1 \in DOMAIN C, b1 \in DOMAIN C :
               \A i2 \in 1 .. Len(C[a1]), j2 \in 1 .. Len(C[b1]) :
                  C[a1][i2] = C[b1][j2] => a1 = b1 /\ i2 = j2
        BY <1>0 DEF Shape
      <3>5. a = b /\ i1 = j1 BY <3>3, <3>4, <2>5
      <3>6. i \in Int /\ j \in Int /\ q \in Int BY <1>3, <1>11
      <3>7. Shifts(a, i, i1) /\ Shifts(a, j, i1) BY <3>1, <3>2, <3>5
      <3> QED BY <3>5, <3>6, <3>7 DEF Shifts
    <2>6. ASSUME NEW x \in Items(D, V) \ {r}
          PROVE \E n \in DOMAIN D : \E i \in 1 .. Len(D[n]) : D[n][i] = x
      <3>1. x \in Items(C, W) \ {r} /\ x # w BY <1>5, <2>6
      <3>2. PICK n \in DOMAIN C : \E j \in 1 .. Len(C[n]) : C[n][j] = x BY <1>0, <3>1 DEF Shape
      <3>3. PICK j \in 1 .. Len(C[n]) : C[n][j] = x BY <3>2
      <3>4. ~ (n = p /\ j = q) BY <3>1, <3>3
      <3> QED BY <1>10, <3>3, <3>4
    <2> QED BY <2>1, <2>2, <2>3, <2>4, <2>5, <2>6 DEF Shape
  <1>13. ASSUME NEW x \in X, NEW y \in X, lo[y] = hi[x] + 1 PROVE lo2[y] = hi2[x] + 1
    <2>1. lo[y] \in Int /\ hi[x] \in Int BY <1>6
    <2>2. CASE hi[x] < k
      <3>1. lo[y] <= k BY <2>1, <2>2, <1>13
      <3>2. lo2[y] = lo[y] /\ hi2[x] = hi[x] BY <2>2, <3>1, <1>6
      <3> QED BY <3>2, <1>13
    <2>3. CASE hi[x] >= k
      <3>1. lo[y] > k BY <2>1, <2>3, <1>13
      <3>2. lo2[y] = lo[y] - 1 /\ hi2[x] = hi[x] - 1 BY <2>3, <3>1, <1>6
      <3> QED BY <3>2, <1>13, <2>1
    <2> QED BY <2>1, <2>2, <2>3
  <1>14. ASSUME NEW x \in X, NEW y \in X, lo[y] <= lo[x] PROVE lo2[y] <= lo2[x]
    <2>1. lo[y] \in Int /\ lo[x] \in Int BY <1>6
    <2>2. CASE lo[x] <= k
      <3>1. lo[y] <= k BY <2>1, <2>2, <1>14
      <3>2. lo2[y] = lo[y] /\ lo2[x] = lo[x] BY <2>2, <3>1, <1>6
      <3> QED BY <3>2, <1>14
    <2>3. CASE lo[x] > k
      <3>1. lo2[x] = lo[x] - 1 BY <2>3, <1>6
      <3>2. CASE lo[y] <= k
        <4>1. lo2[y] = lo[y] BY <3>2, <1>6
        <4> QED BY <4>1, <3>1, <3>2, <2>1, <2>3
      <3>3. CASE lo[y] > k
        <4>1. lo2[y] = lo[y] - 1 BY <3>3, <1>6
        <4> QED BY <4>1, <3>1, <2>1, <1>14
      <3> QED BY <3>2, <3>3, <2>1
    <2> QED BY <2>1, <2>2, <2>3
  <1>15. ASSUME NEW x \in X, NEW y \in X, hi[x] <= hi[y] PROVE hi2[x] <= hi2[y]
    <2>1. hi[y] \in Int /\ hi[x] \in Int BY <1>6
    <2>2. CASE hi[y] < k
      <3>1. hi[x] < k BY <2>1, <2>2, <1>15
      <3>2. hi2[y] = hi[y] /\ hi2[x] = hi[x] BY <2>2, <3>1, <1>6
      <3> QED BY <3>2, <1>15
    <2>3. CASE hi[y] >= k
      <3>1. hi2[y] = hi[y] - 1 BY <2>3, <1>6
      <3>2. CASE hi[x] < k
        <4>1. hi2[x] = hi[x] BY <3>2, <1>6
        <4> QED BY <4>1, <3>1, <3>2, <2>1, <2>3
      <3>3. CASE hi[x] >= k
        <4>1. hi2[x] = hi[x] - 1 BY <3>3, <1>6
        <4> QED BY <4>1, <3>1, <2>1, <1>15
      <3> QED BY <3>2, <3>3, <2>1
    <2> QED BY <2>1, <2>2, <2>3
  <1>16. Spans(D, V, lo2, hi2)
    <2>1. ASSUME NEW j \in 1 .. Len(V) PROVE lo2[V[j]] = j /\ hi2[V[j]] = j
      <3>1. CASE j < k
        <4>0. j \in Int /\ 1 <= j /\ k \in Int /\ k <= Len(W) BY <1>1, <1>2
        <4>1. j \in 1 .. Len(W) /\ j \in 1 .. k - 1 BY <4>0, <3>1, <1>1
        <4>2. V[j] = W[j] BY <4>1, <1>2
        <4>3. lo[W[j]] = j /\ hi[W[j]] = j BY <1>0, <4>1 DEF Spans
        <4>4. W[j] \in X
          <5>1. W[j] \in Items(C, W) BY <1>1, <4>1 DEF Items, ToSet
          <5> QED BY <5>1, <4>3, <1>4, <3>1
        <4> QED BY <4>2, <4>3, <4>4, <3>1, <1>6
      <3>2. CASE j >= k
        <4>1. j + 1 \in 1 .. Len(W) /\ j \in k .. Len(W) - 1 BY <3>2, <1>1, <1>2
        <4>2. V[j] = W[j + 1] BY <4>1, <1>2
        <4>3. lo[W[j + 1]] = j + 1 /\ hi[W[j + 1]] = j + 1 BY <1>0, <4>1 DEF Spans
        <4>4. W[j + 1] \in X
          <5>1. W[j + 1] \in Items(C, W) BY <1>1, <4>1 DEF Items, ToSet
          <5> QED BY <5>1, <4>3, <1>4, <3>2
        <4>5. lo[W[j + 1]] > k /\ hi[W[j + 1]] >= k BY <4>1, <4>3, <3>2
        <4>6. lo2[W[j + 1]] = (j + 1) - 1 /\ hi2[W[j + 1]] = (j + 1) - 1
          BY <4>3, <4>4, <4>5, <1>6
        <4> QED BY <4>2, <4>6
      <3>3. j \in Int BY <1>1, <1>2
      <3> QED BY <3>1, <3>2, <3>3
    <2>2. ASSUME NEW x \in Items(D, V)
          PROVE /\ lo2[x] \in Int /\ hi2[x] \in Int
                /\ 1 <= lo2[x] /\ lo2[x] <= hi2[x] /\ hi2[x] <= Len(V)
      <3>0. x \in X /\ Len(V) = Len(W) - 1 /\ Len(W) \in Nat BY <1>1, <1>2, <1>5
      <3>1. /\ lo[x] \in Int /\ hi[x] \in Int
            /\ 1 <= lo[x] /\ lo[x] <= hi[x] /\ hi[x] <= Len(W)
            /\ lo[x] > k => lo2[x] = lo[x] - 1
            /\ lo[x] <= k => lo2[x] = lo[x]
            /\ hi[x] >= k => hi2[x] = hi[x] - 1
            /\ hi[x] < k => hi2[x] = hi[x]
        BY <3>0, <1>6
      <3>2. lo[x] < hi[x] \/ (lo[x] = hi[x] /\ lo[x] # k)
        <4>1. CASE x \in DOMAIN C
          <5>1. 1 \in 1 .. Len(C[x]) /\ Len(C[x]) >= 2 BY <4>1, <1>7
          <5>2. hi[C[x][1]] - lo[C[x][1]] < hi[x] - lo[x] BY <4>1, <5>1, ChildSpanSmaller
          <5>3. C[x][1] \in Items(C, W) BY <4>1, <5>1, <1>7
          <5>4. lo[C[x][1]] \in Int /\ hi[C[x][1]] \in Int /\ lo[C[x][1]] <= hi[C[x][1]]
            BY <5>3, <1>0 DEF Spans
          <5> QED BY <5>2, <5>4, <3>1
        <4>2. CASE x \in ToSet(W)
          <5>1. PICK j \in 1 .. Len(W) : x = W[j] BY <4>2, <1>1 DEF ToSet
          <5>2. lo[x] = j /\ hi[x] = j BY <5>1, <1>0 DEF Spans
          <5>3. j # k BY <5>1, <3>0
          <5> QED BY <5>2, <5>3
        <4> QED BY <3>0, <4>1, <4>2 DEF Items
      <3>3. k \in Int /\ k >= 1 /\ k <= Len(W) BY <1>1
      <3>4. CASE lo[x] > k
        <4>1. lo2[x] = lo[x] - 1 /\ hi2[x] = hi[x] - 1 BY <3>1, <3>3, <3>4
        <4> QED BY <4>1, <3>0, <3>1, <3>3, <3>4
      <3>5. CASE lo[x] <= k /\ hi[x] >= k
        <4>1. lo2[x] = lo[x] /\ hi2[x] = hi[x] - 1 BY <3>1, <3>5
        <4>2. lo[x] < hi[x] BY <3>1, <3>2, <3>3, <3>5
        <4> QED BY <4>1, <4>2, <3>0, <3>1
      <3>6. CASE lo[x] <= k /\ hi[x] < k
        <4>1. lo2[x] = lo[x] /\ hi2[x] = hi[x] BY <3>1, <3>6
        <4> QED BY <4>1, <3>0, <3>1, <3>3, <3>6
      <3> QED BY <3>1, <3>3, <3>4, <3>5, <3>6
    <2>3. ASSUME NEW n \in DOMAIN D, n # p
          PROVE /\ lo2[n] = lo2[D[n][1]]
                /\ hi2[n] = hi2[D[n][Len(D[n])]]
                /\ \A i \in 1 .. Len(D[n]) : lo2[n] <= lo2[D[n][i]] /\ hi2[D[n][i]] <= hi2[n]
                /\ \A i \in 1 .. Len(D[n]) - 1 : lo2[D[n][i + 1]] = hi2[D[n][i]] + 1
      <3>1. D[n] = C[n] /\ n \in DOMAIN C /\ n \in X BY <2>3, <1>4 DEF Items
      <3>2. \A i \in 1 .. Len(C[n]) : C[n][i] \in X BY <3>1, <1>7, <1>8, <2>3
      <3>3. /\ lo[n] = lo[C[n][1]]
            /\ hi[n] = hi[C[n][Len(C[n])]]
            /\ \A i \in 1 .. Len(C[n]) : lo[n] <= lo[C[n][i]] /\ hi[C[n][i]] <= hi[n]
            /\ \A i \in 1 .. Len(C[n]) - 1 : lo[C[n][i + 1]] = hi[C[n][i]] + 1
        BY <1>0 DEF Spans
      <3>4. /\ 1 \in 1 .. Len(C[n]) /\ Len(C[n]) \in 1 .. Len(C[n])
            /\ \A i \in 1 .. Len(C[n]) - 1 : i \in 1 .. Len(C[n]) /\ i + 1 \in 1 .. Len(C[n])
        BY <3>1, <1>7
      <3>5. lo2[n] = lo2[C[n][1]]
        <4>1. C[n][1] \in X BY <3>2, <3>4
        <4> QED BY <4>1, <3>1, <3>3, <1>6
      <3>6. hi2[n] = hi2[C[n][Len(C[n])]]
        <4>1. C[n][Len(C[n])] \in X BY <3>2, <3>4
        <4> QED BY <4>1, <3>1, <3>3, <1>6
      <3>7. \A i \in 1 .. Len(C[n]) : lo2[n] <= lo2[C[n][i]] /\ hi2[C[n][i]] <= hi2[n]
        BY <3>1, <3>2, <3>3, <1>14, <1>15
      <3>8. \A i \in 1 .. Len(C[n]) - 1 : lo2[C[n][i + 1]] = hi2[C[n][i]] + 1
        BY <3>2, <3>3, <3>4, <1>13
      <3> QED BY <3>1, <3>5, <3>6, <3>7, <3>8
    <2>4. /\ lo2[p] = lo2[D[p][1]]
          /\ hi2[p] = hi2[D[p][Len(D[p])]]
          /\ \A i \in 1 .. Len(D[p]) : lo2[p] <= lo2[D[p][i]] /\ hi2[D[p][i]] <= hi2[p]
          /\ \A i \in 1 .. Len(D[p]) - 1 : lo2[D[p][i + 1]] = hi2[D[p][i]] + 1
      <3>1. p \in X /\ m \in Nat /\ m >= 2 /\ q \in Int /\ q >= 1 /\ q <= m /\ k \in Int
        BY <1>3, <1>4 DEF Items
      <3>2. \A i \in 1 .. m : i # q => C[p][i] \in X BY <1>7, <1>8
      <3>3. /\ lo[p] = lo[C[p][1]] /\ hi[p] = hi[C[p][m]]
            /\ \A i \in 1 .. m : lo[p] <= lo[C[p][i]] /\ hi[C[p][i]] <= hi[p]
            /\ \A i \in 1 .. m - 1 : lo[C[p][i + 1]] = hi[C[p][i]] + 1
        BY <1>0 DEF Spans
      <3>4. lo[C[p][q]] = k /\ hi[C[p][q]] = k BY <1>4
      <3> HIDE DEF X, w
      <3>5. lo2[p] = lo2[D[p][1]]
        <4>1. CASE q = 1
          <5>1. 1 \in q .. m - 1 /\ 1 + 1 = 2 /\ 2 \in 1 .. m /\ 1 \in 1 .. m - 1 /\ 2 # q
            BY <3>1, <4>1
          <5>2. D[p][1] = C[p][1 + 1] BY <5>1, <1>3
          <5>3. lo[C[p][1 + 1]] = hi[C[p][1]] + 1 BY <5>1, <3>3
          <5>4. lo[C[p][2]] = k + 1 /\ lo[p] = k BY <5>1, <5>3, <3>3, <3>4, <4>1
          <5>5. C[p][2] \in X BY <5>1, <3>2
          <5>6. lo2[C[p][2]] = (k + 1) - 1 /\ lo2[p] = k
            <6>1. lo[C[p][2]] > k /\ lo[p] <= k BY <5>4, <3>1
            <6> QED BY <6>1, <5>4, <5>5, <3>1, <1>6
          <5> QED BY <5>1, <5>2, <5>6, <3>1
        <4>2. CASE q # 1
          <5>1. 1 \in 1 .. q - 1 /\ 1 \in 1 .. m /\ 1 # q BY <3>1, <4>2
          <5>2. D[p][1] = C[p][1] BY <5>1, <1>3
          <5>3. C[p][1] \in X BY <5>1, <3>2
          <5> QED BY <5>2, <5>3, <3>1, <3>3, <1>6
        <4> QED BY <4>1, <4>2
      <3>6. hi2[p] = hi2[D[p][Len(D[p])]]
        <4>0. Len(D[p]) = m - 1 BY <1>3
        <4>1. CASE q = m
          <5>1. m - 1 \in 1 .. q - 1 /\ m - 1 \in 1 .. m - 1 /\ m - 1 \in 1 .. m /\ (m - 1) + 1 = m
                /\ m - 1 # q
            BY <3>1, <4>1
          <5>2. D[p][m - 1] = C[p][m - 1] BY <5>1, <1>3
          <5>3. lo[C[p][(m - 1) + 1]] = hi[C[p][m - 1]] + 1 BY <5>1, <3>3
          <5>4. C[p][m - 1] \in X BY <5>1, <3>2
          <5>5. k = hi[C[p][m - 1]] + 1 /\ hi[p] = k BY <5>1, <5>3, <3>3, <3>4, <4>1
          <5>6. hi[C[p][m - 1]] \in Int BY <5>4, <1>6
          <5>7. hi2[C[p][m - 1]] = hi[C[p][m - 1]] /\ hi2[p] = k - 1
            <6>1. hi[C[p][m - 1]] < k /\ hi[p] >= k BY <5>5, <5>6
            <6> QED BY <6>1, <5>4, <5>5, <3>1, <1>6
          <5> QED BY <4>0, <5>2, <5>5, <5>6, <5>7
        <4>2. CASE q # m
          <5>1. m - 1 \in q .. m - 1 /\ m \in 1 .. m /\ (m - 1) + 1 = m BY <3>1, <4>2
          <5>2. D[p][m - 1] = C[p][(m - 1) + 1] BY <5>1, <1>3
          <5>3. C[p][m] \in X BY <5>1, <3>2, <4>2
          <5> QED BY <4>0, <5>1, <5>2, <5>3, <3>1, <3>3, <1>6
        <4> QED BY <4>1, <4>2
      <3>7. ASSUME NEW i \in 1 .. Len(D[p])
            PROVE lo2[p] <= lo2[D[p][i]] /\ hi2[D[p][i]] <= hi2[p]
        <4>1. PICK j \in 1 .. Len(C[p]) : D[p][i] = C[p][j] /\ j # q BY <1>9
        <4>2. C[p][j] \in X /\ lo[p] <= lo[C[p][j]] /\ hi[C[p][j]] <= hi[p] BY <4>1, <3>2, <3>3
        <4> QED BY <4>1, <4>2, <3>1, <1>14, <1>15
      <3>8. ASSUME NEW i \in 1 .. m - 2
            PROVE lo2[D[p][i + 1]] = hi2[D[p][i]] + 1
        <4>1. CASE i < q - 1
          <5>1. i \in 1 .. q - 1 /\ i + 1 \in 1 .. q - 1 /\ i \in 1 .. m - 1 /\ i \in 1 .. m
                /\ i + 1 \in 1 .. m /\ i # q /\ i + 1 # q
            BY <4>1, <3>1
          <5>2. D[p][i] = C[p][i] /\ D[p][i + 1] = C[p][i + 1] BY <5>1, <1>3
          <5>3. lo[C[p][i + 1]] = hi[C[p][i]] + 1 BY <5>1, <3>3
          <5>4. C[p][i] \in X /\ C[p][i + 1] \in X BY <5>1, <3>2
          <5> QED BY <5>2, <5>3, <5>4, <1>13
        <4>2. CASE i = q - 1
          <5>1. i \in 1 .. q - 1 /\ i + 1 = q /\ q \in q .. m - 1 /\ i \in 1 .. m - 1 /\ q \in 1 .. m - 1
                /\ i \in 1 .. m /\ q + 1 \in 1 .. m /\ i # q /\ q + 1 # q
            BY <4>2, <3>1
          <5>2. D[p][i] = C[p][i] /\ D[p][q] = C[p][q + 1] BY <5>1, <1>3
          <5>3. lo[C[p][i + 1]] = hi[C[p][i]] + 1 /\ lo[C[p][q + 1]] = hi[C[p][q]] + 1
            BY <5>1, <3>3
          <5>4. C[p][i] \in X /\ C[p][q + 1] \in X BY <5>1, <3>2
          <5>5. k = hi[C[p][i]] + 1 /\ lo[C[p][q + 1]] = k + 1 BY <5>1, <5>3, <3>4
          <5>6. hi[C[p][i]] \in Int BY <5>4, <1>6
          <5> DEFINE x == C[p][i]
                     y == C[p][q + 1]
                     h == hi[x]
          <5>7. k = h + 1 /\ h \in Int /\ lo[y] = k + 1 /\ x \in X /\ y \in X BY <5>4, <5>5, <5>6
          <5>8. D[p][i] = x /\ D[p][i + 1] = y BY <5>1, <5>2
          <5> HIDE DEF x, y
          <5>9. hi2[x] = h /\ lo2[y] = lo[y] - 1
            <6>1. lo[y] > k /\ hi[x] < k BY <5>7
            <6> QED BY <5>7, <6>1, <1>6
          <5> HIDE DEF h
          <5>10. lo2[y] = hi2[x] + 1 BY <5>7, <5>9
          <5> QED BY <5>8, <5>10
        <4>3. CASE i > q - 1
          <5>1. i \in q .. m - 1 /\ i + 1 \in q .. m - 1 /\ i + 1 \in 1 .. m - 1
                /\ i + 1 \in 1 .. m /\ (i + 1) + 1 \in 1 .. m /\ i + 1 # q /\ (i + 1) + 1 # q
            BY <4>3, <3>1
          <5>2. D[p][i] = C[p][i + 1] /\ D[p][i + 1] = C[p][(i + 1) + 1] BY <5>1, <1>3
          <5>3. lo[C[p][(i + 1) + 1]] = hi[C[p][i + 1]] + 1 BY <5>1, <3>3
          <5>4. C[p][i + 1] \in X /\ C[p][(i + 1) + 1] \in X BY <5>1, <3>2
          <5> QED BY <5>2, <5>3, <5>4, <1>13
        <4>4. i \in Int /\ q - 1 \in Int BY <3>1
        <4> QED BY <4>1, <4>2, <4>3, <4>4
      <3>9. Len(D[p]) - 1 = m - 2 BY <1>3
      <3> QED BY <3>5, <3>6, <3>7, <3>8, <3>9
    <2> QED BY <2>1, <2>2, <2>3, <2>4 DEF Spans
  <1>17. lo2[r] = 1 /\ hi2[r] = Len(V)
    <2>1. r \in X BY <1>0, <1>4 DEF Shape
    <2>2. lo[r] <= k /\ hi[r] >= k BY <1>0, <1>1
    <2> QED BY <2>1, <2>2, <1>0, <1>2, <1>6
  <1>18. Tree(D, r, V, lo2, hi2) BY <1>12, <1>16, <1>17 DEF Tree
  <1> QED BY <1>18 DEF V


------------------------------------------------------------------------------
(* More about sequences.                                                   *)


LEMMA InsertAtInjective ==
  ASSUME NEW S, NEW s \in Seq(S), NEW i \in 1 .. Len(s) + 1, NEW e \in S,
         IsInjective(s), e \notin ToSet(s)
  PROVE IsInjective(InsertAt(s, i, e))
  <1> DEFINE t == InsertAt(s, i, e)
             k == Len(s)
  <1>1. /\ t \in Seq(S)
        /\ Len(t) = k + 1
        /\ \A j \in 1 .. i - 1 : t[j] = s[j]
        /\ t[i] = e
        /\ \A j \in i .. k : t[j + 1] = s[j]
    BY InsertAtElements
  <1>2. k \in Nat /\ i \in Int /\ i >= 1 /\ i <= k + 1 OBVIOUS
  <1>3. DOMAIN t = 1 .. k + 1 /\ DOMAIN s = 1 .. k BY <1>1
  <1> DEFINE From(j, m) == (j < i => m = j) /\ (j > i => m = j - 1)
  <1> HIDE DEF t, k, From
  <1>4. ASSUME NEW j \in 1 .. k + 1, j # i PROVE \E m \in 1 .. k : t[j] = s[m] /\ From(j, m)
    <2>1. CASE j < i
      <3>1. j \in 1 .. i - 1 /\ j \in 1 .. k /\ From(j, j) BY <1>2, <2>1 DEF From
      <3> QED BY <3>1, <1>1
    <2>2. CASE j > i
      <3>1. j - 1 \in i .. k /\ j - 1 \in 1 .. k /\ (j - 1) + 1 = j /\ From(j, j - 1)
        BY <1>2, <2>2 DEF From
      <3>2. t[(j - 1) + 1] = s[j - 1] BY <3>1, <1>1
      <3> QED BY <3>1, <3>2
    <2> QED BY <1>2, <1>4, <2>1, <2>2
  <1>5. ASSUME NEW j \in 1 .. k + 1, t[j] = e PROVE j = i
    <2> SUFFICES ASSUME j # i PROVE FALSE OBVIOUS
    <2>1. PICK m \in 1 .. k : t[j] = s[m] BY <1>4
    <2> QED BY <1>3, <1>5, <2>1 DEF ToSet
  <1>6. ASSUME NEW a \in 1 .. k + 1, NEW b \in 1 .. k + 1, t[a] = t[b] PROVE a = b
    <2>1. CASE a = i \/ b = i BY <1>1, <1>5, <1>6, <2>1
    <2>2. CASE a # i /\ b # i
      <3>1. PICK m \in 1 .. k : t[a] = s[m] /\ From(a, m) BY <1>4, <2>2
      <3>2. PICK n \in 1 .. k : t[b] = s[n] /\ From(b, n) BY <1>4, <2>2
      <3>3. s[m] = s[n] BY <1>6, <3>1, <3>2
      <3>4. m = n BY <3>3, <1>3 DEF IsInjective
      <3>5. From(a, m) /\ From(b, m) BY <3>1, <3>2, <3>4
      <3>6. a \in Int /\ b \in Int BY <1>2
      <3> QED BY <1>2, <2>2, <3>5, <3>6 DEF From
    <2> QED BY <2>1, <2>2
  <1> QED BY <1>3, <1>6 DEF IsInjective, t

LEMMA AppendElements ==
  ASSUME NEW S, NEW s \in Seq(S), NEW e \in S, IsInjective(s), e \notin ToSet(s)
  PROVE /\ Append(s, e) \in Seq(S)
        /\ Len(Append(s, e)) = Len(s) + 1
        /\ Append(s, e)[Len(s) + 1] = e
        /\ \A j \in 1 .. Len(s) : Append(s, e)[j] = s[j]
        /\ ToSet(Append(s, e)) = ToSet(s) \cup {e}
        /\ IsInjective(Append(s, e))
  <1> DEFINE t == Append(s, e)
             k == Len(s)
  <1>1. /\ t \in Seq(S)
        /\ Len(t) = k + 1
        /\ t[k + 1] = e
        /\ \A j \in 1 .. k : t[j] = s[j]
        /\ k \in Nat
    OBVIOUS
  <1>2. DOMAIN t = 1 .. k + 1 /\ DOMAIN s = 1 .. k BY <1>1
  <1> HIDE DEF t, k
  <1>3. \A j \in 1 .. k + 1 : j = k + 1 \/ j \in 1 .. k BY <1>1
  <1>4. \A j \in 1 .. k : j \in 1 .. k + 1 BY <1>1
  <1>5. k + 1 \in 1 .. k + 1 BY <1>1
  <1>6. ToSet(t) = ToSet(s) \cup {e}
    <2>1. ToSet(t) \subseteq ToSet(s) \cup {e} BY <1>1, <1>2, <1>3 DEF ToSet
    <2>2. ToSet(s) \cup {e} \subseteq ToSet(t) BY <1>1, <1>2, <1>4, <1>5 DEF ToSet
    <2> QED BY <2>1, <2>2
  <1>7. IsInjective(t)
    <2>1. \A j \in 1 .. k : s[j] # e BY <1>2 DEF ToSet
    <2>2. \A a, b \in 1 .. k : s[a] = s[b] => a = b BY <1>2 DEF IsInjective
    <2>3. \A a, b \in 1 .. k + 1 : t[a] = t[b] => a = b BY <1>1, <1>3, <2>1, <2>2
    <2> QED BY <1>2, <2>3 DEF IsInjective
  <1> QED BY <1>1, <1>6, <1>7 DEF t, k

LEMMA RemoveFirstElements ==
  ASSUME NEW S, NEW s \in Seq(S), NEW e, IsInjective(s)
  PROVE /\ RemoveFirst(s, e) \in Seq(S)
        /\ ToSet(RemoveFirst(s, e)) = ToSet(s) \ {e}
        /\ IsInjective(RemoveFirst(s, e))
        /\ e \in ToSet(s) => Len(RemoveFirst(s, e)) = Len(s) - 1
        /\ e \notin ToSet(s) => RemoveFirst(s, e) = s
  <1>1. CASE e \notin ToSet(s)
    <2>1. RemoveFirst(s, e) = s BY <1>1, RemoveFirstAbsent
    <2> QED BY <1>1, <2>1
  <1>2. CASE e \in ToSet(s)
    <2>1. PICK i \in 1 .. Len(s) : s[i] = e BY <1>2 DEF ToSet
    <2>2. RemoveFirst(s, e) = RemoveAt(s, i) BY <2>1, RemoveFirstPresent
    <2>3. /\ RemoveAt(s, i) \in Seq(S)
          /\ Len(RemoveAt(s, i)) = Len(s) - 1
          /\ ToSet(RemoveAt(s, i)) = ToSet(s) \ {s[i]}
          /\ IsInjective(RemoveAt(s, i))
      BY RemoveAtElements
    <2> QED BY <1>2, <2>1, <2>2, <2>3
  <1> QED BY <1>1, <1>2

LEMMA RemoveThenInsert ==
  ASSUME NEW S, NEW s \in Seq(S), NEW i \in 1 .. Len(s), NEW d \in S, IsInjective(s),
         d \notin ToSet(s)
  PROVE LET t == InsertAt(RemoveFirst(s, s[i]), i, d) IN
        /\ t \in Seq(S)
        /\ Len(t) = Len(s)
        /\ ToSet(t) = (ToSet(s) \ {s[i]}) \cup {d}
        /\ IsInjective(t)
  <1> DEFINE u == RemoveAt(s, i)
             t == InsertAt(u, i, d)
  <1>0. RemoveFirst(s, s[i]) = u BY RemoveFirstPresent
  <1>1. /\ u \in Seq(S)
        /\ Len(u) = Len(s) - 1
        /\ ToSet(u) = ToSet(s) \ {s[i]}
        /\ IsInjective(u)
    BY RemoveAtElements
  <1>2. Len(s) \in Nat /\ i \in 1 .. Len(u) + 1 BY <1>1
  <1>3. d \notin ToSet(u) BY <1>1
  <1> HIDE DEF u
  <1>4. t \in Seq(S) /\ Len(t) = Len(u) + 1 /\ ToSet(t) = ToSet(u) \cup {d}
    BY <1>1, <1>2, InsertAtElements
  <1>5. IsInjective(t) BY <1>1, <1>2, <1>3, InsertAtInjective
  <1> QED BY <1>0, <1>1, <1>2, <1>4, <1>5

LEMMA InsertThenRemove ==
  ASSUME NEW S, NEW s \in Seq(S), NEW i \in 1 .. Len(s), NEW d \in S, IsInjective(s),
         d \notin ToSet(s)
  PROVE LET t == RemoveFirst(InsertAt(s, i, d), s[i]) IN
        /\ t \in Seq(S)
        /\ Len(t) = Len(s)
        /\ ToSet(t) = (ToSet(s) \ {s[i]}) \cup {d}
        /\ IsInjective(t)
  <1> DEFINE u == InsertAt(s, i, d)
             t == RemoveFirst(u, s[i])
  <1>1. Len(s) \in Nat /\ i \in 1 .. Len(s) + 1 /\ s[i] \in ToSet(s) BY DEF ToSet
  <1>2. u \in Seq(S) /\ Len(u) = Len(s) + 1 /\ ToSet(u) = ToSet(s) \cup {d}
    BY <1>1, InsertAtElements
  <1>3. IsInjective(u) BY <1>1, InsertAtInjective
  <1> HIDE DEF u
  <1>4. /\ t \in Seq(S)
        /\ ToSet(t) = ToSet(u) \ {s[i]}
        /\ IsInjective(t)
        /\ s[i] \in ToSet(u) => Len(t) = Len(u) - 1
    BY <1>2, <1>3, RemoveFirstElements
  <1>5. Len(t) = Len(s) BY <1>1, <1>2, <1>4
  <1>6. ToSet(t) = (ToSet(s) \ {s[i]}) \cup {d} BY <1>1, <1>2, <1>4
  <1> QED BY <1>4, <1>5, <1>6 DEF u

LEMMA Replaced ==
  ASSUME NEW S, NEW s, s \in Seq(S), NEW x, x \in ToSet(s), NEW d, d \in S
  PROVE /\ Len(ReplaceAll(s, x, d)) = Len(s)
        /\ ToSet(ReplaceAll(s, x, d)) = (ToSet(s) \ {x}) \cup {d}
  <1>0. DOMAIN s = 1 .. Len(s) /\ Len(s) \in Nat OBVIOUS
  <1>e. PICK i \in 1 .. Len(s) : s[i] = x BY <1>0 DEF ToSet
  <1> DEFINE t == ReplaceAll(s, x, d)
  <1>1. /\ t \in Seq(S)
        /\ Len(t) = Len(s)
        /\ \A j \in 1 .. Len(s) : t[j] = IF s[j] = x THEN d ELSE s[j]
    BY ReplaceAllElements
  <1>2. DOMAIN t = 1 .. Len(s) BY <1>1
  <1> HIDE DEF t
  <1>3. ToSet(t) \subseteq (ToSet(s) \ {x}) \cup {d} BY <1>0, <1>1, <1>2 DEF ToSet
  <1>4. (ToSet(s) \ {x}) \cup {d} \subseteq ToSet(t) BY <1>0, <1>e, <1>1, <1>2 DEF ToSet
  <1> QED BY <1>1, <1>3, <1>4 DEF t

LEMMA ReplaceAllAbsent ==
  ASSUME NEW S, NEW s \in Seq(S), NEW x, NEW d, x \notin ToSet(s)
  PROVE ReplaceAll(s, x, d) = s
  <1>1. \A j \in 1 .. Len(s) : s[j] # x BY DEF ToSet
  <1> QED BY <1>1 DEF ReplaceAll

LEMMA OnlyElement ==
  ASSUME NEW S, NEW s \in Seq(S), NEW x, IsInjective(s), ToSet(s) = {x}
  PROVE s = <<x>>
  <1>1. DOMAIN s = 1 .. Len(s) /\ Len(s) \in Nat OBVIOUS
  <1>2. \A j \in 1 .. Len(s) : s[j] = x BY <1>1 DEF ToSet
  <1>3. PICK j \in 1 .. Len(s) : s[j] = x BY <1>1 DEF ToSet
  <1>4. 1 \in 1 .. Len(s) /\ Len(s) \in 1 .. Len(s) BY <1>1, <1>3
  <1>5. s[1] = s[Len(s)] BY <1>2, <1>4
  <1>6. Len(s) = 1 BY <1>1, <1>4, <1>5 DEF IsInjective
  <1>7. s[1] = x BY <1>2, <1>4
  <1> QED BY <1>6, <1>7

LEMMA NoElement ==
  ASSUME NEW S, NEW s \in Seq(S), ToSet(s) = {}
  PROVE s = <<>>
  <1>1. Len(s) \in Nat /\ DOMAIN s = 1 .. Len(s) OBVIOUS
  <1>2. \A j \in 1 .. Len(s) : FALSE BY <1>1 DEF ToSet
  <1>3. Len(s) = 0
    <2> SUFFICES ASSUME Len(s) # 0 PROVE FALSE OBVIOUS
    <2>1. 1 \in 1 .. Len(s) BY <1>1
    <2> QED BY <1>2, <2>1
  <1> QED BY <1>3, EmptySeq

------------------------------------------------------------------------------
(* The trees of frames.                                                    *)

\* The leaves of a tree without splits of one child are the windows W.
LeavesAre(C, r, W) == Branching(C) /\ \E lo, hi : Tree(C, r, W, lo, hi)

\* Every splitter has an orientation.
Oriented(C, orient) ==
    /\ DOMAIN orient = DOMAIN C
    /\ \A n \in DOMAIN C : orient[n] \in Orientations

\* Windows and splitters are numbered by the order of their creation.
Numbered(C, W, made) ==
    /\ made \in Nat \ {0}
    /\ ToSet(W) \subseteq 1 .. made
    /\ DOMAIN C \subseteq (-made) .. -1

LEMMA ParentsOfChild ==
  ASSUME NEW C, NEW r, NEW W, Shape(C, r, W), NEW p \in DOMAIN C, NEW q \in 1 .. Len(C[p])
  PROVE Parents(C, C[p][q]) = {p}
  <1>1. \A n \in DOMAIN C : DOMAIN C[n] = 1 .. Len(C[n]) BY ChildIsItem DEF Shape
  <1>2. \A n \in DOMAIN C : \A i \in 1 .. Len(C[n]) : C[n][i] = C[p][q] => n = p BY DEF Shape
  <1>3. C[p][q] \in ToSet(C[p]) BY <1>1 DEF ToSet
  <1>4. \A n \in DOMAIN C : C[p][q] \in ToSet(C[n]) => n = p BY <1>1, <1>2 DEF ToSet
  <1> QED BY <1>3, <1>4 DEF Parents

LEMMA ParentsOfRoot ==
  ASSUME NEW C, NEW r, NEW W, Shape(C, r, W)
  PROVE Parents(C, r) = {}
  <1>1. \A n \in DOMAIN C : DOMAIN C[n] = 1 .. Len(C[n]) BY ChildIsItem DEF Shape
  <1>2. \A n \in DOMAIN C : \A i \in 1 .. Len(C[n]) : C[n][i] # r BY DEF Shape
  <1> QED BY <1>1, <1>2 DEF Parents, ToSet

LEMMA ParentExists ==
  ASSUME NEW C, NEW r, NEW W, Shape(C, r, W), NEW x \in Items(C, W), x # r
  PROVE \E p \in DOMAIN C : \E q \in 1 .. Len(C[p]) :
           C[p][q] = x /\ Parents(C, x) = {p} /\ q \in DOMAIN C[p]
  <1>1. PICK p \in DOMAIN C : \E q \in 1 .. Len(C[p]) : C[p][q] = x BY DEF Shape
  <1>2. PICK q \in 1 .. Len(C[p]) : C[p][q] = x BY <1>1
  <1>3. Parents(C, x) = {p} BY <1>2, ParentsOfChild
  <1>4. q \in DOMAIN C[p] BY ChildrenInjective
  <1> QED BY <1>2, <1>3, <1>4

\* A new element in a sequence without it.
LEMMA InsertNew ==
  ASSUME NEW S, NEW s, s \in Seq(S), IsInjective(s), NEW e, e \in S, e \notin ToSet(s),
         NEW i, i \in 1 .. Len(s) + 1
  PROVE /\ InsertAt(s, i, e) \in Seq(S)
        /\ Len(InsertAt(s, i, e)) = Len(s) + 1
        /\ InsertAt(s, i, e)[i] = e
        /\ ToSet(InsertAt(s, i, e)) = ToSet(s) \cup {e}
        /\ IsInjective(InsertAt(s, i, e))
  <1>1. IsInjective(InsertAt(s, i, e)) BY InsertAtInjective
  <1>2. /\ InsertAt(s, i, e) \in Seq(S)
        /\ Len(InsertAt(s, i, e)) = Len(s) + 1
        /\ InsertAt(s, i, e)[i] = e
        /\ ToSet(InsertAt(s, i, e)) = ToSet(s) \cup {e}
    BY InsertAtElements
  <1> QED BY <1>1, <1>2

LEMMA PairInserted ==
  ASSUME NEW x, NEW w, x # w
  PROVE InsertAt(<<x>>, 2, w) = <<x, w>>
  <1> DEFINE S == {x, w}
             s == <<x>>
             i == 2
             t == InsertAt(s, i, w)
  <1>1. /\ s \in Seq(S) /\ IsInjective(s) /\ w \in S /\ w \notin ToSet(s)
        /\ i \in 1 .. Len(s) + 1 /\ Len(s) = 1 /\ s[1] = x /\ ToSet(s) = {x}
    BY DEF IsInjective, ToSet
  <1> HIDE DEF S, s, i
  <1>2. /\ InsertAt(s, i, w) \in Seq(S)
        /\ Len(InsertAt(s, i, w)) = Len(s) + 1
        /\ InsertAt(s, i, w)[i] = w
        /\ ToSet(InsertAt(s, i, w)) = ToSet(s) \cup {w}
        /\ IsInjective(InsertAt(s, i, w))
    BY <1>1, InsertNew
  <1>3. t \in Seq(S) /\ Len(t) = 2 /\ t[2] = w /\ IsInjective(t) BY <1>1, <1>2 DEF i
  <1> HIDE DEF t
  <1>4. t[1] \in S /\ t[1] # w
    <2>1. DOMAIN t = 1 .. 2 /\ 1 \in 1 .. 2 /\ 2 \in 1 .. 2 /\ 1 # 2 BY <1>3
    <2>2. t[1] \in S BY <1>3, <2>1
    <2>3. t[1] # t[2] BY <1>3, <2>1 DEF IsInjective
    <2> QED BY <1>3, <2>2, <2>3
  <1>5. t = <<x, w>> BY <1>3, <1>4 DEF S
  <1> QED BY <1>5 DEF t, s, i

\* Opaque facts, for the provers' sake.
At(W, k, x) == W[k] = x

Pair(t, x, w) == Len(t) = 2 /\ ToSet(t) = {x, w}

\* The containers after a split in the other direction.
Nested(C, r, x, outer, s, w) ==
    Put(IF x = r THEN C ELSE ReplaceChild(C, outer, x, s), s, <<x, w>>)

\* The tree of a split that puts a new splitter s in the place of a window x,
\* with x and the new window w below it.
LEMMA NestedTree ==
  ASSUME NEW C, NEW r, NEW W, NEW lo, NEW hi, Tree(C, r, W, lo, hi), Branching(C),
         NEW k, k \in 1 .. Len(W), NEW x, At(W, k, x),
         NEW w, w \in Nat \ {0}, w \notin ToSet(W),
         NEW s, s \in Int, s < 0, s \notin DOMAIN C,
         NEW outer, x # r => outer \in DOMAIN C /\ Parents(C, x) = {outer}
  PROVE LET D == Nested(C, r, x, outer, s, w) IN
        /\ LeavesAre(D, NestedRoot(r, x, s), InsertAt(W, k + 1, w))
        /\ \A e : e \in DOMAIN D <=> e \in DOMAIN C \/ e = s
        /\ Pair(D[s], x, w)
        /\ \A n \in DOMAIN C : D[n] = ReplaceAll(C[n], x, s)
        /\ \A n \in DOMAIN C : x \notin ToSet(C[n]) => D[n] = C[n]
  <1> DEFINE tree == IF x = r THEN C ELSE ReplaceChild(C, outer, x, s)
             r1 == NestedRoot(r, x, s)
             one == <<x>>
             pair == <<x, w>>
             D == Put(tree, s, pair)
             D1 == Put(tree, s, one)
  <1>0. x = W[k] BY DEF At
  <1>1. Shape(C, r, W) BY DEF Tree
  <1>2. x \in ToSet(W) /\ x \in Items(C, W) BY <1>0, <1>1 DEF Shape, ToSet, Items
  <1>3. \A n \in DOMAIN C : C[n] \in Seq(Items(C, W)) BY <1>1 DEF Shape
  <1>4. \A n \in DOMAIN C : x \notin ToSet(C[n]) => ReplaceAll(C[n], x, s) = C[n]
    BY <1>3, ReplaceAllAbsent
  <1>5. DOMAIN tree = DOMAIN C /\ \A n \in DOMAIN C : tree[n] = ReplaceAll(C[n], x, s)
    <2>1. CASE x = r
      <3>1. Parents(C, x) = {} BY <1>1, <2>1, ParentsOfRoot
      <3>2. \A n \in DOMAIN C : x \notin ToSet(C[n]) BY <3>1 DEF Parents
      <3> QED BY <1>4, <2>1, <3>2
    <2>2. CASE x # r
      <3>1. outer \in DOMAIN C /\ Parents(C, x) = {outer} BY <2>2
      <3>2. \A n \in DOMAIN C \ {outer} : x \notin ToSet(C[n]) BY <3>1 DEF Parents
      <3>3. tree = [C EXCEPT ![outer] = ReplaceAll(C[outer], x, s)] BY <2>2 DEF ReplaceChild
      <3> QED BY <1>4, <3>1, <3>2, <3>3
    <2> QED BY <2>1, <2>2
  <1>p. Len(pair) = 2 /\ Len(one) = 1 /\ one[1] = x /\ pair = InsertAt(one, 2, w)
        /\ ToSet(pair) = {x, w}
    <2>1. x # w BY <1>2
    <2>2. ToSet(pair) = {x, w} BY DEF ToSet
    <2> QED BY <2>1, <2>2, PairInserted
  <1> HIDE DEF tree, one, pair
  <1>6. /\ DOMAIN D1 = DOMAIN C \cup {s} /\ D1[s] = one
        /\ \A n \in DOMAIN C : D1[n] = ReplaceAll(C[n], x, s)
    BY <1>5 DEF Put
  <1>8. /\ DOMAIN D = DOMAIN C \cup {s} /\ D[s] = pair
        /\ \A n \in DOMAIN C : D[n] = ReplaceAll(C[n], x, s)
    BY <1>5 DEF Put
  <1> HIDE DEF D1, D
  <1>9. PICK lo1, hi1 : Tree(D1, r1, W, lo1, hi1)
    <2> DEFINE e == x
               n == s
    <2>0. /\ e \in Items(C, W) /\ n \in Int /\ n < 0 /\ n \notin DOMAIN C
          /\ DOMAIN D1 = DOMAIN C \cup {n} /\ D1[n] = <<e>>
          /\ \A m \in DOMAIN C : D1[m] = ReplaceAll(C[m], e, n)
      BY <1>2, <1>6 DEF one
    <2> HIDE DEF e, n
    <2>1. \E lo1, hi1 : Tree(D1, IF r = e THEN n ELSE r, W, lo1, hi1) BY <2>0, TreeWrap
    <2>2. r1 = IF r = e THEN n ELSE r BY DEF e, n, NestedRoot
    <2> HIDE DEF r1
    <2> QED BY <2>1, <2>2
  <1>10. \E lo2, hi2 : Tree(D, r1, InsertAt(W, k + 1, w), lo2, hi2)
    <2> DEFINE q == 1
    <2>1. s \in DOMAIN D1 /\ q \in 1 .. Len(D1[s]) /\ D1[s][q] = W[k] BY <1>0, <1>p, <1>6
    <2>2. D[s] = InsertAt(D1[s], q + 1, w) BY <1>p, <1>6, <1>8
    <2>3. DOMAIN D = DOMAIN D1 /\ \A n \in DOMAIN D1 \ {s} : D[n] = D1[n] BY <1>6, <1>8
    <2> HIDE DEF q, r1
    <2> QED BY <1>9, <2>1, <2>2, <2>3, TreeInsert
  <1>11. Branching(D)
    <2> SUFFICES ASSUME NEW n \in DOMAIN D PROVE Len(D[n]) >= 2 BY DEF Branching
    <2>1. CASE n = s
      <3>1. Len(D[s]) = 2 BY <1>p, <1>8
      <3> QED BY <2>1, <3>1
    <2>2. CASE n # s
      <3>1. n \in DOMAIN C /\ D[n] = ReplaceAll(C[n], x, s) BY <1>8, <2>2
      <3>2. C[n] \in Seq(Items(C, W)) /\ Len(C[n]) >= 2 BY <1>3, <3>1 DEF Branching
      <3>3. Len(ReplaceAll(C[n], x, s)) = Len(C[n]) BY <3>2 DEF ReplaceAll
      <3> QED BY <3>1, <3>2, <3>3
    <2> QED BY <2>1, <2>2
  <1>12. D = Nested(C, r, x, outer, s, w) BY DEF D, tree, pair, Nested
  <1>13. Pair(D[s], x, w) BY <1>p, <1>8 DEF Pair
  <1> QED BY <1>4, <1>8, <1>10, <1>11, <1>12, <1>13 DEF LeavesAre

\* A window of a frame with several is below a split.
LEMMA WindowNotRoot ==
  ASSUME NEW C, NEW r, NEW W, NEW lo, NEW hi, Tree(C, r, W, lo, hi), Len(W) >= 2,
         NEW k \in 1 .. Len(W)
  PROVE W[k] # r /\ W[k] \in Items(C, W)
  <1>1. Shape(C, r, W) /\ Spans(C, W, lo, hi) /\ lo[r] = 1 /\ hi[r] = Len(W) BY DEF Tree
  <1>2. W \in Seq(Nat \ {0}) /\ DOMAIN W = 1 .. Len(W) /\ Len(W) \in Nat BY <1>1 DEF Shape
  <1>3. lo[W[k]] = k /\ hi[W[k]] = k BY <1>1 DEF Spans
  <1>4. W[k] # r BY <1>1, <1>2, <1>3
  <1>5. W[k] \in ToSet(W) BY <1>2 DEF ToSet
  <1> QED BY <1>4, <1>5 DEF Items

\* A split is not a child of itself.
LEMMA ChildNotSelf ==
  ASSUME NEW C, NEW r, NEW W, NEW lo, NEW hi, Tree(C, r, W, lo, hi), Branching(C),
         NEW p \in DOMAIN C, NEW x \in ToSet(C[p])
  PROVE x # p
  <1>1. Shape(C, r, W) BY DEF Tree
  <1>2. DOMAIN C[p] = 1 .. Len(C[p]) BY <1>1, ChildrenInjective
  <1>3. PICK i \in 1 .. Len(C[p]) : C[p][i] = x BY <1>2 DEF ToSet
  <1>4. Len(C[p]) >= 2 BY DEF Branching
  <1>5. hi[C[p][i]] - lo[C[p][i]] < hi[p] - lo[p] BY <1>4, ChildSpanSmaller
  <1>6. p \in Items(C, W) BY DEF Items
  <1>7. lo[p] \in Int /\ hi[p] \in Int BY <1>6 DEF Tree, Spans
  <1>8. ~(hi[p] - lo[p] < hi[p] - lo[p]) BY <1>7
  <1> QED BY <1>3, <1>5, <1>8

\* The tree without window k, before the split above it is unwrapped.
LEMMA DeleteTree ==
  ASSUME NEW C, NEW r, NEW W, NEW lo, NEW hi, Tree(C, r, W, lo, hi), Branching(C),
         NEW k, k \in 1 .. Len(W), NEW w, At(W, k, w), NEW p, p \in DOMAIN C, w \in ToSet(C[p]),
         NEW D, DOMAIN D = DOMAIN C, D[p] = RemoveFirst(C[p], w), \A n \in DOMAIN C \ {p} : D[n] = C[n]
  PROVE /\ \E lo2, hi2 : Tree(D, r, RemoveAt(W, k), lo2, hi2)
        /\ D[p] \in Seq(Items(C, W)) /\ IsInjective(D[p])
        /\ Len(D[p]) = Len(C[p]) - 1
        /\ \A e : e \in ToSet(D[p]) <=> e \in ToSet(C[p]) /\ e # w
  <1>0. w = W[k] BY DEF At
  <1>1. Shape(C, r, W) BY DEF Tree
  <1> DEFINE c == C[p]
             S == Items(C, W)
  <1>2. c \in Seq(S) /\ IsInjective(c) /\ DOMAIN c = 1 .. Len(c) BY <1>1, ChildrenInjective
  <1>3. PICK i \in DOMAIN c : c[i] = w BY DEF ToSet
  <1> DEFINE q == i
  <1>4. q \in 1 .. Len(c) /\ c[q] = w BY <1>2, <1>3
  <1>5. DOMAIN D = DOMAIN C /\ D[p] = RemoveFirst(c, w) /\ \A n \in DOMAIN C \ {p} : D[n] = C[n]
    OBVIOUS
  <1> HIDE DEF c, S, q
  <1>6. RemoveFirst(c, c[q]) = RemoveAt(c, q) BY <1>2, <1>4, RemoveFirstPresent
  <1>7. \E lo2, hi2 : Tree(D, r, RemoveAt(W, k), lo2, hi2)
    <2>1. D[p] = RemoveAt(C[p], q) BY <1>4, <1>5, <1>6 DEF c
    <2>2. q \in 1 .. Len(C[p]) /\ C[p][q] = W[k] BY <1>0, <1>4 DEF c
    <2> QED BY <1>5, <2>1, <2>2, TreeRemove
  <1>8. /\ RemoveFirst(c, w) \in Seq(S)
        /\ ToSet(RemoveFirst(c, w)) = ToSet(c) \ {w}
        /\ IsInjective(RemoveFirst(c, w))
        /\ w \in ToSet(c) => Len(RemoveFirst(c, w)) = Len(c) - 1
    BY <1>2, RemoveFirstElements
  <1>9. w \in ToSet(c) BY DEF c
  <1> QED BY <1>5, <1>7, <1>8, <1>9 DEF c, S

\* A split left with one child goes, and its child takes its place.
Unwrapped(D, r, p, outer, only) ==
    Drop(IF p = r THEN D ELSE ReplaceChild(D, outer, p, only), {p})

LEMMA UnwrapTree ==
  ASSUME NEW C, NEW r, NEW W, NEW lo, NEW hi, Tree(C, r, W, lo, hi), Branching(C),
         NEW w, NEW p, p \in DOMAIN C, w \in ToSet(C[p]),
         NEW D, DOMAIN D = DOMAIN C, \A n \in DOMAIN C \ {p} : D[n] = C[n],
         D[p] \in Seq(Items(C, W)), Len(D[p]) = Len(C[p]) - 1,
         \A e : e \in ToSet(D[p]) <=> e \in ToSet(C[p]) /\ e # w,
         NEW V, NEW lo2, NEW hi2, Tree(D, r, V, lo2, hi2),
         Len(D[p]) = 1, NEW only, At(D[p], 1, only),
         NEW outer, p # r => outer \in DOMAIN C /\ Parents(C, p) = {outer}
  PROVE /\ LeavesAre(Unwrapped(D, r, p, outer, only), NestedRoot(r, p, only), V)
        /\ \A e : e \in DOMAIN Unwrapped(D, r, p, outer, only) <=> e \in DOMAIN C /\ e # p
        /\ \A n \in DOMAIN C \ {p} :
              Unwrapped(D, r, p, outer, only)[n] = ReplaceAll(C[n], p, only)
        /\ Pair(C[p], w, only)
        /\ only # p /\ only # w /\ only \in Items(C, W) /\ only \in ToSet(C[p])
  <1> DEFINE tree == IF p = r THEN D ELSE ReplaceChild(D, outer, p, only)
             U == Drop(tree, {p})
             c == C[p]
  <1>0. only = D[p][1] BY DEF At
  <1>1. Shape(C, r, W) BY DEF Tree
  <1>3. /\ ToSet(D[p]) = {only} /\ only \in Items(C, W)
    <2>1. DOMAIN D[p] = 1 .. 1 OBVIOUS
    <2>2. only \in Items(C, W) BY <1>0, <2>1
    <2>3. ToSet(D[p]) = {only} BY <1>0, <2>1 DEF ToSet
    <2> QED BY <2>2, <2>3
  <1>4. only \in ToSet(C[p]) /\ only # w BY <1>3
  <1>5. only # p BY <1>4, ChildNotSelf
  <1>6. Pair(C[p], w, only)
    <2>0. \A e : e \in ToSet(C[p]) /\ e # w <=> e \in {only} BY <1>3
    <2> DEFINE X == ToSet(C[p])
    <2>a. w \in X OBVIOUS
    <2> HIDE DEF X
    <2>1. X = {w, only} BY <2>0, <2>a DEF X
    <2>2. c \in Seq(Items(C, W)) BY <1>1, ChildrenInjective
    <2>3. Len(c) - 1 = 1 OBVIOUS
    <2> HIDE DEF c
    <2>4. Len(c) = 2 BY <2>2, <2>3
    <2> QED BY <2>1, <2>4 DEF Pair, X, c
  <1>8. DOMAIN D = DOMAIN C /\ \A n \in DOMAIN C \ {p} : D[n] = C[n] OBVIOUS
  <1>9. \A n \in DOMAIN C : C[n] \in Seq(Items(C, W)) BY <1>1 DEF Shape
  <1>10. \A n \in DOMAIN C : p \notin ToSet(C[n]) => ReplaceAll(C[n], p, only) = C[n]
    BY <1>9, ReplaceAllAbsent
  <1>11. DOMAIN tree = DOMAIN C /\ \A n \in DOMAIN C \ {p} : tree[n] = ReplaceAll(C[n], p, only)
    <2>1. CASE p = r
      <3>1. Parents(C, p) = {} BY <1>1, <2>1, ParentsOfRoot
      <3>2. \A n \in DOMAIN C : p \notin ToSet(C[n]) BY <3>1 DEF Parents
      <3> QED BY <1>8, <1>10, <2>1, <3>2
    <2>2. CASE p # r
      <3>1. outer \in DOMAIN C /\ Parents(C, p) = {outer} BY <2>2
      <3>2. \A n \in DOMAIN C \ {outer} : p \notin ToSet(C[n]) BY <3>1 DEF Parents
      <3>3. tree = [D EXCEPT ![outer] = ReplaceAll(D[outer], p, only)] BY <2>2 DEF ReplaceChild
      <3>4. DOMAIN tree = DOMAIN C BY <1>8, <3>3
      <3>5. ASSUME NEW n \in DOMAIN C \ {p} PROVE tree[n] = ReplaceAll(C[n], p, only)
        <4>1. CASE n = outer
          <5>1. tree[outer] = ReplaceAll(D[outer], p, only) BY <1>8, <3>1, <3>3
          <5> QED BY <1>8, <4>1, <5>1
        <4>2. CASE n # outer
          <5>1. tree[n] = D[n] BY <1>8, <3>3, <4>2
          <5> QED BY <1>8, <1>10, <3>2, <4>2, <5>1
        <4> QED BY <4>1, <4>2
      <3> QED BY <3>4, <3>5
    <2> QED BY <2>1, <2>2
  <1> HIDE DEF tree
  <1>12. DOMAIN U = DOMAIN C \ {p} /\ \A n \in DOMAIN U : U[n] = ReplaceAll(C[n], p, only)
    BY <1>11 DEF Drop
  <1> HIDE DEF U
  <1>13. Tree(U, NestedRoot(r, p, only), V, lo2, hi2)
    <2> DEFINE a == D[p][1]
    <2>1. p \in DOMAIN D /\ DOMAIN U = DOMAIN D \ {p} /\ Len(D[p]) = 1 /\ a # p
      BY <1>0, <1>5, <1>8, <1>12
    <2>2. \A n \in DOMAIN U : U[n] = ReplaceAll(D[n], p, a) BY <1>0, <1>8, <1>12
    <2>3. Tree(U, NestedRoot(r, p, D[p][1]), V, lo2, hi2) BY <2>1, <2>2, TreeUnwrap
    <2> QED BY <1>0, <2>3
  <1>15. Branching(U)
    <2> SUFFICES ASSUME NEW n \in DOMAIN U PROVE Len(U[n]) >= 2 BY DEF Branching
    <2>1. n \in DOMAIN C /\ U[n] = ReplaceAll(C[n], p, only) BY <1>12
    <2>2. C[n] \in Seq(Items(C, W)) /\ Len(C[n]) >= 2 BY <1>9, <2>1 DEF Branching
    <2>3. Len(ReplaceAll(C[n], p, only)) = Len(C[n]) BY <2>2 DEF ReplaceAll
    <2> QED BY <2>1, <2>2, <2>3
  <1>16. LeavesAre(U, NestedRoot(r, p, only), V) BY <1>13, <1>15 DEF LeavesAre
  <1>17. U = Unwrapped(D, r, p, outer, only) BY DEF U, tree, Unwrapped
  <1> QED BY <1>3, <1>4, <1>5, <1>6, <1>12, <1>16, <1>17

\* The tree of one window.
LEMMA OneWindow ==
  ASSUME NEW x \in Nat \ {0}
  PROVE LeavesAre(<<>>, x, <<x>>)
  <1> DEFINE W == <<x>>
             C == <<>>
             lo == [y \in {x} |-> 1]
  <1>1. /\ W \in Seq(Nat \ {0}) /\ Len(W) = 1 /\ DOMAIN W = 1 .. 1 /\ W[1] = x
        /\ DOMAIN C = {} /\ lo[x] = 1
    OBVIOUS
  <1>2. ToSet(W) = {x} BY <1>1 DEF ToSet
  <1> HIDE DEF W, C, lo
  <1>3. Items(C, W) = {x} BY <1>1, <1>2 DEF Items
  <1>4. Shape(C, x, W) BY <1>1, <1>3 DEF Shape
  <1>5. Spans(C, W, lo, lo) BY <1>1, <1>3 DEF Spans
  <1>6. Tree(C, x, W, lo, lo) BY <1>1, <1>4, <1>5 DEF Tree
  <1>7. Branching(C) BY <1>1 DEF Branching
  <1> QED BY <1>6, <1>7 DEF LeavesAre, C, W

==============================================================================

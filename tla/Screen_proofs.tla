----------------------------- MODULE Screen_proofs -----------------------------
(***************************************************************************)
(* First the scrollback ring by itself, for rings of any size and any      *)
(* texts.  Then the screen, its flags and what is drawn of it, for any     *)
(* window heights a row apart, any texts and any number of chunks; and     *)
(* that the screen uses its ring as the ring allows, so that the theorems  *)
(* about the ring hold of the screen as well.                              *)
(***************************************************************************)
EXTENDS Screen, SequenceTheorems, TLAPS

IInv == TypeOK /\ TextsOwned

\* Walking at most once around a ring of m slots wraps at most once.
LEMMA Wrap ==
    ASSUME NEW m \in Nat \ {0}
    PROVE  \A h \in 0 .. m - 1, i \in 0 .. m :
              (h + i) % m = IF h + i < m THEN h + i ELSE h + i - m
<1> SUFFICES ASSUME NEW h \in 0 .. m - 1, NEW i \in 0 .. m
             PROVE  (h + i) % m = IF h + i < m THEN h + i ELSE h + i - m
  OBVIOUS
<1>1. CASE h + i < m
  <2> DEFINE a == h + i
  <2>1. a \in 0 .. m - 1
    BY <1>1
  <2> HIDE DEF a
  <2>2. a % m = a
    BY <2>1
  <2> QED
    BY <1>1, <2>2 DEF a
<1>2. CASE ~(h + i < m)
  <2> DEFINE a == h + i
  <2>1. a \in m .. 2 * m - 1
    BY <1>2
  <2> HIDE DEF a
  <2>2. a % m = a - m
    BY <2>1
  <2> QED
    BY <1>2, <2>2 DEF a
<1> QED
  BY <1>1, <1>2

\* Slot i holds a line when it lies less than n slots after h, in a ring of m.
Holds(h, n, m, i) ==
    IF i >= h THEN i - h < n ELSE i + m - h < n

LEMMA StoredSlots ==
    ASSUME TypeOK
    PROVE  \A i \in 0 .. max_lines - 1 :
              i \in Stored <=> Holds(head, count, max_lines, i)
<1> DEFINE m == max_lines
<1>1. /\ m \in Nat \ {0} /\ head \in 0 .. m - 1 /\ count \in 0 .. m
  BY DEF TypeOK
<1>2. \A k \in 0 .. m :
         Slot(k) = IF head + k < m THEN head + k ELSE head + k - m
  BY <1>1, Wrap DEF Slot
<1> HIDE DEF m
<1> SUFFICES ASSUME NEW i \in 0 .. m - 1
             PROVE  i \in Stored <=> Holds(head, count, m, i)
  BY DEF m
<1>3. ASSUME i \in Stored PROVE Holds(head, count, m, i)
  <2>1. PICK k \in 0 .. count - 1 : i = Slot(k)
    BY <1>3 DEF Stored
  <2>2. k \in 0 .. m /\ k < m
    BY <1>1, <2>1
  <2> QED
    BY <1>1, <1>2, <2>1, <2>2 DEF Holds
<1>4. ASSUME Holds(head, count, m, i) PROVE i \in Stored
  <2> DEFINE k == IF i >= head THEN i - head ELSE i + m - head
  <2>1. k \in 0 .. count - 1 /\ k \in 0 .. m
    BY <1>1, <1>4 DEF Holds
  <2>2. Slot(k) = i
    BY <1>1, <1>2, <2>1
  <2> HIDE DEF k
  <2> QED
    BY <2>1, <2>2 DEF Stored
<1> QED
  BY <1>3, <1>4

------------------------------------------------------------------------------
(* The ring stays a ring, and its slots own the stored texts.              *)

LEMMA InitInv == Init => IInv
<1> SUFFICES ASSUME Init PROVE IInv
  OBVIOUS
<1> DEFINE d == Default
<1>0. d \in Nat \ {0} /\ 0 \in 0 .. d /\ 0 \in 0 .. d - 1
  BY ScrollbackAssumption
<1>3. /\ max_lines = d /\ lines = [i \in 0 .. d - 1 |-> NULL]
      /\ count = 0 /\ head = 0 /\ lost = FALSE
  BY DEF Init, Empty
<1> HIDE DEF d
<1>4. lines \in [0 .. d - 1 -> Lines \cup {NULL}]
  BY <1>3
<1>1. TypeOK
  BY <1>0, <1>3, <1>4 DEF TypeOK
<1>2. \A i \in 0 .. max_lines - 1 : lines[i] = NULL /\ i \notin Stored
  BY StoredSlots, <1>1, ScrollbackAssumption DEF Init, Empty, Holds
<1> QED
  BY <1>1, <1>2 DEF IInv, TextsOwned, Init

LEMMA NextInv == IInv /\ [Next]_vars => IInv'
<1> SUFFICES ASSUME IInv, [Next]_vars PROVE IInv'
  OBVIOUS
<1> USE ScrollbackAssumption
<1> DEFINE m == max_lines
<1>1. /\ TypeOK
      /\ m \in Nat \ {0} /\ head \in 0 .. m - 1 /\ count \in 0 .. m
      /\ lines \in [0 .. m - 1 -> Lines \cup {NULL}]
  BY DEF IInv, TypeOK
<1>2. \A k \in 0 .. m :
         Slot(k) = IF head + k < m THEN head + k ELSE head + k - m
  BY <1>1, Wrap DEF Slot
<1>3. /\ ~lost
      /\ \A i \in 0 .. m - 1 : lines[i] # NULL <=> Holds(head, count, m, i)
  BY <1>1, StoredSlots DEF IInv, TextsOwned
<1>s. \* It is enough that the new texts are where Holds says.
      ASSUME TypeOK', ~lost',
             \A i \in 0 .. max_lines' - 1 :
                lines'[i] # NULL <=> Holds(head', count', max_lines', i)
      PROVE  IInv'
  <2>1. \A i \in 0 .. max_lines' - 1 :
           i \in Stored' <=> Holds(head', count', max_lines', i)
    <3>1. TypeOK => \A i \in 0 .. max_lines - 1 :
                       i \in Stored <=> Holds(head, count, max_lines, i)
      BY StoredSlots
    <3>2. (TypeOK => \A i \in 0 .. max_lines - 1 :
                       i \in Stored <=> Holds(head, count, max_lines, i))'
      BY StoredSlots, PTL
    <3> QED
      BY <1>s, <3>2 DEF Holds
  <2> QED
    BY <1>s, <2>1 DEF IInv, TextsOwned
<1>4. ASSUME NEW l \in Lines, Push(l) PROVE IInv'
  <2>1. CASE count < m
    <3> DEFINE j == Slot(count)
    <3>1. j = IF head + count < m THEN head + count ELSE head + count - m
      BY <1>1, <1>2
    <3>2. j \in 0 .. m - 1
      BY <1>1, <2>1, <3>1
    <3>3. ~Holds(head, count, m, j)
      BY <1>1, <2>1, <3>1 DEF Holds
    <3>4. /\ lines' = [lines EXCEPT ![j] = l] /\ count' = count + 1
          /\ head' = head /\ max_lines' = m /\ lost' = FALSE
      BY <1>3, <1>4, <2>1, <3>2, <3>3 DEF Push
    <3> HIDE DEF j
    <3>5. \A i \in 0 .. m - 1 :
             Holds(head, count + 1, m, i) <=> (i = j \/ Holds(head, count, m, i))
      BY <1>1, <2>1, <3>1 DEF Holds
    <3>8. lines' \in [0 .. m - 1 -> Lines \cup {NULL}]
      BY <1>1, <3>4
    <3>6. TypeOK'
      <4>1. count + 1 \in 0 .. m
        BY <1>1, <2>1
      <4> QED
        BY <1>1, <3>4, <3>8, <4>1 DEF TypeOK
    <3>7. \A i \in 0 .. m - 1 :
             lines'[i] # NULL <=> Holds(head, count + 1, m, i)
      BY <1>1, <1>3, <3>2, <3>4, <3>5
    <3> QED
      BY <1>s, <3>4, <3>6, <3>7
  <2>2. CASE ~(count < m)
    <3>1. count = m
      BY <1>1, <2>2
    <3>2. /\ lines' = [lines EXCEPT ![head] = l] /\ count' = count
          /\ head' = (head + 1) % m /\ max_lines' = m /\ lost' = FALSE
      BY <1>3, <1>4, <2>2 DEF Push
    <3>3. head' \in 0 .. m - 1
      BY <1>1, <3>2, Wrap
    <3>4. TypeOK'
      BY <1>1, <3>1, <3>2, <3>3 DEF TypeOK
    <3>5. \A h, i \in 0 .. m - 1 : Holds(h, m, m, i)
      BY <1>1 DEF Holds
    <3>6. \A i \in 0 .. m - 1 :
             lines'[i] # NULL <=> Holds(head', count', m, i)
      BY <1>1, <1>3, <3>1, <3>2, <3>3, <3>5
    <3> QED
      BY <1>s, <3>2, <3>4, <3>6
  <2> QED
    BY <2>1, <2>2
<1>5. ASSUME Pop PROVE IInv'
  <2>0. count # 0 /\ count - 1 \in 0 .. m
    BY <1>1, <1>5 DEF Pop
  <2> DEFINE j == Slot(count - 1)
  <2>1. j = IF head + (count - 1) < m THEN head + (count - 1)
                                      ELSE head + (count - 1) - m
    BY <1>2, <2>0
  <2>2. j \in 0 .. m - 1
    BY <1>1, <2>0, <2>1
  <2>3. /\ lines' = [lines EXCEPT ![j] = NULL] /\ count' = count - 1
        /\ head' = head /\ max_lines' = m /\ lost' = FALSE
    BY <1>3, <1>5 DEF Pop
  <2> HIDE DEF j
  <2>4. \A i \in 0 .. m - 1 :
           Holds(head, count - 1, m, i) <=> (i # j /\ Holds(head, count, m, i))
    BY <1>1, <2>0, <2>1 DEF Holds
  <2>5. TypeOK'
    BY <1>1, <2>0, <2>2, <2>3 DEF TypeOK
  <2>6. \A i \in 0 .. m - 1 :
           lines'[i] # NULL <=> Holds(head, count - 1, m, i)
    BY <1>1, <1>3, <2>2, <2>3, <2>4
  <2> QED
    BY <1>s, <2>3, <2>5, <2>6
<1>6. ASSUME Clear PROVE IInv'
  <2> DEFINE d == Default
  <2>0. d \in Nat \ {0} /\ 0 \in 0 .. d /\ 0 \in 0 .. d - 1
    OBVIOUS
  <2>3. /\ max_lines' = d /\ lines' = [i \in 0 .. d - 1 |-> NULL]
        /\ count' = 0 /\ head' = 0 /\ lost' = FALSE
    BY <1>3, <1>6 DEF Clear, Empty
  <2> HIDE DEF d
  <2>4. lines' \in [0 .. d - 1 -> Lines \cup {NULL}]
    BY <2>3
  <2>1. TypeOK' /\ ~lost'
    BY <2>0, <2>3, <2>4 DEF TypeOK
  <2>2. \A i \in 0 .. max_lines' - 1 :
           lines'[i] # NULL <=> Holds(head', count', max_lines', i)
    BY <1>6 DEF Clear, Empty, Holds
  <2> QED
    BY <1>s, <2>1, <2>2
<1>7. ASSUME NEW z \in Sizes, SetMax(z) PROVE IInv'
  <2> DEFINE n == IF count > z THEN z ELSE count
  <2>1. z \in Nat \ {0}
    BY <1>7 DEF SetMax
  <2>2. n \in 0 .. z /\ n \in 0 .. count
    BY <1>1, <2>1
  <2>3. /\ max_lines' = z /\ count' = n /\ head' = 0 /\ lost' = FALSE
        /\ lines' = [i \in 0 .. z - 1 |-> IF i < n THEN Get(n - 1 - i) ELSE NULL]
    BY <1>3, <1>7 DEF SetMax
  <2> HIDE DEF n
  <2>4. \A i \in 0 .. n - 1 : Get(n - 1 - i) \in Lines
    <3> SUFFICES ASSUME NEW i \in 0 .. n - 1
                 PROVE  Get(n - 1 - i) \in Lines
      OBVIOUS
    <3> DEFINE k == count - n + i
    <3>1. k \in 0 .. count - 1 /\ k \in 0 .. m
      BY <1>1, <2>2
    <3>2. Get(n - 1 - i) = lines[Slot(k)]
      <4>1. head + count - 1 - (n - 1 - i) = head + k
        BY <1>1, <2>1, <2>2
      <4> QED
        BY <4>1 DEF Get, Slot
    <3> HIDE DEF k
    <3>3. Slot(k) \in 0 .. m - 1 /\ Holds(head, count, m, Slot(k))
      BY <1>1, <1>2, <3>1 DEF Holds
    <3> QED
      BY <1>1, <1>3, <3>2, <3>3
  <2>7. lines' \in [0 .. z - 1 -> Lines \cup {NULL}]
    BY <2>1, <2>2, <2>3, <2>4
  <2>8. 0 \in 0 .. z - 1
    BY <2>1
  <2>5. TypeOK'
    BY <2>1, <2>2, <2>3, <2>7, <2>8 DEF TypeOK
  <2>6. \A i \in 0 .. z - 1 : lines'[i] # NULL <=> Holds(0, n, z, i)
    BY <2>1, <2>2, <2>3, <2>4 DEF Holds
  <2> QED
    BY <1>s, <2>3, <2>5, <2>6
<1>8. ASSUME UNCHANGED vars PROVE IInv'
  <2>1. TypeOK' /\ ~lost'
    BY <1>1, <1>3, <1>8 DEF vars, ring, TypeOK
  <2>2. \A i \in 0 .. max_lines' - 1 :
           lines'[i] # NULL <=> Holds(head', count', max_lines', i)
    BY <1>3, <1>8 DEF vars, ring
  <2> QED
    BY <1>s, <2>1, <2>2
<1> QED
  BY <1>4, <1>5, <1>6, <1>7, <1>8 DEF Next

\* Whatever is pushed, popped, cleared or resized, the indices of the ring stay
\* inside it: no push, pop or read of vterm_shim.c leaves the array.
THEOREM TypeCorrect == Spec => []TypeOK
<1>1. IInv => TypeOK
  BY DEF IInv
<1> QED
  BY <1>1, InitInv, NextInv, PTL DEF Spec

\* Each stored line has a text of its own and no other slot holds one, so a
\* read never meets a freed line and no text is leaked.
THEOREM TextsCorrect == Spec => []TextsOwned
<1>1. IInv => TextsOwned
  BY DEF IInv
<1> QED
  BY <1>1, InitInv, NextInv, PTL DEF Spec
------------------------------------------------------------------------------
(* The ring implements the bounded log.                                    *)

\* What the proof needs of the ring in one state.
RingShape ==
    /\ max_lines \in Nat \ {0} /\ head \in 0 .. max_lines - 1
    /\ count \in 0 .. max_lines
    /\ \A k \in 0 .. max_lines :
          Slot(k) = IF head + k < max_lines THEN head + k ELSE head + k - max_lines

LEMMA Shape == TypeOK => RingShape
  BY Wrap DEF TypeOK, RingShape, Slot

\* The stored lines are a sequence of texts, one per line counted.
LogShape ==
    /\ Log \in Seq(Lines)
    /\ Len(Log) = count
    /\ \A k \in 1 .. count : Log[k] = lines[Slot(k - 1)]

LEMMA LogType == IInv => LogShape
<1> SUFFICES ASSUME IInv PROVE LogShape
  OBVIOUS
<1>1. RingShape
  BY Shape DEF IInv
<1>2. \A k \in 1 .. count : lines[Slot(k - 1)] \in Lines
  <2> SUFFICES ASSUME NEW k \in 1 .. count PROVE lines[Slot(k - 1)] \in Lines
    OBVIOUS
  <2>1. k - 1 \in 0 .. count - 1 /\ k - 1 \in 0 .. max_lines
    BY <1>1 DEF RingShape
  <2>2. Slot(k - 1) \in 0 .. max_lines - 1
    BY <1>1, <2>1 DEF RingShape
  <2>3. Slot(k - 1) \in Stored
    BY <2>1 DEF Stored
  <2>4. lines[Slot(k - 1)] # NULL
    BY <2>2, <2>3 DEF IInv, TextsOwned
  <2> QED
    BY <2>2, <2>4 DEF IInv, TypeOK
<1>3. count \in Nat
  BY <1>1 DEF RingShape
<1> QED
  BY <1>2, <1>3 DEF LogShape, Log

\* A sequence is determined by its length and its elements.
LEMMA SameSeq ==
    ASSUME NEW S, NEW s \in Seq(S), NEW t \in Seq(S), Len(s) = Len(t),
           \A k \in 1 .. Len(s) : s[k] = t[k]
    PROVE  s = t
  OBVIOUS

\* The slots of the next state are those of its head and size.
LEMMA NextShape == TypeOK' => RingShape'
<1>1. TypeOK => RingShape
  BY Shape
<1> QED
  BY <1>1, PTL

LEMMA NextLogType == IInv' => LogShape'
<1>1. IInv => LogShape
  BY LogType
<1> QED
  BY <1>1, PTL

LEMMA InitLog == Init => Bounded!Init
<1> SUFFICES ASSUME Init PROVE Bounded!Init
  OBVIOUS
<1>1. Log \in Seq(Lines) /\ Len(Log) = 0
  BY InitInv, LogType DEF Init, LogShape
<1>2. Log = <<>>
  BY <1>1
<1> QED
  BY <1>2 DEF Init, Bounded!Init

LEMMA PushLog ==
    ASSUME IInv, IInv', NEW l \in Lines, Push(l)
    PROVE  Bounded!Push(l)
<1> DEFINE m == max_lines
           g == Log
           h == Log'
<1>1. /\ m \in Nat \ {0} /\ head \in 0 .. m - 1 /\ count \in 0 .. m
      /\ \A k \in 0 .. m :
            Slot(k) = IF head + k < m THEN head + k ELSE head + k - m
  BY Shape DEF IInv, RingShape
<1>2. /\ max_lines' = m
      /\ \A k \in 0 .. m :
            Slot(k)' = IF head' + k < m THEN head' + k ELSE head' + k - m
  BY NextShape DEF IInv, RingShape, Push
<1>3. /\ g \in Seq(Lines) /\ Len(g) = count
      /\ \A k \in 1 .. count : g[k] = lines[Slot(k - 1)]
  BY LogType DEF LogShape
<1>4. /\ h \in Seq(Lines) /\ Len(h) = count'
      /\ \A k \in 1 .. count' : h[k] = lines'[Slot(k - 1)']
  BY NextLogType DEF LogShape
<1>5. lines \in [0 .. m - 1 -> Lines \cup {NULL}]
  BY DEF IInv, TypeOK
<1> HIDE DEF m, g, h
<1>6. CASE count < m
  <2> DEFINE j == Slot(count)
  <2>1. /\ lines' = [lines EXCEPT ![j] = l] /\ count' = count + 1
        /\ head' = head
    BY <1>6, <1>1 DEF Push, m
  <2>2. j \in 0 .. m - 1 /\ \A k \in 0 .. count - 1 : Slot(k) # j
    BY <1>1, <1>6
  <2>3. \A k \in 0 .. m : Slot(k)' = Slot(k)
    BY <1>1, <1>2, <2>1
  <2>4. \A k \in 0 .. count : Slot(k) \in 0 .. m - 1
    BY <1>1, <1>6
  <2>5. \A k \in 1 .. count : h[k] = g[k]
    <3> TAKE k \in 1 .. count
    <3>1. k - 1 \in 0 .. count - 1 /\ k - 1 \in 0 .. m /\ k \in 1 .. count'
          /\ k - 1 \in 0 .. count
      BY <1>1, <2>1
    <3> QED
      BY <1>3, <1>4, <1>5, <2>1, <2>2, <2>3, <2>4, <3>1
  <2>6. \A k \in 1 .. count + 1 : k = count + 1 => h[k] = l
    <3> TAKE k \in 1 .. count + 1
    <3> HAVE k = count + 1
    <3>1. k \in 1 .. count' /\ k - 1 = count /\ k - 1 \in 0 .. m
      BY <1>1, <1>6, <2>1
    <3>2. h[k] = lines'[Slot(k - 1)'] /\ Slot(k - 1)' = Slot(k - 1)
      BY <1>4, <2>3, <3>1
    <3> QED
      BY <1>5, <2>1, <2>2, <3>1, <3>2
  <2>7. h = Append(g, l)
    <3>1. count' = count + 1 /\ count \in Nat
      BY <1>1, <2>1
    <3> HIDE DEF j
    <3>2. Append(g, l) \in Seq(Lines) /\ Len(Append(g, l)) = count + 1
      BY <1>3
    <3>3. \A k \in 1 .. count + 1 : h[k] = Append(g, l)[k]
      <4> TAKE k \in 1 .. count + 1
      <4>1. k \in 1 .. count \/ k = count + 1
        BY <3>1
      <4> QED
        BY <1>3, <2>5, <2>6, <3>1, <4>1
    <3> QED
      BY <1>4, <3>1, <3>2, <3>3, SameSeq
  <2> QED
    BY <1>2, <1>3, <1>6, <2>7 DEF Bounded!Push, g, h, m
<1>7. CASE ~(count < m)
  <2>0. count = m
    BY <1>1, <1>7
  <2>1. /\ lines' = [lines EXCEPT ![head] = l] /\ count' = m
        /\ head' = (head + 1) % m
    BY <1>7, <2>0 DEF Push, m
  <2>2. head' = IF head + 1 < m THEN head + 1 ELSE head + 1 - m
    <3>1. 1 \in 0 .. m
      BY <1>1
    <3> QED
      BY <1>1, <2>1, <3>1, Wrap
  <2>3. \A k \in 1 .. m - 1 : h[k] = g[k + 1]
    <3> TAKE k \in 1 .. m - 1
    <3>1. k \in 1 .. count' /\ k - 1 \in 0 .. m /\ k \in 0 .. m /\ k + 1 \in 1 .. count
          /\ (k + 1) - 1 = k
      BY <1>1, <2>0, <2>1
    <3>2. Slot(k - 1)' = Slot(k) /\ Slot(k) # head /\ Slot(k) \in 0 .. m - 1
      BY <1>1, <1>2, <2>2, <3>1
    <3>3. h[k] = lines'[Slot(k - 1)'] /\ g[k + 1] = lines[Slot(k)]
      BY <1>3, <1>4, <3>1
    <3> QED
      BY <1>1, <1>5, <2>1, <3>2, <3>3
  <2>4. \A k \in 1 .. m : k = m => h[k] = l
    <3> TAKE k \in 1 .. m
    <3> HAVE k = m
    <3>1. k \in 1 .. count' /\ k - 1 \in 0 .. m /\ k - 1 = m - 1
      BY <1>1, <2>1
    <3>2. Slot(k - 1)' = head
      BY <1>1, <1>2, <2>2, <3>1
    <3>3. h[k] = lines'[Slot(k - 1)']
      BY <1>4, <3>1
    <3> QED
      BY <1>1, <1>5, <2>1, <3>2, <3>3
  <2>5. h = Append(Tail(g), l)
    <3>1. Len(g) = m /\ m \in Nat \ {0} /\ Len(h) = m
      BY <1>1, <1>3, <1>4, <2>0, <2>1
    <3> DEFINE t == Tail(g)
    <3>2. /\ t \in Seq(Lines) /\ Len(t) = m - 1
          /\ \A k \in 1 .. m - 1 : t[k] = g[k + 1]
      BY <1>3, <3>1
    <3> HIDE DEF t
    <3>3. /\ Append(t, l) \in Seq(Lines) /\ Len(Append(t, l)) = m
          /\ \A k \in 1 .. m - 1 : Append(t, l)[k] = t[k]
          /\ Append(t, l)[m] = l
      BY <3>1, <3>2
    <3>4. \A k \in 1 .. m : h[k] = Append(t, l)[k]
      BY <2>3, <2>4, <3>1, <3>2, <3>3
    <3> QED
      BY <1>4, <3>1, <3>3, <3>4, SameSeq DEF t
  <2> QED
    BY <1>2, <1>3, <1>7, <2>5 DEF Bounded!Push, g, h, m
<1> QED
  BY <1>6, <1>7

LEMMA PopLog ==
    ASSUME IInv, IInv', Pop
    PROVE  Bounded!Pop
<1> DEFINE m == max_lines
           g == Log
           h == Log'
<1>1. /\ m \in Nat \ {0} /\ head \in 0 .. m - 1 /\ count \in 0 .. m
      /\ \A k \in 0 .. m :
            Slot(k) = IF head + k < m THEN head + k ELSE head + k - m
  BY Shape DEF IInv, RingShape
<1>2. /\ max_lines' = m /\ head' = head /\ count' = count - 1 /\ count # 0
      /\ lines' = [lines EXCEPT ![Slot(count - 1)] = NULL]
  BY DEF Pop
<1>3. /\ g \in Seq(Lines) /\ Len(g) = count
      /\ \A k \in 1 .. count : g[k] = lines[Slot(k - 1)]
  BY LogType DEF LogShape
<1>4. /\ h \in Seq(Lines) /\ Len(h) = count - 1
      /\ \A k \in 1 .. count - 1 : h[k] = lines'[Slot(k - 1)']
  BY NextLogType, <1>2 DEF LogShape
<1>5. \A k \in 0 .. m : Slot(k)' = Slot(k)
  BY <1>2 DEF Slot
<1>6. lines \in [0 .. m - 1 -> Lines \cup {NULL}]
  BY DEF IInv, TypeOK
<1> HIDE DEF m, g, h
<1>7. \A k \in 1 .. count - 1 : h[k] = g[k]
  <2> TAKE k \in 1 .. count - 1
  <2>1. k - 1 \in 0 .. m /\ k \in 1 .. count /\ count - 1 \in 0 .. m
    BY <1>1
  <2>2. Slot(k - 1) # Slot(count - 1) /\ Slot(k - 1) \in 0 .. m - 1
    BY <1>1, <2>1
  <2> QED
    BY <1>2, <1>3, <1>4, <1>5, <1>6, <2>1, <2>2
<1>8. h = SubSeq(g, 1, Len(g) - 1)
  <2> DEFINE n == count - 1
  <2>1. n \in Nat /\ n < Len(g)
    BY <1>1, <1>2, <1>3
  <2>2. \A k \in 1 .. n : h[k] = g[k]
    BY <1>7
  <2>3. Len(g) - 1 = n /\ Len(h) = n
    BY <1>1, <1>3, <1>4
  <2> HIDE DEF n
  <2>4. /\ SubSeq(g, 1, n) \in Seq(Lines) /\ Len(SubSeq(g, 1, n)) = n
        /\ \A k \in 1 .. n : SubSeq(g, 1, n)[k] = g[k]
    BY <1>3, <2>1
  <2> QED
    BY <1>4, <2>2, <2>3, <2>4, SameSeq
<1>9. g # <<>>
  BY <1>2, <1>3
<1> QED
  BY <1>2, <1>8, <1>9 DEF Bounded!Pop, g, h, m

LEMMA ClearLog ==
    ASSUME IInv, IInv', Clear
    PROVE  Bounded!Clear
<1>1. Log' \in Seq(Lines) /\ Len(Log') = 0
  BY NextLogType DEF Clear, LogShape
<1>2. Log' = <<>>
  BY <1>1
<1> QED
  BY <1>2 DEF Clear, Bounded!Clear

LEMMA SetMaxLog ==
    ASSUME IInv, IInv', NEW z \in Sizes, SetMax(z)
    PROVE  Bounded!SetLimit(z)
<1> DEFINE m == max_lines
           n == IF count > z THEN z ELSE count
           g == Log
           h == Log'
<1>1. /\ m \in Nat \ {0} /\ head \in 0 .. m - 1 /\ count \in 0 .. m
  BY Shape DEF IInv, RingShape
<1>2. z \in Nat \ {0}
  BY ScrollbackAssumption DEF SetMax
<1>3. /\ max_lines' = z /\ count' = n /\ head' = 0
      /\ lines' = [i \in 0 .. z - 1 |-> IF i < n THEN Get(n - 1 - i) ELSE NULL]
  BY DEF SetMax
<1>4. /\ n \in 0 .. z /\ n \in 0 .. count
      /\ (count > z => n = z) /\ (~(count > z) => n = count)
  BY <1>1, <1>2
<1>5. /\ g \in Seq(Lines) /\ Len(g) = count
      /\ \A k \in 1 .. count : g[k] = lines[Slot(k - 1)]
  BY LogType DEF LogShape
<1>6. /\ h \in Seq(Lines) /\ Len(h) = n
      /\ \A k \in 1 .. n : h[k] = lines'[Slot(k - 1)']
  BY NextLogType, <1>3 DEF LogShape
<1>7. \A k \in 0 .. z - 1 : Slot(k)' = k
  <2>1. \A k \in 0 .. z : Slot(k)' = IF 0 + k < z THEN 0 + k ELSE 0 + k - z
    BY <1>3, NextShape DEF IInv, RingShape
  <2> QED
    BY <1>2, <2>1
<1> HIDE DEF m, n, g, h
<1>8. \A k \in 1 .. n : h[k] = g[count - n + k]
  <2> TAKE k \in 1 .. n
  <2>1. k - 1 \in 0 .. z - 1 /\ k - 1 < n /\ count - n + k \in 1 .. count
    BY <1>1, <1>2, <1>4
  <2>2. h[k] = Get(n - 1 - (k - 1))
    BY <1>3, <1>6, <1>7, <2>1
  <2>3. head + count - 1 - (n - 1 - (k - 1)) = head + ((count - n + k) - 1)
    BY <1>1, <1>4
  <2> QED
    BY <1>5, <2>1, <2>2, <2>3 DEF Get, Slot
<1>9. h = IF Len(g) <= z THEN g ELSE Bounded!Newest(g, z)
  <2>1. CASE count <= z
    <3>1. n = count /\ \A k \in 1 .. n : count - n + k = k
      BY <1>1, <1>2, <1>4, <2>1
    <3>2. h = g
      BY <1>5, <1>6, <1>8, <3>1, SameSeq
    <3> QED
      BY <1>5, <2>1, <3>2
  <2>2. CASE ~(count <= z)
    <3>1. n = z /\ z < count
      BY <1>1, <1>2, <1>4, <2>2
    <3> DEFINE a == count - z + 1
               t == SubSeq(g, a, count)
    <3>2. a \in 1 .. count /\ count - a + 1 = z
      BY <1>1, <1>2, <3>1
    <3>5. \A k \in 1 .. z : count - n + k = a + k - 1
      BY <1>1, <1>2, <3>1
    <3> HIDE DEF a
    <3>3. /\ t \in Seq(Lines) /\ Len(t) = z
          /\ \A k \in 1 .. z : t[k] = g[a + k - 1]
      BY <1>1, <1>2, <1>5, <3>2
    <3> HIDE DEF t
    <3>4. h = t
      BY <1>6, <1>8, <3>1, <3>3, <3>5, SameSeq
    <3> QED
      BY <1>5, <2>2, <3>4 DEF Bounded!Newest, t, a
  <2> QED
    BY <2>1, <2>2
<1> QED
  BY <1>2, <1>3, <1>9 DEF Bounded!SetLimit, g, h

LEMMA StepLog ==
    IInv /\ IInv' /\ [Next]_vars => [Bounded!Next]_(Bounded!logVars)
<1> SUFFICES ASSUME IInv, IInv', [Next]_vars
             PROVE  [Bounded!Next]_(Bounded!logVars)
  OBVIOUS
<1>1. CASE \E l \in Lines : Push(l)
  BY <1>1, PushLog DEF Bounded!Next
<1>2. CASE Pop
  BY <1>2, PopLog DEF Bounded!Next
<1>3. CASE Clear
  BY <1>3, ClearLog DEF Bounded!Next
<1>4. CASE \E z \in Sizes : SetMax(z)
  BY <1>4, SetMaxLog DEF Bounded!Next
<1>5. CASE UNCHANGED vars
  BY <1>5 DEF vars, ring, Bounded!logVars, Log, Slot
<1> QED
  BY <1>1, <1>2, <1>3, <1>4, <1>5 DEF Next

\* The ring keeps the newest lines in order and gives them back newest first,
\* across wraps, evictions and changes of size.
THEOREM RefinesBoundedLog == Spec => LogSpec
  BY InitInv, NextInv, InitLog, StepLog, PTL DEF Spec, LogSpec, Bounded!Spec

------------------------------------------------------------------------------
(* The screen.                                                             *)

\* A record with the fields of the shim's, and no flag outside the array.
State(j) ==
    /\ j = [rows |-> j.rows, dirty |-> j.dirty, any_damage |-> j.any_damage,
            is_altscreen |-> j.is_altscreen, overrun |-> j.overrun]
    /\ j.overrun = FALSE
    /\ j.rows \in Heights \cup {0} /\ j.is_altscreen \in BOOLEAN

\* There is a flag per row, and damage is that of some row.
Flagged(j) ==
    /\ State(j)
    /\ j.dirty \in [Range0(j.rows) -> BOOLEAN]
    /\ j.any_damage <=> \E r \in Range0(j.rows) : j.dirty[r]

\* What is kept for a terminal.
Kept == ts = [pre |-> ts.pre, offset |-> ts.offset, cache |-> ts.cache,
              initialized |-> ts.initialized]

\* A poll that is under way has a screen, and a window while it resizes it.
Shape0 ==
    /\ screen \in Seq(Lines) /\ (poll # "resizing" => Len(screen) = st.rows)
    /\ Flagged(st)
    /\ Kept
    /\ height \in Heights \cup {0}
    /\ poll # "idle" => Live
    /\ poll = "resizing" => shown

Simple ==
    /\ chunks \in 0 .. MaxChunks /\ ended \in BOOLEAN /\ due \in BOOLEAN
    /\ poll \in {"idle", "resizing", "writing", "events", "done"}

\* Nothing has been drawn of a screen that is not there.
Undrawn == ~Live => ~ts.initialized

Drawn == Shape0 /\ Undrawn /\ CacheFresh /\ AltExact

SInv == IInv /\ Simple /\ Drawn

------------------------------------------------------------------------------
(* The shim.                                                               *)

LEMMA Constants ==
    /\ Blank \in Lines /\ MaxChunks \in Nat
    /\ \A h \in Heights : h \in Nat /\ h > 0
    /\ Contents \subseteq Seq(Lines)
BY ScreenAssumption

LEMMA Counted ==
    ASSUME NEW j, Flagged(j)
    PROVE  j.rows \in Nat /\ DOMAIN j.dirty = Range0(j.rows)
<1>1. j.rows \in Heights \cup {0}
  BY DEF Flagged, State
<1>2. j.rows \in Nat
  BY <1>1, Constants
<1> QED BY <1>2 DEF Flagged

LEMMA Parts ==
    ASSUME NEW j, Flagged(j)
    PROVE  j = [rows |-> j.rows, dirty |-> j.dirty, any_damage |-> j.any_damage,
                is_altscreen |-> j.is_altscreen, overrun |-> j.overrun]
BY DEF Flagged, State

LEMMA Damaged ==
    ASSUME NEW j, Flagged(j), NEW changed \in SUBSET Range0(j.rows)
    PROVE  LET d == CbDamage(j, changed) IN
           /\ State(d) /\ d.rows = j.rows /\ d.is_altscreen = j.is_altscreen
           /\ d.dirty = [r \in Range0(j.rows) |-> j.dirty[r] \/ r \in changed]
           /\ d.any_damage
<1> DEFINE marked == {r \in changed : r < j.rows}
           flags == [r \in Range0(j.rows) |-> j.dirty[r] \/ r \in changed]
           e == [rows |-> j.rows, dirty |-> flags, any_damage |-> TRUE,
                 is_altscreen |-> j.is_altscreen, overrun |-> FALSE]
<1>1. j.rows \in Nat /\ DOMAIN j.dirty = Range0(j.rows)
  BY Counted
<1>2. marked = changed
  <2>1. \A r \in Range0(j.rows) : r < j.rows
    BY <1>1 DEF Range0
  <2> QED BY <2>1
<1>3. CbDamage(j, changed) =
        [j EXCEPT !.dirty = [r \in DOMAIN @ |-> @[r] \/ r \in changed],
                  !.any_damage = TRUE,
                  !.overrun = @ \/ ~ changed \subseteq DOMAIN j.dirty]
  BY <1>2 DEF CbDamage
<1>4. j = [rows |-> j.rows, dirty |-> j.dirty, any_damage |-> j.any_damage,
           is_altscreen |-> j.is_altscreen, overrun |-> j.overrun]
  BY Parts
<1>5. j.overrun = FALSE
  BY DEF Flagged, State
<1>6. CbDamage(j, changed) = e
  BY <1>1, <1>3, <1>4, <1>5
<1>7. State(e)
  BY DEF Flagged, State
<1> QED BY <1>6, <1>7

\* Damage of some row keeps the flags those of the rows.
LEMMA DamagedFlags ==
    ASSUME NEW j, Flagged(j), NEW changed \in SUBSET Range0(j.rows), changed # {}
    PROVE  Flagged(CbDamage(j, changed))
<1> DEFINE d == CbDamage(j, changed)
<1>1. /\ State(d) /\ d.rows = j.rows
      /\ d.dirty = [r \in Range0(j.rows) |-> j.dirty[r] \/ r \in changed]
      /\ d.any_damage
  BY Damaged
<1> HIDE DEF d
<1>2. d.dirty \in [Range0(j.rows) -> BOOLEAN]
  BY <1>1
<1>3. \E r \in Range0(j.rows) : d.dirty[r]
  BY <1>1
<1> QED BY <1>1, <1>2, <1>3 DEF Flagged, d

LEMMA Unflagged ==
    ASSUME NEW h \in Heights \cup {0}
    PROVE  Flagged(NewState(h)) /\ NewState(h).rows = h
<1>1. [r \in Range0(h) |-> FALSE] \in [Range0(h) -> BOOLEAN]
  OBVIOUS
<1> QED BY <1>1 DEF Flagged, State, NewState

LEMMA NoStateFlags == Flagged(NoState) /\ NoState.rows = 0
BY Unflagged DEF NoState

LEMMA NewFlags ==
    ASSUME NEW h \in Heights
    PROVE  Flagged(JvtNew(h)) /\ JvtNew(h).rows = h
<1>1. Flagged(NewState(h)) /\ NewState(h).rows = h
  BY Unflagged
<1>2. Range0(h) # {}
  <2>1. h \in Nat /\ h > 0
    BY Constants
  <2>2. 0 \in Range0(h)
    BY <2>1 DEF Range0
  <2> QED BY <2>2
<1> QED BY <1>1, <1>2, Damaged, DamagedFlags DEF JvtNew

\* The rows of the new size are reported while the flags are the old ones.
LEMMA ResizedFlags ==
    ASSUME NEW j, Flagged(j), NEW h \in Heights
    PROVE  Flagged(JvtResize(j, h)) /\ JvtResize(j, h).rows = h
<1> DEFINE d == CbDamage(j, Range0(h))
           low == Range0(h) \cap Range0(j.rows)
<1>1. j.rows \in Nat /\ h \in Nat /\ h > 0
  BY Constants, Counted
<1>2. CbDamage(j, Range0(h)) = CbDamage(j, low)
  <2>1. {r \in Range0(h) : r < j.rows} = {r \in low : r < j.rows}
    BY <1>1 DEF Range0
  <2> QED BY <2>1 DEF CbDamage
<1>3. State(d)
  BY <1>2, Damaged
<1> HIDE DEF d
<1> DEFINE e == [rows |-> h, dirty |-> [r \in Range0(h) |-> TRUE], any_damage |-> TRUE,
                 is_altscreen |-> d.is_altscreen, overrun |-> d.overrun]
<1>4. JvtResize(j, h) = e
  <2>1. JvtResize(j, h) = Reallocated(d, h)
    BY DEF JvtResize, d
  <2>2. d = [rows |-> d.rows, dirty |-> d.dirty, any_damage |-> d.any_damage,
             is_altscreen |-> d.is_altscreen, overrun |-> d.overrun] /\ d.overrun = FALSE
    BY <1>3 DEF State
  <2> QED BY <2>1, <2>2 DEF Reallocated
<1>5. [r \in Range0(h) |-> TRUE] \in [Range0(h) -> BOOLEAN] /\ 0 \in Range0(h)
  BY <1>1 DEF Range0
<1>6. Flagged(e) /\ e.rows = h
  BY <1>3, <1>5 DEF Flagged, State
<1> QED BY <1>4, <1>6

LEMMA ClearedFlags ==
    ASSUME NEW j, Flagged(j)
    PROVE  LET d == ClearDamage(j) IN
           /\ Flagged(d) /\ d.rows = j.rows /\ d.is_altscreen = j.is_altscreen
           /\ ~d.any_damage /\ \A r \in Range0(j.rows) : ~d.dirty[r]
<1> DEFINE e == [rows |-> j.rows, dirty |-> [r \in Range0(j.rows) |-> FALSE],
                 any_damage |-> FALSE, is_altscreen |-> j.is_altscreen, overrun |-> j.overrun]
<1>1. State(j) /\ DOMAIN j.dirty = Range0(j.rows)
  BY DEF Flagged
<1>2. ClearDamage(j) = e
  <2>1. ClearDamage(j) = [j EXCEPT !.dirty = [r \in Range0(j.rows) |-> FALSE],
                                   !.any_damage = FALSE]
    BY <1>1 DEF ClearDamage
  <2> QED BY <2>1, Parts
<1>3. [r \in Range0(j.rows) |-> FALSE] \in [Range0(j.rows) -> BOOLEAN]
  OBVIOUS
<1>4. Flagged(e)
  BY <1>1, <1>3 DEF Flagged, State
<1> QED BY <1>2, <1>4

------------------------------------------------------------------------------
(* The ring.                                                               *)

\* Every step of the screen is one of its ring, or leaves it alone.
LEMMA RingStep ==
    ASSUME Shape0, [ScreenNext]_screenVars
    PROVE  [Next]_vars
<1>1. CASE MoveLine
  <2>1. screen \in Seq(Lines) /\ height \in Nat
    BY Constants DEF Shape0
  <2>2. Len(screen) > height => screen[1] \in Lines
    BY <2>1
  <2> QED BY <1>1, <2>2 DEF MoveLine, MoveRow, PushLine, PopLine, Next
<1>2. CASE Scroll
  BY <1>2 DEF Scroll, ScrollOff, PushLine, Next
<1>3. CASE Start
  BY <1>3 DEF Start, Next
<1>4. CASE Kill \/ Done
  BY <1>4 DEF Kill, Done, Freed, Next
<1>5. CASE UseRing
  BY <1>5 DEF UseRing, Next
<1>6. CASE FollowSize \/ Resized \/ Batch \/ Written \/ Flush \/ Draw
  BY <1>6 DEF FollowSize, Resized, Batch, Written, Flush, Draw
<1>7. CASE Post \/ ResizeWindow \/ UseWindow \/ Clock
  BY <1>7 DEF Post, ResizeWindow, UseWindow, Clock
<1>8. CASE UNCHANGED screenVars
  BY <1>8 DEF screenVars
<1> QED BY <1>1, <1>2, <1>3, <1>4, <1>5, <1>6, <1>7, <1>8 DEF ScreenNext, Poll

------------------------------------------------------------------------------
(* The steps.                                                              *)

LEMMA ChunkBound == MaxChunks \in Nat /\ 0 \in 0 .. MaxChunks
<1>1. MaxChunks \in Nat
  BY Constants
<1> QED BY <1>1

LEMMA InitSInv == ScreenInit => SInv
<1> SUFFICES ASSUME ScreenInit PROVE SInv
  OBVIOUS
<1>1. IInv
  BY InitInv DEF ScreenInit
<1>2. Simple
  BY ChunkBound DEF ScreenInit, Simple
<1>3. Shape0 /\ ~Live
  BY NoStateFlags DEF ScreenInit, Shape0, Kept, FreshTs, Live
<1>4. ~ts.initialized
  BY DEF ScreenInit, FreshTs
<1> QED BY <1>1, <1>2, <1>3, <1>4 DEF SInv, Drawn, Undrawn, CacheFresh, AltExact

LEMMA SimpleStep == Simple /\ [ScreenNext]_screenVars => Simple'
<1> SUFFICES ASSUME Simple, [ScreenNext]_screenVars PROVE Simple'
  OBVIOUS
<1>0. UNCHANGED channel => chunks' = chunks /\ ended' = ended
  BY DEF channel
<1>1. CASE Start
  BY <1>1, ChunkBound DEF Start, Simple
<1>2. CASE Post
  <2>1. chunks' \in 0 .. MaxChunks
    BY <1>2, ChunkBound DEF Post, Simple
  <2> QED BY <1>2, <2>1 DEF Post, Simple
<1>3. CASE ResizeWindow \/ UseWindow \/ UseRing \/ Clock \/ UNCHANGED screenVars
  BY <1>0, <1>3 DEF ResizeWindow, UseWindow, UseRing, Clock, screenVars, Simple
<1>4. CASE Kill \/ Done
  BY <1>4, ChunkBound DEF Kill, Done, Freed, Simple
<1>5. CASE FollowSize \/ MoveLine \/ Resized \/ Scroll \/ Written \/ Flush \/ Draw
  <2>1. chunks' = chunks /\ ended' = ended /\ due' \in BOOLEAN
    BY <1>0, <1>5 DEF FollowSize, MoveLine, Resized, Scroll, Written, Flush, Draw, Simple
  <2>2. poll' \in {"idle", "resizing", "writing", "events", "done"}
    BY <1>5 DEF FollowSize, MoveLine, Resized, Scroll, Written, Flush, Draw, AfterBatch, Simple
  <2> QED BY <2>1, <2>2 DEF Simple
<1>6. CASE Batch
  <2>1. PICK n \in 1 .. chunks :
          /\ chunks' = chunks - n
          /\ poll' = "writing" \/ poll' = AfterBatch(chunks - n)
    BY <1>6 DEF Batch
  <2>2. poll' \in {"idle", "writing", "done"}
    BY <2>1 DEF AfterBatch
  <2>3. chunks' \in 0 .. MaxChunks
    <3>1. MaxChunks \in Nat /\ chunks \in Nat /\ chunks <= MaxChunks
      <4>1. chunks \in 0 .. MaxChunks
        BY DEF Simple
      <4> QED BY <4>1, ChunkBound
    <3>2. n \in Nat /\ n <= chunks
      BY <3>1
    <3> QED BY <2>1, <3>1, <3>2
  <2>4. due' = due /\ ended' = ended
    BY <1>6 DEF Batch
  <2> QED BY <2>2, <2>3, <2>4 DEF Simple
<1> QED BY <1>1, <1>2, <1>3, <1>4, <1>5, <1>6 DEF ScreenNext, Poll

\* What is drawn depends on the screen, the flags, the editor and what is kept.
LEMMA SameDrawn ==
    ASSUME Drawn, UNCHANGED <<screen, st, doc, ts>>,
           \/ UNCHANGED <<height, poll>>
           \/ /\ height' \in Heights \cup {0}
              /\ poll # "resizing" /\ poll' # "resizing" /\ (poll' # "idle" => Live)
    PROVE  Drawn'
<1>1. Shape0'
  BY DEF Drawn, Shape0, Flagged, Kept, Live, shown
<1>2. Undrawn' /\ CacheFresh' /\ AltExact'
  BY DEF Drawn, Undrawn, CacheFresh, AltExact, Live, Alt, Rows, RowDirty, RowText, GetText
<1> QED BY <1>1, <1>2 DEF Drawn

\* A screen that goes takes all that was drawn with it.
LEMMA FreedDrawn ==
    ASSUME Freed, ts' = FreshTs, height' \in Heights \cup {0}, poll' = "idle"
    PROVE  Drawn'
<1>1. st' = NoState /\ screen' = <<>>
  BY DEF Freed
<1>2. Shape0'
  BY <1>1, NoStateFlags DEF Shape0, Kept, FreshTs, Flagged
<1>3. ~Live' /\ ~ts'.initialized
  BY <1>1, NoStateFlags DEF Live, FreshTs
<1> QED BY <1>2, <1>3 DEF Drawn, Undrawn, CacheFresh, AltExact

LEMMA StartDrawn ==
    ASSUME Drawn, Start
    PROVE  Drawn'
<1>1. /\ height \in Heights /\ st' = JvtNew(height) /\ ts' = ts /\ height' = height
      /\ poll' = "idle"
  BY DEF Start, Drawn, Shape0, shown
<1>2. Flagged(st') /\ st'.rows = height
  BY <1>1, NewFlags
<1>3. screen' \in Seq(Lines) /\ Len(screen') = height
  BY <1>1, Constants DEF Start
<1>4. Shape0'
  BY <1>1, <1>2, <1>3 DEF Drawn, Shape0, Flagged, Kept
<1>5. ~ts'.initialized
  BY <1>1 DEF Drawn, Undrawn, Start
<1> QED BY <1>4, <1>5 DEF Drawn, Undrawn, CacheFresh, AltExact

\* While the rows move, nothing is promised of what was drawn.
LEMMA FollowSizeDrawn ==
    ASSUME Drawn, FollowSize
    PROVE  Drawn'
<1>1. Shape0'
  BY DEF FollowSize, Drawn, Shape0, Flagged, Kept, Live, shown
<1> QED BY <1>1 DEF FollowSize, Drawn, Undrawn, CacheFresh, AltExact, Live

LEMMA MoveLineDrawn ==
    ASSUME Drawn, MoveLine
    PROVE  Drawn'
<1>1. screen \in Seq(Lines) /\ height \in Nat /\ Blank \in Lines
  BY Constants DEF Drawn, Shape0
<1>2. screen' \in Seq(Lines)
  <2>1. CASE Len(screen) > height /\ screen' = Front(screen)
    BY <1>1, <2>1 DEF Front
  <2>2. CASE Len(screen) > height /\ screen' = Tail(screen)
    BY <1>1, <2>2
  <2>3. CASE screen' = Append(screen, Blank)
    BY <1>1, <2>3
  <2>4. CASE \E row \in Lines : screen' = <<row>> \o screen
    BY <1>1, <2>4
  <2> QED BY <2>1, <2>2, <2>3, <2>4 DEF MoveLine, MoveRow
<1>3. Shape0'
  BY <1>2 DEF MoveLine, Drawn, Shape0, Flagged, Kept, Live, shown
<1> QED BY <1>3 DEF MoveLine, Drawn, Undrawn, CacheFresh, AltExact, Live

LEMMA ResizedDrawn ==
    ASSUME Drawn, Resized
    PROVE  Drawn'
<1>1. /\ height \in Heights /\ st' = JvtResize(st, height) /\ height' = height
      /\ screen' = screen /\ Len(screen) = height /\ poll' = "idle"
      /\ ts' = [ts EXCEPT !.cache = NULL, !.initialized = FALSE]
  BY DEF Resized, Drawn, Shape0, shown
<1>2. Flagged(st') /\ st'.rows = height
  BY <1>1, ResizedFlags DEF Drawn, Shape0
<1>3. Kept' /\ ~ts'.initialized
  BY <1>1 DEF Drawn, Shape0, Kept
<1>4. Shape0'
  BY <1>1, <1>2, <1>3 DEF Drawn, Shape0, Flagged
<1> QED BY <1>3, <1>4 DEF Drawn, Undrawn, CacheFresh, AltExact

\* What is saved as the text before the screen is nothing that was drawn of it.
LEMMA BatchDrawn ==
    ASSUME Drawn, Batch
    PROVE  Drawn'
<1>1. Live /\ poll = "idle" /\ UNCHANGED <<screen, st, doc, height>>
  BY DEF Batch, Draining
<1>2. CASE shown
  <2>1. ts' = SavePre(ts) /\ poll' = "writing"
    BY <1>2 DEF Batch
  <2>2. Kept' /\ ts'.cache = ts.cache /\ ts'.initialized = ts.initialized
    BY <2>1 DEF Drawn, Shape0, Kept, SavePre
  <2>3. Shape0'
    BY <1>1, <2>1, <2>2 DEF Drawn, Shape0, Flagged, Live
  <2>4. Undrawn' /\ CacheFresh' /\ AltExact'
    BY <1>1, <2>1, <2>2
       DEF Drawn, Undrawn, CacheFresh, AltExact, Live, Alt, Rows, RowDirty, RowText, GetText
  <2> QED BY <2>3, <2>4 DEF Drawn
<1>3. CASE ~shown
  <2>1. ts' = ts /\ poll' \in {"idle", "done"}
    BY <1>3 DEF Batch, AfterBatch
  <2>2. height' \in Heights \cup {0}
    BY <1>1 DEF Drawn, Shape0
  <2> QED BY <1>1, <2>1, <2>2, SameDrawn
<1> QED BY <1>2, <1>3

LEMMA WriteDrawn ==
    ASSUME Drawn, Written
    PROVE  Drawn'
<1>1. PICK new \in Contents, alt \in BOOLEAN :
        LET changed == {r \in Rows : alt # Alt \/ new[r + 1] # screen[r + 1]} IN
        /\ Len(new) = st.rows
        /\ screen' = new
        /\ st' = IF changed = {} THEN st ELSE CbDamage(CbSetTermProp(st, alt), changed)
  BY DEF Written, JvtWrite
<1> DEFINE changed == {r \in Rows : alt # Alt \/ new[r + 1] # screen[r + 1]}
           j == CbSetTermProp(st, alt)
<1>0. poll = "writing" /\ poll' = "events" /\ UNCHANGED <<doc, height, ts>>
  BY DEF Written
<1>2. Flagged(st) /\ st.rows \in Nat /\ st.rows > 0 /\ screen \in Seq(Lines)
      /\ Len(screen) = st.rows
  BY <1>0, Counted DEF Drawn, Shape0, Live
<1>3. screen' \in Seq(Lines) /\ Len(screen') = st.rows
  BY <1>1, <1>2, Constants
<1>4. Kept' /\ ts' = ts
  BY <1>0 DEF Drawn, Shape0, Kept
<1>5. CASE changed = {}
  <2>1. st' = st
    BY <1>1, <1>5
  <2>2. \A i \in 1 .. st.rows : new[i] = screen[i]
    <3> SUFFICES ASSUME NEW i \in 1 .. st.rows PROVE new[i] = screen[i]
      OBVIOUS
    <3>1. i - 1 \in Rows /\ (i - 1) + 1 = i
      BY <1>2 DEF Rows, Range0
    <3> QED BY <1>5, <3>1
  <2>3. screen' = screen
    BY <1>1, <1>2, <1>3, <2>2, SameSeq
  <2>4. Live /\ height' \in Heights \cup {0}
    BY <1>0, <1>2 DEF Drawn, Shape0, Live
  <2> QED BY <1>0, <2>1, <2>3, <2>4, SameDrawn
<1>6. CASE changed # {}
  <2>1. j = [rows |-> st.rows, dirty |-> st.dirty, any_damage |-> st.any_damage,
             is_altscreen |-> alt, overrun |-> st.overrun] /\ st.overrun = FALSE
    BY <1>2, Parts DEF CbSetTermProp, Flagged, State
  <2>2. Flagged(j) /\ j.rows = st.rows /\ j.dirty = st.dirty
    BY <1>2, <2>1 DEF Flagged, State
  <2>3. changed \in SUBSET Range0(j.rows)
    BY <2>2 DEF Rows
  <2>4. st' = CbDamage(j, changed)
    BY <1>1, <1>6
  <2> HIDE DEF j, changed
  <2>5. /\ Flagged(st') /\ st'.rows = st.rows /\ st'.any_damage
        /\ st'.dirty = [r \in Range0(st.rows) |-> st.dirty[r] \/ r \in changed]
    BY <1>6, <2>2, <2>3, <2>4, Damaged, DamagedFlags
  <2>6. Shape0'
    BY <1>0, <1>2, <1>3, <1>4, <2>5 DEF Drawn, Shape0, Flagged, Live
  <2>7. CacheFresh'
    <3> SUFFICES ASSUME ts.initialized
                 PROVE  /\ DOMAIN ts.cache = Rows'
                        /\ \A r \in Rows' : ~st'.dirty[r] => ts.cache[r] = screen'[r + 1]
      BY <1>4 DEF CacheFresh, RowDirty, RowText
    <3>1. Rows' = Rows /\ Rows = Range0(st.rows)
      BY <2>5 DEF Rows
    <3>2. DOMAIN ts.cache = Rows /\ \A r \in Rows : ~st.dirty[r] => ts.cache[r] = screen[r + 1]
      BY <1>0, <1>2 DEF Drawn, CacheFresh, RowDirty, RowText, Live
    <3>3. \A r \in Rows : r \notin changed => new[r + 1] = screen[r + 1]
      BY DEF changed
    <3> QED BY <1>1, <2>5, <3>1, <3>2, <3>3
  <2> QED BY <1>2, <1>4, <2>5, <2>6, <2>7 DEF Drawn, Undrawn, AltExact, Live
<1> QED BY <1>5, <1>6

\* After a draw nothing is flagged, and the rows are those of the cache.
LEMMA DrawDrawn ==
    ASSUME Drawn, poll = "events", poll' \in {"idle", "done"}, UNCHANGED <<screen, height>>,
           \/ DrawAll
           \/ ts.initialized /\ st.any_damage /\ Diff
    PROVE  Drawn'
<1>1. /\ Flagged(st) /\ screen \in Seq(Lines) /\ Len(screen) = st.rows
      /\ height \in Heights \cup {0} /\ Kept /\ Live
  BY DEF Drawn, Shape0
<1>2. st' = ClearDamage(st)
  BY DEF DrawAll, Diff
<1>3. /\ Flagged(st') /\ st'.rows = st.rows /\ st'.is_altscreen = st.is_altscreen
      /\ ~st'.any_damage /\ \A r \in Rows : ~st'.dirty[r]
  BY <1>1, <1>2, ClearedFlags DEF Rows
<1>4. Rows' = Rows /\ AllRows = [r \in Rows |-> screen[r + 1]] /\ GetText' = GetText
  BY <1>3 DEF Rows, AllRows, RowText, GetText
<1>5. CASE DrawAll
  <2>1. ts' = [ts EXCEPT !.cache = AllRows, !.initialized = TRUE]
    BY <1>5 DEF DrawAll
  <2>2. Kept' /\ ts'.cache = AllRows
    BY <1>1, <2>1 DEF Kept
  <2>3. Alt => doc' = GetText
    BY <1>5 DEF DrawAll, Joined
  <2> QED BY <1>1, <1>3, <1>4, <2>2, <2>3
         DEF Drawn, Shape0, Flagged, Undrawn, CacheFresh, AltExact, Live, Alt, RowText
<1>6. CASE ts.initialized /\ st.any_damage /\ Diff
  <2>1. Dirty # {}
    BY <1>1, <1>6 DEF Flagged, Dirty, Rows, RowDirty
  <2>2. DOMAIN ts.cache = Rows /\ \A r \in Rows : ~st.dirty[r] => ts.cache[r] = screen[r + 1]
    BY <1>1, <1>6 DEF Drawn, CacheFresh, RowDirty, RowText
  <2>3. Kept' /\ ts'.initialized = ts.initialized /\ ts'.cache = AllRows
        /\ (Alt => doc' = GetText)
    <3>1. CASE DiffAll
      BY <1>1, <3>1 DEF DiffAll, Kept, Joined
    <3>2. CASE DiffLines
      <4> DEFINE changed == {r \in Dirty : RowText(r) # ts.cache[r]}
                 cache == [r \in Rows |-> IF r \in changed THEN RowText(r) ELSE ts.cache[r]]
      <4>1. ts' = [ts EXCEPT !.cache = cache] /\ ~Alt
        BY <3>2 DEF DiffLines
      <4>2. \A r \in Rows : cache[r] = screen[r + 1]
        BY <2>2 DEF Dirty, RowDirty, RowText
      <4>3. cache = AllRows
        BY <1>4, <4>2
      <4> QED BY <1>1, <4>1, <4>3 DEF Kept
    <3> QED BY <1>6, <2>1, <3>1, <3>2 DEF Diff
  <2> QED BY <1>1, <1>3, <1>4, <1>6, <2>3
         DEF Drawn, Shape0, Flagged, Undrawn, CacheFresh, AltExact, Live, Alt, RowText
<1> QED BY <1>5, <1>6

LEMMA DrawnStep == Drawn /\ [ScreenNext]_screenVars => Drawn'
<1> SUFFICES ASSUME Drawn, [ScreenNext]_screenVars PROVE Drawn'
  OBVIOUS
<1>0. height \in Heights \cup {0}
  BY DEF Drawn, Shape0
<1>1. CASE Start
  BY <1>1, StartDrawn
<1>2. CASE Post \/ UseRing \/ Clock \/ Scroll \/ UNCHANGED screenVars
  BY <1>2, SameDrawn DEF Post, UseRing, Clock, Scroll, screenVars
<1>3. CASE ResizeWindow \/ UseWindow \/ Flush
  <2>1. poll # "idle" => Live
    BY DEF Drawn, Shape0
  <2> QED BY <1>0, <1>3, <2>1, SameDrawn DEF ResizeWindow, UseWindow, Flush, Draining
<1>4. CASE Kill \/ Done
  BY <1>0, <1>4, FreedDrawn DEF Kill, Done
<1>5. CASE FollowSize \/ MoveLine \/ Resized \/ Batch \/ Written
  BY <1>5, FollowSizeDrawn, MoveLineDrawn, ResizedDrawn, BatchDrawn, WriteDrawn
<1>6. CASE Draw
  <2>1. poll = "events" /\ poll' \in {"idle", "done"} /\ Live
    BY <1>6 DEF Draw, AfterBatch, Drawn, Shape0
  <2>2. CASE UNCHANGED <<doc, ts, st>>
    BY <1>0, <1>6, <2>1, <2>2, SameDrawn DEF Draw
  <2>3. CASE ~ UNCHANGED <<doc, ts, st>>
    BY <1>6, <2>1, <2>3, DrawDrawn DEF Draw
  <2> QED BY <2>2, <2>3
<1> QED BY <1>1, <1>2, <1>3, <1>4, <1>5, <1>6 DEF ScreenNext, Poll

LEMMA SInvStep == SInv /\ [ScreenNext]_screenVars => SInv'
<1> SUFFICES ASSUME SInv, [ScreenNext]_screenVars PROVE SInv'
  OBVIOUS
<1>1. IInv'
  BY RingStep, NextInv DEF SInv, Drawn
<1> QED BY <1>1, SimpleStep, DrawnStep DEF SInv

LEMMA ScreenInvariant == ScreenSpec => []SInv
BY InitSInv, SInvStep, PTL DEF ScreenSpec

------------------------------------------------------------------------------
\* The flags are those of the rows and none is written outside their array, by
\* whatever number of rows a resize changes them and in any order of resizes and
\* output.
THEOREM ScreenTypeCorrect == ScreenSpec => []ScreenTypeOK
<1>1. SInv => ScreenTypeOK
  <2> SUFFICES ASSUME SInv PROVE ScreenTypeOK
    OBVIOUS
  <2>1. DOMAIN st.dirty = Rows /\ ~st.overrun
    BY DEF SInv, Drawn, Shape0, Flagged, State, Rows
  <2> QED BY <2>1 DEF SInv, IInv, Simple, Drawn, Shape0, ScreenTypeOK
<1> QED BY <1>1, ScreenInvariant, PTL

\* A row whose flag is clear has the text that was drawn, whatever came between.
THEOREM CacheCorrect == ScreenSpec => []CacheFresh
<1>1. SInv => CacheFresh
  BY DEF SInv, Drawn
<1> QED BY <1>1, ScreenInvariant, PTL

\* A full-screen program is shown exactly once there is no damage.
THEOREM AltCorrect == ScreenSpec => []AltExact
<1>1. SInv => AltExact
  BY DEF SInv, Drawn
<1> QED BY <1>1, ScreenInvariant, PTL

\* The screen uses its ring as the ring allows: it keeps the newest lines in
\* order and owns their texts.
THEOREM ScreenKeepsLog == ScreenSpec => LogSpec /\ []TextsOwned
<1>1. SInv /\ [ScreenNext]_screenVars => [Next]_vars
  BY RingStep DEF SInv, Drawn
<1>2. ScreenInit => Init
  BY DEF ScreenInit
<1>3. ScreenSpec => Spec
  BY <1>1, <1>2, ScreenInvariant, PTL DEF ScreenSpec, Spec
<1> QED BY <1>3, RefinesBoundedLog, TextsCorrect
================================================================================

----------------------------- MODULE Scrollback ------------------------------
(***************************************************************************)
(* The scrollback ring of support/vterm_shim.c (struct JvtScrollback).     *)
(*                                                                         *)
(* A ring of max_lines slots holds the text of `count' lines, the oldest   *)
(* at `head'.  Texts are heap blocks: a slot holds a text or NULL, and     *)
(* `lost' counts the blocks that were dropped without a free.  libvterm    *)
(* pushes a line when one scrolls off the screen and pops one when a       *)
(* resize makes room; the wrapper clears the ring or changes its size.     *)
(***************************************************************************)
EXTENDS Integers, Sequences, FiniteSets

CONSTANTS
    Lines,      \* the texts of lines
    NULL,       \* the empty slot
    Default,    \* JVT_DEFAULT_SCROLLBACK
    Sizes       \* bound: the sizes given to jvt_scrollback_set_max

ASSUME ScrollbackAssumption ==
    /\ NULL \notin Lines
    /\ Default \in Nat \ {0}
    /\ Sizes \subseteq Nat

VARIABLES
    lines,      \* lines[i]: the text of slot i
    max_lines,  \* capacity of the ring
    count,      \* lines stored
    head,       \* slot of the oldest line
    lost        \* history: some text became unreachable without a free

ring == <<lines, max_lines, count, head>>
vars == <<ring, lost>>

\* scrollback_init: calloc'ed slots.
Empty(m) == [i \in 0 .. m - 1 |-> NULL]

\* The slot of the i-th oldest line, from 0.
Slot(i) == (head + i) % max_lines

Init ==
    /\ max_lines = Default
    /\ lines = Empty(Default)
    /\ count = 0
    /\ head = 0
    /\ lost = FALSE

\* scrollback_push, called by cb_sb_pushline: fills the slot after the newest
\* line, or frees the oldest text and takes its slot.
Push(l) ==
    LET i == IF count < max_lines THEN Slot(count) ELSE head IN
    /\ lines' = [lines EXCEPT ![i] = l]
    /\ IF count < max_lines
         THEN /\ count' = count + 1
              /\ head' = head
              /\ lost' = (lost \/ lines[i] # NULL)
         ELSE /\ head' = (head + 1) % max_lines
              /\ UNCHANGED <<count, lost>>
    /\ UNCHANGED max_lines

PopKeepingText ==
    /\ count # 0
    /\ count' = count - 1
    /\ UNCHANGED <<lines, max_lines, head, lost>>

\* scrollback_pop, called by cb_sb_popline: frees the newest text.
Pop ==
    /\ count # 0
    /\ count' = count - 1
    /\ lines' = [lines EXCEPT ![Slot(count - 1)] = NULL]
    /\ UNCHANGED <<max_lines, head, lost>>

\* scrollback_get: the line of an index counted from the newest.
Get(i) == lines[(head + count - 1 - i) % max_lines]

\* jvt_scrollback_clear: every slot is freed; the ring gets its default size.
Clear ==
    /\ max_lines' = Default
    /\ lines' = Empty(Default)
    /\ count' = 0
    /\ head' = 0
    /\ UNCHANGED lost

SetMaxKeepingOldest(m) ==
    LET n == IF count > m THEN m ELSE count IN
    /\ m > 0
    /\ max_lines' = m
    /\ lines' = [i \in 0 .. m - 1 |-> IF i < n THEN Get(count - 1 - i) ELSE NULL]
    /\ count' = n
    /\ head' = 0
    /\ UNCHANGED lost

\* jvt_scrollback_set_max: a new ring receives copies of the newest lines,
\* oldest first, and the old one is freed.
SetMax(m) ==
    LET n == IF count > m THEN m ELSE count IN
    /\ m > 0
    /\ max_lines' = m
    /\ lines' = [i \in 0 .. m - 1 |-> IF i < n THEN Get(n - 1 - i) ELSE NULL]
    /\ count' = n
    /\ head' = 0
    /\ UNCHANGED lost

Next ==
    \/ \E l \in Lines : Push(l)
    \/ Pop
    \/ Clear
    \/ \E m \in Sizes : SetMax(m)

Spec == Init /\ [][Next]_vars

------------------------------------------------------------------------------
(* Properties.                                                             *)

\* Every variable has its type, and the indices stay inside the ring.
TypeOK ==
    /\ max_lines \in Nat \ {0}
    /\ lines \in [0 .. max_lines - 1 -> Lines \cup {NULL}]
    /\ count \in 0 .. max_lines
    /\ head \in 0 .. max_lines - 1
    /\ lost \in BOOLEAN

Stored == {Slot(i) : i \in 0 .. count - 1}

\* The slots that own a text are exactly those of the stored lines, so that a
\* line that is read or freed exists, and no text is ever leaked
\* (vterm_shim.c scrollback_push, scrollback_pop).
TextsOwned ==
    /\ \A i \in 0 .. max_lines - 1 : lines[i] # NULL <=> i \in Stored
    /\ ~lost

\* The lines from the oldest to the newest.
Log == [i \in 1 .. count |-> lines[Slot(i - 1)]]

\* The ring is a bounded log, whatever the order of pushes, pops, clears and
\* changes of size.
Bounded == INSTANCE BoundedLog WITH log <- Log, limit <- max_lines
LogSpec == Bounded!Spec
==============================================================================

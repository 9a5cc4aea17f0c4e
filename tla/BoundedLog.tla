------------------------------ MODULE BoundedLog -----------------------------
(***************************************************************************)
(* What a terminal's scrollback promises: a log of the lines that left the *)
(* top of the screen, oldest first, that keeps the newest `limit' of them  *)
(* and gives its newest line back when the screen grows again.             *)
(***************************************************************************)
EXTENDS Naturals, Sequences

CONSTANTS
    Lines,      \* the texts a line can hold
    Default,    \* the limit of a new or cleared log
    Sizes       \* the limits that may be set

VARIABLES
    log,        \* the lines kept, oldest first
    limit       \* how many may be kept

logVars == <<log, limit>>

Newest(s, n) == SubSeq(s, Len(s) - n + 1, Len(s))

Init == log = <<>> /\ limit = Default

Push(l) ==
    /\ log' = IF Len(log) < limit THEN Append(log, l) ELSE Append(Tail(log), l)
    /\ UNCHANGED limit

Pop ==
    /\ log # <<>>
    /\ log' = SubSeq(log, 1, Len(log) - 1)
    /\ UNCHANGED limit

Clear == log' = <<>> /\ limit' = Default

SetLimit(m) ==
    /\ m > 0
    /\ limit' = m
    /\ log' = IF Len(log) <= m THEN log ELSE Newest(log, m)

Next ==
    \/ \E l \in Lines : Push(l)
    \/ Pop
    \/ Clear
    \/ \E m \in Sizes : SetLimit(m)

Spec == Init /\ [][Next]_logVars
==============================================================================

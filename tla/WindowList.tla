----------------------------- MODULE WindowList ------------------------------
(***************************************************************************)
(* What the window commands promise: an ordered list of windows, one of    *)
(* them selected.  Splitting puts a new window after the selected one and  *)
(* selects it; deleting removes the selected window and leaves the others  *)
(* in order; there is always a window.                                     *)
(***************************************************************************)
EXTENDS Naturals, Sequences, SequencesExt

CONSTANT Windows        \* every window there can be

VARIABLES
    list,       \* the windows in order
    selected    \* index of the selected window, from 0

listVars == <<list, selected>>

Selected == list[selected + 1]

Init == selected = 0 /\ \E w \in Windows : list = <<w>>

Split(w) ==
    /\ w \notin ToSet(list)
    /\ list' = InsertAt(list, selected + 2, w)
    /\ selected' = selected + 1

Delete ==
    /\ Len(list) > 1
    /\ list' = RemoveAt(list, selected + 1)
    /\ selected' = IF selected = Len(list) - 1 THEN selected - 1 ELSE selected

DeleteOthers == list' = <<Selected>> /\ selected' = 0

Select(i) == i < Len(list) /\ selected' = i /\ UNCHANGED list

Next ==
    \/ \E w \in Windows : Split(w)
    \/ Delete
    \/ DeleteOthers
    \/ \E i \in 0 .. Len(list) - 1 : Select(i)

Spec == Init /\ [][Next]_listVars
==============================================================================

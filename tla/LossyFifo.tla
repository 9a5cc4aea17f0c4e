------------------------------ MODULE LossyFifo ------------------------------
(***************************************************************************)
(* What the editor promises a background worker about the actions it posts *)
(* to the UI thread: each worker has a link of its own to the UI thread,   *)
(* on which an action may be lost, but none is duplicated, invented or     *)
(* overtaken by a later action of the same worker.                         *)
(*                                                                         *)
(* Nothing is promised between two workers.                                *)
(***************************************************************************)
EXTENDS Naturals

CONSTANT Workers

VARIABLES
    sent,   \* sent[w]: how many actions worker w has posted so far
    got     \* got[w]: the last action of w that was started, 0 before the first

linkVars == <<sent, got>>

Init ==
    /\ sent = [w \in Workers |-> 0]
    /\ got  = [w \in Workers |-> 0]

\* A worker posts its next action.
Send(w) ==
    /\ sent' = [sent EXCEPT ![w] = @ + 1]
    /\ UNCHANGED got

\* The UI thread starts an action of w: a posted one, later than every action
\* of w started before it.  The actions it jumps over are lost.
Deliver(w) ==
    /\ \E n \in (got[w] + 1) .. sent[w] : got' = [got EXCEPT ![w] = n]
    /\ UNCHANGED sent

Next == \E w \in Workers : Send(w) \/ Deliver(w)

Spec == Init /\ [][Next]_linkVars
==============================================================================

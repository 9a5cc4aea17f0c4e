------------------------------ MODULE MCUiQueue ------------------------------
(* Instances of UiQueue for TLC: a stream of two lines and two one-shot     *)
(* workers on a channel of two places, batches of two, two nested drains.   *)
EXTENDS UiQueue

CONSTANTS s1, r1, r2

MCWorkers == {s1, r1, r2}
MCStreams == {s1}
==============================================================================

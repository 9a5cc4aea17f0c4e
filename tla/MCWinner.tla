------------------------------ MODULE MCWinner -------------------------------
(* Instances of Winner for TLC: three or four windows, two buffers, a history *)
(* of two configurations.                                                     *)
EXTENDS Winner
==============================================================================

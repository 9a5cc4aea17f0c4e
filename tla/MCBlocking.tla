------------------------------ MODULE MCBlocking -----------------------------
(* Instances of Blocking for TLC: three threads and a first buffer of two    *)
(* bytes, for outputs that fill it and make it double.                       *)
EXTENDS Blocking
==============================================================================

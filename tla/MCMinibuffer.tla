---------------------------- MODULE MCMinibuffer -----------------------------
(* Instances of Minibuffer for TLC.                                        *)
EXTENDS Minibuffer
==============================================================================

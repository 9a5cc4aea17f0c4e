------------------------------ MODULE MCQtFrame ------------------------------
(* Instances of QtFrame for TLC: up to five windows, a terminal and two other *)
(* buffers.                                                                   *)
EXTENDS QtFrame
==============================================================================

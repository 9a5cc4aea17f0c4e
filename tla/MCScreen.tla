------------------------------- MODULE MCScreen -------------------------------
(* Instances of Screen for TLC: screens of one and three rows, rings of one   *)
(* and two slots.                                                            *)
EXTENDS Screen

CONSTANTS a, blank

\* Each follows another with one row changed, with two, and with all.
MCContents ==
    {<<blank>>, <<a>>,
     <<blank, blank, blank>>, <<a, blank, blank>>, <<blank, a, a>>}
===============================================================================

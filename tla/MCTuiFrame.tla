----------------------------- MODULE MCTuiFrame ------------------------------
(* Instances of TuiFrame for TLC: four windows on a roomy and on a cramped   *)
(* terminal.                                                                 *)
EXTENDS TuiFrame

MCScreens == {<<17, 9>>, <<10, 5>>}
==============================================================================

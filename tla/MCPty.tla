-------------------------------- MODULE MCPty --------------------------------
(* Two terminals, two commands and two descriptors.                      *)
EXTENDS Pty
CONSTANTS t1, t2
==============================================================================

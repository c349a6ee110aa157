------------------------------- MODULE MCRing -------------------------------
(* The ring of four devices, with counts of eight bits, that wrap.         *)
EXTENDS Ring

Four == 0 .. 3
Clockwise == [d \in Dev |-> (d + 1) % 4]
=============================================================================

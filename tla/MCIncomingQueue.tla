--------------------------- MODULE MCIncomingQueue ---------------------------
(* Instances of IncomingQueue for TLC.                                      *)
EXTENDS IncomingQueue

CONSTANTS g1, g2, m1, c1, c2
=============================================================================

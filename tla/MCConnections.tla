--------------------------- MODULE MCConnections ---------------------------
(* Instances of Connections for TLC.                                       *)
EXTENDS Connections

CONSTANTS r1, r2, t1, i1, i2
=============================================================================

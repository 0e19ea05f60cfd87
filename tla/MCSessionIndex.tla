--------------------------- MODULE MCSessionIndex ---------------------------
(* A few lines, some of which fill a segment.                               *)
EXTENDS SessionIndex

NoFaults == {}
TornWrites == {"torn"}

=============================================================================

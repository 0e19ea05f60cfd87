---------------------------- MODULE MCSessionLog ----------------------------
(* A few lines, some of which fill a segment.                               *)
EXTENDS SessionLog

TornWrites == {"torn"}
LateManifest == {"rotate"}

=============================================================================

----------------------------- MODULE MCControl -----------------------------
(* Instances of ControlEngine: see the .cfg files.                         *)
EXTENDS ControlEngine

CONSTANTS c1, c2

=============================================================================

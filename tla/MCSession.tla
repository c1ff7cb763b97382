----------------------------- MODULE MCSession -----------------------------
(* Instances of Session: see the .cfg files.                               *)
EXTENDS Session

CONSTANTS t1, t2

=============================================================================

-------------------------- MODULE MCControlClient --------------------------
(* Instances of ControlClient: see the .cfg files.                         *)
EXTENDS ControlClient, TLC

CONSTANTS c1, c2

Symmetry == Permutations(Conns)

=============================================================================

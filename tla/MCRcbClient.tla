---------------------------- MODULE MCRcbClient ----------------------------
(* Instances of RcbClient: see the .cfg files.                             *)
EXTENDS RcbClient

CONSTANTS c1, c2, c3

(* c1 and c2 are two connections of one station, c3 of another.            *)
MCAddress == [c \in Conns |-> IF c = c3 THEN "B" ELSE "A"]

(* One of the stations wants changes gathered, the other does not.         *)
MCWanted == [c \in Conns |-> [BufTm |-> IF c = c3 THEN 0 ELSE 1]]

OneLeaf == [ds |-> <<"x">>]

Gathering == [DatSet |-> {"ds"}, BufTm |-> {0, 1}, TrgOps |-> {{"dchg", "gi"}},
              IntgPd |-> {0}]

=============================================================================

---------------------------- MODULE MCReporting ----------------------------
(* Instances of Reporting: see the .cfg files.                             *)
EXTENDS Reporting, TLC

CONSTANTS c1, c2, c3

(* c1 and c2 are two connections of one station, c3 of another.            *)
MCAddress == [c \in Conns |-> IF c = c3 THEN "B" ELSE "A"]

(* Connections of one station can be exchanged.                            *)
Symmetry == Permutations({c1, c2})

OneLeaf == [ds |-> <<"x">>]
TwoDataSets == [ds |-> <<"x", "y">>, other |-> <<"y">>]

(* ResvTms: -1 is a reservation without a time, 1 stands for any time.     *)
AnyResvTms == {-1, 0, 1}

(* The values a block's configuration takes in a run.                      *)
Direct == [DatSet |-> {"ds"}, BufTm |-> {0},
           TrgOps |-> {{"dchg", "gi", "integrity"}}, IntgPd |-> {1}]
Changing == [DatSet |-> {"ds"}, BufTm |-> {0}, TrgOps |-> {{"dchg"}},
             IntgPd |-> {0}]
Gathering == [DatSet |-> {"ds"}, BufTm |-> {0, 1},
              TrgOps |-> {{"dchg", "gi", "integrity"}}, IntgPd |-> {1}]
Rewritten == [DatSet |-> {"ds", "other"}, BufTm |-> {0, 1},
              TrgOps |-> {{"dchg", "gi", "integrity"}}, IntgPd |-> {1}]

=============================================================================

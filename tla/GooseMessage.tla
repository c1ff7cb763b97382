---------------------------- MODULE GooseMessage ----------------------------
(* A GOOSE message as its publisher and its supervision see it (goose.py): *)
(* stNum, sqNum, timeAllowedtoLive, allData, and the rest, which is one    *)
(* value as long as the publisher's GooseControl is the same.              *)
EXTENDS Naturals

CONSTANT NumMax  \* _UINT32_MAX

ASSUME NumMaxAssumption == NumMax \in Nat \ {0, 1}

Num == 0 .. NumMax
Frame == [st : Num, sq : Num, tal : Nat, values : Nat, control : Nat]

=============================================================================

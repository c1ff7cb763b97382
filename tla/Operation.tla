----------------------------- MODULE Operation -----------------------------
(***************************************************************************)
(* What the control service promises of one controllable object            *)
(* (server/control.py's docstring): it is selected by one client at a      *)
(* time; a command is accepted when none is in hand, in the                *)
(* select-before-operate models from the client that selected it, and uses *)
(* up the selection; its order is given at most once, and then or without  *)
(* it the command ends.                                                    *)
(***************************************************************************)
CONSTANTS Conns, None, SboModels

VARIABLES
    model,     \* the control model
    selected,  \* the client that has selected the object, or None
    current,   \* the command in hand, or None
    ordered    \* its order has been given

ovars == <<model, selected, current, ordered>>

Select(c) ==
    /\ selected \in {None, c}
    /\ selected' = c
    /\ UNCHANGED <<model, current, ordered>>

Deselect ==
    /\ selected' = None
    /\ UNCHANGED <<model, current, ordered>>

\* current' may be None: a command that ends at once.
Accept(c) ==
    /\ current = None
    /\ model \in SboModels => selected = c
    /\ selected' = None
    /\ model' = model
    /\ current' = None => ~ordered'

Order ==
    /\ current # None
    /\ ~ordered
    /\ ordered' = TRUE
    /\ UNCHANGED <<model, selected, current>>

End ==
    /\ current # None
    /\ current' = None
    /\ ordered' = FALSE
    /\ UNCHANGED <<model, selected>>

Reconfigure == UNCHANGED <<selected, current, ordered>>

OperationNext ==
    \/ \E c \in Conns : Select(c) \/ Accept(c)
    \/ Deselect \/ Order \/ End \/ Reconfigure

OperationSpec ==
    /\ selected = None /\ current = None /\ ordered = FALSE
    /\ [][OperationNext]_ovars

=============================================================================

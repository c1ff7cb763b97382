SPECIFICATION Spec
CONSTANTS
    None = None
    Conns = {c1, c2}
    NumOfSG = 2
    Keys = {k, l}
    Vals = {v, w}
    Whole = {"SE", "SP"}
SYMMETRY Symmetry
INVARIANT BlockSound
PROPERTIES ConfirmedByEditor EditIsLease

SPECIFICATION Spec
CONSTANTS
    c1 = c1
    c2 = c2
    c3 = c3
    None = None
    Conns = {c1, c2}
    Address <- MCAddress
    Setters = {"s1"}
    Leaves = {"x", "y"}
    DataSets <- TwoDataSets
    ConfigValues <- Rewritten
    Buffered = TRUE
    ResvTmsValues = {}
    MaxEntries = 2
    MaxBytes = 3
    SqMod = 1
    MaxChanges = 2
    MaxAsked = 2
    MaxTimers = 1
INVARIANTS SessionContiguous BufferContiguous OverflowExact BytesExact
SYMMETRY Symmetry
CHECK_DEADLOCK FALSE

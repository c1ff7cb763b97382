SPECIFICATION ClientSpec
CONSTANTS
    c1 = c1
    c2 = c2
    c3 = c3
    None = None
    Conns = {c1, c2, c3}
    Address <- MCAddress
    Wanted <- MCWanted
    ResvTms = 1
    Setters = {"s1"}
    Leaves = {"x"}
    DataSets <- OneLeaf
    ConfigValues <- Gathering
    Buffered = TRUE
    ResvTmsValues = {0, 1}
    MaxEntries = 1
    MaxBytes = 1
    SqMod = 2
    MaxChanges = 1
    MaxAsked = 2
    MaxTimers = 1
INVARIANTS StatusIsTrue DoneAsAsked
CHECK_DEADLOCK FALSE

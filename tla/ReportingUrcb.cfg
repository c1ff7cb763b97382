SPECIFICATION FairSpec
CONSTANTS
    c1 = c1
    c2 = c2
    c3 = c3
    None = None
    Conns = {c1}
    Address <- MCAddress
    Setters = {"s1", "s2"}
    Leaves = {"x"}
    DataSets <- OneLeaf
    ConfigValues <- Gathering
    Buffered = FALSE
    ResvTmsValues = {}
    MaxEntries = 2
    MaxBytes = 3
    SqMod = 3
    MaxChanges = 3
    MaxAsked = 3
    MaxTimers = 2
INVARIANT UpToDate
PROPERTY ChangeReported
CHECK_DEADLOCK FALSE

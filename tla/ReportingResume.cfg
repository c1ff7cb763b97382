SPECIFICATION SpecResume
CONSTANTS
    c1 = c1
    c2 = c2
    c3 = c3
    None = None
    Conns = {c1}
    Address <- MCAddress
    Setters = {"s1"}
    Leaves = {"x"}
    DataSets <- OneLeaf
    ConfigValues <- Changing
    Buffered = TRUE
    ResvTmsValues = {0, 1}
    MaxEntries = 3
    MaxBytes = 3
    SqMod = 3
    MaxChanges = 3
    MaxAsked = 1
    MaxTimers = 2

PROPERTY ResumesAfterEntryID
CHECK_DEADLOCK FALSE

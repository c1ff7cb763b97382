SPECIFICATION FairSpec
CONSTANTS
    c1 = c1
    c2 = c2
    c3 = c3
    None = None
    Conns = {c1, c2, c3}
    Address <- MCAddress
    Setters = {"s1"}
    Leaves = {"x"}
    DataSets <- OneLeaf
    ConfigValues <- Direct
    Buffered = TRUE
    ResvTmsValues <- AnyResvTms
    MaxEntries = 1
    MaxBytes = 1
    SqMod = 2
    MaxChanges = 0
    MaxAsked = 2
    MaxTimers = 2
INVARIANT ReservationSound
PROPERTIES ReservationIsLease LeaverLetsGo
CHECK_DEADLOCK FALSE

SPECIFICATION FairSpec
CONSTANTS
    t1 = t1
    t2 = t2
    None = None
    Threads = {t1, t2}
    Slots = 1
    ListenersFail = TRUE
    MaxRequests = 2
    Room = 1
    MaxQueued = 3
    MaxSent = 1
INVARIANTS QueueExact CallsExact OwnAnswer
PROPERTIES ImplementsConnection RequestEnds ClosedIsForgotten
CHECK_DEADLOCK FALSE

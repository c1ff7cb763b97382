SPECIFICATION Spec
CONSTANTS
    NumMax = 3
    MaxTime = 2
    TalFactor = 3
    MaxPublish = 2
    MaxHeld = 2
    Window = 2
    Faults = {"loss", "repetition", "reordering"}
    MaxLost = 2
    MaxTrouble = 2
    MaxClock = 7
INVARIANTS CurrentIsSent NoFalseAlarm StreamSound
CHECK_DEADLOCK FALSE

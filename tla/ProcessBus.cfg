SPECIFICATION Spec
CONSTANTS
    Rate = 12
    Asdus = 2
    StartSecond = 3
    Rows = 12
    PlaySmp = 3
    Repeat = 2
    Cycle = 2
    Offset = 0
    FaultSmp = 3
    Blocks = 2
    PerBlock = 2
    Window = 3
    Timeout = 1
    Remembered = 5
    MaxFrames = 9
    MaxTrouble = 3
INVARIANTS NoFalseAlarm StreamSound RecordedInOrder
PROPERTY RingIsQueue
CHECK_DEADLOCK FALSE

SPECIFICATION Spec
CONSTANTS
    TagOctets = 2
    WordOctets = 2
    UsizeMax = 300
    MaxDepth = 3
    StringMax = 2
    U32Octets = 2
    LengthMax = 300
    DefaultCode = 3
    MaxCode = 4
    Alphabet <- Alphabet0
    Seeds <- Seeds0
    MaxOctets = 4
    SomeValues <- SomeValues0
    MaxValues = 2
    GooseFields <- GooseFields0
    GoodContents <- GoodContents0
    BadContents <- BadContents0
    OddTags <- OddTags0
    MaxEdits = 2
    SvFields <- SvFields0
    SvContents <- SvContents0
    SomeFrames <- SomeFrames0
    SomePairs <- SomePairs0
    Connections <- Connections0
    MaxTsdu = 16
    Proposals <- Proposals0
    Limits <- Limits0
    Types <- Types0
    Sets <- Sets0
    Calls <- Calls0
    MaxCalls = 3
    PduSizes = {66, 70, 72, 74, 104}
    Blocks <- Blocks0
    Entries <- Entries0
    ReportFlags = {1, 2, 3, 4, 5, 6, 7, 8}
INVARIANTS EnginesAgree RoundTrip StrictIsConformant NegotiatedFits ServesModel ReportArrives
CHECK_DEADLOCK FALSE

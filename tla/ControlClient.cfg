SPECIFICATION ClientSpec
CONSTANTS
    c1 = c1
    c2 = c2
    None = None
    Conns = {c1, c2}
    Outcomes = {"done", "failed", "inExecution"}
    Models = {"statusOnly", "directNormal", "sboNormal", "directEnhanced", "sboEnhanced"}
    KnownExecution = TRUE
    WritesFail = FALSE
    MaxCommands = 2
    MaxCalls = 2
INVARIANTS CallIsTrue SelectionReleased
SYMMETRY Symmetry
CHECK_DEADLOCK FALSE

SPECIFICATION FairSpec
CONSTANTS
    c1 = c1
    c2 = c2
    None = None
    Conns = {c1, c2}
    Outcomes = {"done", "inExecution", "test"}
    Models = {"directNormal", "sboNormal", "sboEnhanced"}
    KnownExecution = FALSE
    WritesFail = TRUE
    MaxCommands = 2
INVARIANTS CommandInHand TerminationIsLast ClientTold
PROPERTIES ObjectOperates CommandEnds
CHECK_DEADLOCK FALSE

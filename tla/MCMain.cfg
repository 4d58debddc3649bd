SPECIFICATION FairSpec
CONSTANTS
    c1 = c1
    c2 = c2
    Values <- MCValues
    Builtin <- MCBuiltin
    Switch <- MCSwitch
    Files <- MCFiles
    Commands <- MCCommands
    Environments <- MCEnvironments
    Circs <- MCCircs
    LogLimit = 2
    MaxLines = 3
    RetryLimits = {0, 2}
    LayerSize = 1
    MaxDrops = 2
CONSTRAINTS MCFewLines MCLosses MCOneState
INVARIANTS
    TypeOK
    PrecedenceKept
    
    BandClosesReach
    PostOfOwnTime
PROPERTIES
    AloneExact
    OwnLinesWritten
    ExitTellsService
    ServedAgain
CHECK_DEADLOCK FALSE

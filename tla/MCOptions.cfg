SPECIFICATION Spec
CONSTANTS
    c1 = c1
    c2 = c2
    Values <- MCValues
    Builtin <- MCBuiltin
    Switch <- MCSwitch
    Files <- MCFiles
    Commands <- MCCommands
    Environments <- MCEnvironments
    Circs = {}
    LogLimit = 2
    MaxLines = 0
    RetryLimits = {0}
    LayerSize = 1
    MaxDrops = 0
INVARIANTS
    FilesHonoured

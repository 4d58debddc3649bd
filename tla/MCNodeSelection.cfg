SPECIFICATION Spec
CONSTANTS
    FlagSets <- MCFlagSets
    Bandwidths = {0, 1, 2}
    Unmeasured = Unmeasured
    BwWeights <- MCBwWeights
    MaxRouters = 2
INVARIANTS
    DrawsInProportion
    RendWeightsAreProbabilities
\* The generator may raise NoNodesRemain, and its last use is by xfer_use_counts.
CHECK_DEADLOCK FALSE

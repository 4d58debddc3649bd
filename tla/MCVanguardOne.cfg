SPECIFICATION FairSpec
CONSTANTS
    ra = ra
    rb = rb
    rc = rc
    Relays <- MCPair
    NotInConsensus = NotInConsensus
    NoRelay = NoRelay
    GlobalStart = 1
    RelayStart = 1
    ScaleAt = 2
    MaxRatio = 1
    ChurnWeight = 1
    CloseOnOveruse = TRUE
    WeightUnit = 4
    Grain = 1
    MaxUses = 0
    Consensuses <- MCPairConsensuses
    Configs <- MCOneByOne
    Excludes <- MCNoExcludes
    MinLifetime <- MCMinLifetime
    MaxLifetime <- MCMaxLifetime
    MaxTime = 1
    MaxQueue = 2
    MaxDisturbances = 3
INVARIANTS
    LookupsDefined
    TorMatches
    DiskMatches
PROPERTIES
    ReloadReapplied
    DownRelaysSwitched
    GuardsKept
\* With nothing left to happen from outside, an idle process waits for ever.
CHECK_DEADLOCK FALSE

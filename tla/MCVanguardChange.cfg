SPECIFICATION Spec
CONSTANTS
    ra = ra
    rb = rb
    rc = rc
    Relays <- MCRelays
    NotInConsensus = NotInConsensus
    NoRelay = NoRelay
    GlobalStart = 1
    RelayStart = 1
    ScaleAt = 2
    MaxRatio = 1
    ChurnWeight = 1
    CloseOnOveruse = TRUE
    WeightUnit = 4
    Grain = 1
    MaxUses = 1
    Consensuses <- MCUnusable
    Configs <- MCAllConfigs
    Excludes <- MCExcludes
    MinLifetime <- MCMinLifetime
    MaxLifetime <- MCMaxLifetime
    MaxTime = 0
    MaxQueue = 2
    MaxDisturbances = 2
INVARIANTS
    TypeOK
    UpdatedLayers
PROPERTY
    GuardsPinned
\* With nothing left to happen from outside, an idle process waits for ever.
CHECK_DEADLOCK FALSE

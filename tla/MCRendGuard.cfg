SPECIFICATION RecordSpec
CONSTANTS
    ra = ra
    rb = rb
    Relays <- MCRelays
    NotInConsensus = NotInConsensus
    NoRelay = NoRelay
    GlobalStart = 3
    RelayStart = 2
    ScaleAt = 6
    MaxRatio = 2
    ChurnWeight = 1
    CloseOnOveruse = TRUE
    WeightUnit = 4
    Grain = 4
    MaxUses = 8
    Consensuses <- MCConsensuses
CONSTRAINT MCBound
INVARIANTS
    TotalIsSum
    ClosedOnOwnRecord
PROPERTIES
    SharesKept
    StaysArmed

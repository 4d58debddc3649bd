SPECIFICATION FairSpec
CONSTANTS
    c1 = c1
    c2 = c2
    Guards = {g1, g2}
    NoGuard = NoGuard
    ConnIds = {1, 6, 7}
    Circs = {}
    Kinds <- MCOneKind
    Reports <- MCSilent
    DestroyLag = 1
    ConnMaxDisconnected = 2
    CircMaxDisconnected = 2
    MaxAge = 0
    MaxTotal = 0
    MaxHsdesc = 0
    MaxServIntro = 0
    StartTime = 2
    MaxTime = 5
    MaxCells = 0
INVARIANTS
    TypeOK
    NoSilentOutage
    LiveExact
PROPERTIES
    OutageReported
    ConnOutagesDetected

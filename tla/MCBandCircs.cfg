SPECIFICATION Spec
CONSTANTS
    c1 = c1
    c2 = c2
    Guards = {g1}
    NoGuard = NoGuard
    ConnIds = {5, 6}
    Circs <- MCTwoCircs
    Kinds <- MCOneKind
    Reports <- MCSilent
    DestroyLag = 0
    ConnMaxDisconnected = 2
    CircMaxDisconnected = 2
    MaxAge = 2
    MaxTotal = 0
    MaxHsdesc = 0
    MaxServIntro = 0
    StartTime = 2
    MaxTime = 6
    MaxCells = 0
CONSTRAINT MCFewConns
SYMMETRY MCSymmetry
INVARIANTS
    KilledOncePerClosure
    CircOutageIsReal
PROPERTIES
    WatchedAgesBounded
    CircOutagesDetected

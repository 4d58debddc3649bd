SPECIFICATION Spec
CONSTANTS
    c1 = c1
    c2 = c2
    Guards = {g1}
    NoGuard = NoGuard
    ConnIds = {5}
    Circs <- MCOneCirc
    Kinds <- MCLimitKinds
    Reports <- MCTraffic
    DestroyLag = 1
    ConnMaxDisconnected = 2
    CircMaxDisconnected = 2
    MaxAge = 0
    MaxTotal = 2
    MaxHsdesc = 1
    MaxServIntro = 1
    StartTime = 2
    MaxTime = 2
    MaxCells = 3
INVARIANTS
    WatchedExact
PROPERTIES
    WatchedLimitsKept

SPECIFICATION Spec
CONSTANTS
    r1 = r1
    r2 = r2
    Guards = {g1, g2}
    Relays = {r1, r2}
    Blank = blank
    ConnIds = {c1, c2}
    LayerValues <- MCLayerValues
    Purposes <- MCPurposes
    Num <- MCNum
    LiteNum <- MCLiteNum
    MaxQueue = 2
    MaxChanges = 2
    MaxCircs = 1
INVARIANTS
    ConnCountsExact
    LayersFollow
    VerdictExact
    LiteKnown
CONSTRAINT MCFew
SYMMETRY MCSymmetry
CHECK_DEADLOCK FALSE

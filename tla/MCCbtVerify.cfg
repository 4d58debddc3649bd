SPECIFICATION Spec
CONSTANTS
    c1 = c1
    c2 = c2
    c3 = c3
    Circs <- MCCircs
SYMMETRY MCSymmetry
INVARIANTS
    CountersAgree

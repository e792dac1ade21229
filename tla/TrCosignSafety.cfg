SPECIFICATION Spec
CONSTANTS
    c1 = c1
    c2 = c2
    Node = {1, 2, 3}
    Call = {c1, c2}
    Coord <- TwoCoordinators
    Session = {s1, s2}
    MinSigners = 2
    MaxNonces = 2
    MaxStrays = 1
SYMMETRY Symmetry
INVARIANTS NonceSignsOnce OkIsWhole FailureHasCause

SPECIFICATION Spec
CONSTANTS
    c1 = c1
    c2 = c2
    c3 = c3
    N = 2
    Hubs = {"plain", "tr", "reshare"}
    Constitutions <- TwoConstitutions
    Call = {c1, c2, c3}
    Owner <- TwoOnOne
    MaxParts = 2
    MaxFaults = 1
    MaxStray = 1
    NoSession = NoSession
    NoKey = NoKey
INVARIANTS NoWedgedSession RefusedForDriftOnly SealedSound
CHECK_DEADLOCK FALSE

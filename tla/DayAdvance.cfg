SPECIFICATION Spec
CONSTANTS
    n1 = n1
    n2 = n2
    Node = {n1, n2}
    Call = {k1, k2}
    Owner <- BothOnFirst
    SigningT = 2
    MaxDay = 2
    MaxStrays = 1
    AskedDays = {2}
    WriteFails = TRUE
SYMMETRY Perms
INVARIANTS AdvanceIsKnown  ReshareOnce

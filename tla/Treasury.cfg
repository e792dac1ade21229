SPECIFICATION Spec
CONSTANTS
    N = 2
    T = 2
    Refresher = {r1, r2}
    MaxGen = 7
    MaxFaults = 1
    None = None
    Policy <- LabDefaults
    U64 = 1048576
    Call = {"c"}
    Requests <- MCRequests
    RawSighash = TRUE
INVARIANTS SignedPaysIntent OneSignaturePerIntent SignedUnderDepositKey SharesSign
SYMMETRY Perms
PROPERTY DepositKeyStable
CHECK_DEADLOCK FALSE

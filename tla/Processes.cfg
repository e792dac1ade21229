SPECIFICATION ProcessSpec
CONSTANTS
    None = None
    Identifier = {1, 2, 3}
    Key = {1, 2}
    KeyThreshold = 2
    MinSigners = {0, 2}
    Nonce = {1, 2}
    MaxSessions = 1
    MaxMade = 2
    NoKey = NoKey
    Command = {"cli"}
    Sizes = {2, 3}
    Nonces = {7, 8, 64, 65}
    MaxMessage = 2
    Skew = 1
    MaxKeys = 3
    MaxClock = 1
    MaxFaults = 2
    NoInverse = NoInverse
    Prime = 5
    LabN = 3
    LabT = 2
    LabSession = {1, 2}
    Message = {1, 2}
    Request = {1, 2}
INVARIANTS SignerSafe IdentitySafe LabSafe
PROPERTY SessionsStand
CHECK_DEADLOCK FALSE

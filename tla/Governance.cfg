SPECIFICATION Spec
CONSTANTS
    Node = {1, 2}
    Destination = {"", "d1", "d2", "a/b"}
    RewardBps = 5000
    Bounty <- MCBounty
    Cadence = "daily"
    None = None
    Vault = {1, 2}
    CouncilN = 3
    MinRebuilds = 1
    Timelock = 1
    Worker = {w1, w2}
    Scripts <- MCScripts
    Proposal = {"p1", "p2", "p3"}
    Release = {"r"}
    Source = {"src"}
    Hash = {0, 1}
SYMMETRY Workers
INVARIANTS LedgerSound AllowlistEarned CandidatesKept PayoutsSound
PROPERTY EpochForward
CHECK_DEADLOCK FALSE

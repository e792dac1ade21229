SPECIFICATION Spec
CONSTANTS
    Node = {n1, n2, n3}
    Session = {s1}
    Claim = {c1, c2}
    NoClaim = NoClaim
    NoNode = NoNode
    MaxRetries = 2
    Workers = 1
SYMMETRY Perms
INVARIANTS AtMostOneWinner WinnerHoldsQuorum FailedClaimStaysBurnt RefusalHasCause
PROPERTY ImplementsGrant

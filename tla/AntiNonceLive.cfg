SPECIFICATION FairSpec
CONSTANTS
    Node = {n1, n2}
    Session = {s1}
    Claim = {c1, c2}
    NoClaim = NoClaim
    NoNode = NoNode
    MaxRetries = 2
    Workers = 1
PROPERTY ClaimsReturn

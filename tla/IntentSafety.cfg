SPECIFICATION Spec
CONSTANTS
    Node = {n1, n2, n3}
    i1 = i1
    i2 = i2
    Intent = {i1}
    Call = {c1, c2}
    NoCall = NoCall
    Kinds = {"sign", "execute", "commit", "release"}
    Amount <- EachCostsTwo
    MaxTx = 2
    MaxDay = 2
    MaxRetries = 1
SYMMETRY Perms
INVARIANTS TypeOK AtMostOneFreshCommit FreshCommitHoldsQuorum NoReserveAfterCommit OnlySignedIntentsBurn

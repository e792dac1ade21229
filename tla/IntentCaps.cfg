SPECIFICATION Spec
CONSTANTS
    Node = {n1, n2}
    i1 = i1
    i2 = i2
    Intent = {i1, i2}
    Call = {c1, c2}
    NoCall = NoCall
    Kinds = {"sign", "execute", "reserve", "release"}
    Amount <- EachCostsTwo
    MaxTx = 2
    MaxDay = 3
    MaxRetries = 2
SYMMETRY Perms
INVARIANT CapsHold

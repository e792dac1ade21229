SPECIFICATION LogSpec
CONSTANTS
    Id = {i1, i2, i3}
    Writer = {w1, w2}
    NoId = NoId
    MaxTail = 3
    MaxCuts = 2
SYMMETRY Perms
INVARIANTS FreshSurvives

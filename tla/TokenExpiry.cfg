SPECIFICATION TokenSpec
CONSTANTS
    Requester = {p, q}
    Key = {"k"}
    Resource = {"r"}
    Lifetime = {0, 1, 5}
    DefaultLifetime = 3
    Margin = 2
    NoToken = NoToken
    MaxTime = 9
SYMMETRY Symmetry
INVARIANTS
    CachedTokenIsValid

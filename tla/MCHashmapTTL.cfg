SPECIFICATION TSpec
CONSTANTS
    a = a
    b = b
    c = c
    k1 = k1
    k2 = k2
    Threads = {a, b, c}
    Keys = {k1, k2}
    Vals = {v}
    Capacity = 2
    Index <- Collide
    MayCall <- OneDeleter
    SizeMod = 5
    Quiesce = TRUE
    Lifetime = 2
INVARIANTS
    ExpiryKeepsRoom
PROPERTIES
    GetIsAtomic
    TimedPutIsVisible

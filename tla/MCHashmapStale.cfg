SPECIFICATION FairSpec
CONSTANTS
    a = a
    b = b
    c = c
    k1 = k1
    k2 = k2
    k3 = k3
    Threads = {a, b, c}
    Keys = {k1, k2, k3}
    Vals = {v1, v2}
    Capacity = 2
    Index <- Collide
    MayCall <- Alone
    SizeMod = 5
    Quiesce = TRUE
PROPERTY NoStaleValue

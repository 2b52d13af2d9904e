SPECIFICATION FairSpec
CONSTANTS
    a = a
    b = b
    c = c
    k1 = k1
    k2 = k2
    k3 = k3
    Threads = {a, b, c}
    Keys = {k1, k2, k3}
    Vals = {v}
    Capacity = 2
    Index <- Collide
    MayCall <- OneDeleter
    SizeMod = 5
    Quiesce = TRUE
INVARIANTS
    ReadersExcludeWriters
    ProbeChainsUnbroken
    
    
    
PROPERTIES
    SomeCallReturns
    PutIsVisible

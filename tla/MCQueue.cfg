SPECIFICATION FairSpec
CONSTANTS
    p = p
    q = q
    w = w
    x = x
    Threads = {p, q, w, x}
    Items = {i1, i2}
    Nodes = {n1, n2}
    MayCall <- ServerCalls
    Quiesce = TRUE
INVARIANTS
    ListShape
    NodesAccountedFor
    TicketsMatchItems
    NoNullDeref
    InvalidIsEmpty
PROPERTIES
    
    EveryItemLeaves
